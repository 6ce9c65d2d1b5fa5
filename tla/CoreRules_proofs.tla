---------------------------- MODULE CoreRules_proofs ---------------------------
(***************************************************************************)
(* Proofs about the values of package core, for any environments,          *)
(* blockers, contents and number of steps: what the domain operations      *)
(* guarantee of a task, what ValidateTaskUpdate guarantees of a stored one,*)
(* what ValidateDecisionUpdate guarantees of a decision, and, for any      *)
(* number of logs and slices of any length, that a log keeps its entries.  *)
(***************************************************************************)
EXTENDS TaskLifecycle, TaskUpdates, DecisionRecord, Journal, TLAPS

--------------------------------------------------------------------------------
(* The domain operations: TaskLifecycle.  First, facts about the rules.     *)

LEMMA LiveStatesCanBeCancelled ==
  ASSUME NEW s \in States \ Definitive
  PROVE  "cancelled" \in taskTransitions[s]
  BY DEF States, Definitive, taskTransitions

LEMMA DeployingFrom ==
  ASSUME NEW s \in States, "deploying" \in taskTransitions[s]
  PROVE  s \in {"in_review", "testing"}
  BY DEF States, taskTransitions

(* What ApplyTransition returns. *)
LEMMA MovedTask ==
  ASSUME NEW t \in Task, NEW to \in States,
         NEW current \in Names \cup {None}
  PROVE  /\ Moved(t, to, current) \in Task
         /\ Moved(t, to, current).type = t.type
         /\ Moved(t, to, current).state = to
         /\ Moved(t, to, current).history
              = Append(t.history, [from |-> t.state, to |-> to])
         /\ Moved(t, to, current).blockedBy = t.blockedBy
         /\ Moved(t, to, current).closure = t.closure
         /\ Moved(t, to, current).current = current
<1>1. [from |-> t.state, to |-> to] \in Transition
  BY DEF Task, Transition
<1>2. Append(t.history, [from |-> t.state, to |-> to]) \in Seq(Transition)
  BY <1>1 DEF Task
<1>. QED  BY <1>2 DEF Moved, Task

--------------------------------------------------------------------------------
(* The inductive invariant *)

(* A task of type task is never in triage, so the type test of             *)
(* CanTransition never stands in the way.                                  *)
TriageIsForBugs == task.state = "triage" => task.type = "bug"

(* A blocked task names a blocker, whatever is assigned meanwhile.         *)
BlockedNamesBlocker == BlockerNamed(task)

(* cancelled can be reached from every state that is not definitive        *)
(* (taskTransitions' comment, task.go 173-174).                            *)
CancelAlwaysLegal ==
  task.state \notin Definitive => CanTransition(task, "cancelled")

LifecycleInv ==
  /\ LifecycleTypeOK
  /\ HistoryIsAWalk
  /\ BlockedNamesBlocker
  /\ CompletedWhereDeclared
  /\ TriageIsForBugs

LEMMA LifecycleInitInv == LifecycleInit => LifecycleInv
<1>. SUFFICES ASSUME NEW type \in Types, task = NewTask(type)  PROVE LifecycleInv
  BY DEF LifecycleInit
<1>1. InitialState(type) \in {"draft", "triage"}
  BY DEF InitialState
<1>2. [from |-> None, to |-> InitialState(type)] \in Transition
  BY <1>1 DEF Transition, States
<1>3. task.history \in Seq(Transition) /\ Len(task.history) = 1
      /\ task.history[1] = [from |-> None, to |-> InitialState(type)]
  BY <1>2 DEF NewTask
<1>4. LifecycleTypeOK
  BY <1>1, <1>3 DEF NewTask, LifecycleTypeOK, Task, States
<1>5. HistoryIsAWalk
  BY <1>3 DEF NewTask, HistoryIsAWalk, ValidateBirth
<1>6. BlockedNamesBlocker /\ CompletedWhereDeclared
  BY <1>1 DEF NewTask, BlockedNamesBlocker, BlockerNamed,
    CompletedWhereDeclared, ClosedWhereDeclared
<1>7. TriageIsForBugs
  BY DEF NewTask, TriageIsForBugs, InitialState
<1>. QED  BY <1>4, <1>5, <1>6, <1>7 DEF LifecycleInv

(* The walk is longer by one legal edge. *)
LEMMA WalkGrows ==
  ASSUME HistoryIsAWalk, LifecycleTypeOK, NEW to \in States,
         NEW current \in Names \cup {None},
         to \in taskTransitions[task.state],
         task' = Moved(task, to, current)
  PROVE  HistoryIsAWalk'
<1>. DEFINE h == task.history
            e == [from |-> task.state, to |-> to]
<1>1. h \in Seq(Transition) /\ e \in Transition
  BY DEF LifecycleTypeOK, Task, Transition
<1>2. task'.history = Append(h, e) /\ task'.state = to /\ task'.type = task.type
  BY MovedTask DEF LifecycleTypeOK
<1>3. Len(h) \in Nat /\ Len(h) >= 1
  BY <1>1 DEF HistoryIsAWalk
<1>4. /\ Len(Append(h, e)) = Len(h) + 1
      /\ Append(h, e)[Len(h) + 1] = e
      /\ \A i \in 1 .. Len(h) : Append(h, e)[i] = h[i]
  BY <1>1, <1>3
<1>5. Append(h, e)[1].from = None /\ ValidateBirth(task.type, Append(h, e)[1].to)
  BY <1>3, <1>4 DEF HistoryIsAWalk
<1>6. ASSUME NEW i \in 2 .. Len(h) + 1
      PROVE  /\ Append(h, e)[i].from = Append(h, e)[i - 1].to
             /\ Append(h, e)[i].to \in taskTransitions[Append(h, e)[i].from]
  <2>1. CASE i \in 2 .. Len(h)
    <3>1. i - 1 \in 1 .. Len(h) /\ i \in 1 .. Len(h)
      BY <1>3, <2>1
    <3>2. Append(h, e)[i] = h[i] /\ Append(h, e)[i - 1] = h[i - 1]
      BY <1>4, <3>1
    <3>. QED
      BY <2>1, <3>2 DEF HistoryIsAWalk
  <2>2. CASE i = Len(h) + 1
    <3>1. i - 1 = Len(h) /\ Len(h) \in 1 .. Len(h)
      BY <1>3, <2>2
    <3>2. Append(h, e)[i] = e /\ Append(h, e)[i - 1] = h[Len(h)]
      BY <1>4, <2>2, <3>1
    <3>3. h[Len(h)].to = task.state
      BY DEF HistoryIsAWalk
    <3>. QED
      BY <3>2, <3>3
  <2>. QED  BY <1>3, <1>6, <2>1, <2>2
<1>7. Append(h, e)[Len(h) + 1].to = to
  BY <1>4
<1>. QED
  BY <1>2, <1>3, <1>4, <1>5, <1>6, <1>7 DEF HistoryIsAWalk

LEMMA ApplyKeeps ==
  ASSUME LifecycleInv, NEW to \in States, NEW current \in Names \cup {None},
         Apply(to, current), to = "completed" => current = task.current
  PROVE  LifecycleInv'
<1>1. /\ task \in Task /\ task' = Moved(task, to, current)
      /\ CanTransition(task, to)
  BY DEF LifecycleInv, LifecycleTypeOK, Apply
<1>2. LifecycleTypeOK'
  BY <1>1, MovedTask DEF LifecycleTypeOK
<1>3. HistoryIsAWalk'
  BY <1>1, WalkGrows DEF LifecycleInv, CanTransition
<1>4. BlockedNamesBlocker'
  BY <1>1 DEF Apply, ValidateBlocked, BlockedNamesBlocker, BlockerNamed
<1>5. CompletedWhereDeclared'
  <2>1. ASSUME to = "completed"
        PROVE  task.closure = None \/ task.current = task.closure
    <3>1. task.state \in {"in_review", "testing"}
      <4>1. \A s \in States \ {"in_review", "testing"} :
              "completed" \notin taskTransitions[s]
        BY DEF States, taskTransitions
      <4>. QED
        BY <1>1, <2>1, <4>1 DEF CanTransition, Task
    <3>. QED
      BY <1>1, <2>1, <3>1 DEF CanTransition
  <2>. QED
    BY <1>1, <2>1, MovedTask DEF CompletedWhereDeclared, ClosedWhereDeclared
<1>6. TriageIsForBugs'
  BY <1>1, MovedTask DEF TriageIsForBugs, CanTransition
<1>. QED  BY <1>2, <1>3, <1>4, <1>5, <1>6 DEF LifecycleInv

LEMMA ApplyTransitionKeeps ==
  ASSUME LifecycleInv, NEW to \in States, ApplyTransition(to)
  PROVE  LifecycleInv'
<1>1. task.current \in Names \cup {None}
  BY DEF LifecycleInv, LifecycleTypeOK, Task
<1>. QED  BY <1>1, ApplyKeeps DEF ApplyTransition

LEMMA EnterEnvironmentKeeps ==
  ASSUME LifecycleInv, NEW environment \in Names, EnterEnvironment(environment)
  PROVE  LifecycleInv'
<1>1. "deploying" \in States
  BY DEF States
<1>. QED  BY <1>1, ApplyKeeps DEF EnterEnvironment

LEMMA AssignKeeps ==
  ASSUME LifecycleInv, NEW blockers \in SUBSET Blockers,
         NEW closure \in Names \cup {None}, Assign(blockers, closure)
  PROVE  LifecycleInv'
<1>1. /\ task \in Task
      /\ task' = [type |-> task.type, state |-> task.state,
                  history |-> task.history, blockedBy |-> blockers,
                  closure |-> closure, current |-> task.current]
      /\ task.state \notin Definitive
  BY DEF Assign, LifecycleInv, LifecycleTypeOK
<1>2. /\ task'.type = task.type /\ task'.state = task.state
      /\ task'.history = task.history /\ task'.current = task.current
  BY <1>1
<1>3. LifecycleTypeOK'
  <2>1. closure \in Environments \cup {None}
    BY DEF Assign, ValidateClosureEnvironment
  <2>. QED  BY <1>1, <2>1 DEF LifecycleTypeOK, Task
<1>4. HistoryIsAWalk'
  BY <1>2 DEF LifecycleInv, HistoryIsAWalk
<1>5. BlockedNamesBlocker'
  BY <1>1 DEF Assign, ValidateTaskUpdate, ValidateBlocked,
    BlockedNamesBlocker, BlockerNamed
<1>6. CompletedWhereDeclared' /\ TriageIsForBugs'
  BY <1>1, <1>2 DEF LifecycleInv, CompletedWhereDeclared, ClosedWhereDeclared,
    TriageIsForBugs, Definitive
<1>. QED  BY <1>3, <1>4, <1>5, <1>6 DEF LifecycleInv

LEMMA LifecycleInductive == LifecycleSpec => []LifecycleInv
<1>1. LifecycleInv /\ [LifecycleNext]_task => LifecycleInv'
  <2>. SUFFICES ASSUME LifecycleInv, [LifecycleNext]_task  PROVE LifecycleInv'
    OBVIOUS
  <2>1. CASE UNCHANGED task
    BY <2>1 DEF LifecycleInv, LifecycleTypeOK, HistoryIsAWalk, BlockedNamesBlocker,
      BlockerNamed, CompletedWhereDeclared, ClosedWhereDeclared,
      TriageIsForBugs
  <2>2. CASE LifecycleNext
    BY <2>2, ApplyTransitionKeeps, EnterEnvironmentKeeps, AssignKeeps DEF LifecycleNext
  <2>. QED  BY <2>1, <2>2
<1>. QED  BY <1>1, LifecycleInitInv, PTL DEF LifecycleSpec

--------------------------------------------------------------------------------
(* The theorems *)

(* The task keeps its type. *)
THEOREM LifecycleTypeCorrect == LifecycleSpec => []LifecycleTypeOK
  BY LifecycleInductive, PTL DEF LifecycleInv

(* The audit trail is a walk through the state graph from the birth state  *)
(* to the current one.                                                     *)
THEOREM HistoryWalks == LifecycleSpec => []HistoryIsAWalk
  BY LifecycleInductive, PTL DEF LifecycleInv

(* A blocked task always names a blocker.                                  *)
THEOREM BlockedIsJustified == LifecycleSpec => []BlockedNamesBlocker
  BY LifecycleInductive, PTL DEF LifecycleInv

(* A completed task was completed where it declared it would be.           *)
THEOREM CompletionRespected == LifecycleSpec => []CompletedWhereDeclared
  BY LifecycleInductive, PTL DEF LifecycleInv

(* Abandoning a task is always legal until it is done.                     *)
THEOREM CancellableUntilDone == LifecycleSpec => []CancelAlwaysLegal
<1>1. LifecycleInv => CancelAlwaysLegal
  <2>. SUFFICES ASSUME LifecycleInv, task.state \notin Definitive
                PROVE  CanTransition(task, "cancelled")
    BY DEF CancelAlwaysLegal
  <2>1. task.type \in Types /\ task.state \in States \ Definitive
    BY DEF LifecycleInv, LifecycleTypeOK, Task
  <2>2. "cancelled" \in taskTransitions[task.state]
    BY <2>1, LiveStatesCanBeCancelled
  <2>. QED
    BY <2>1, <2>2 DEF CanTransition, LifecycleInv, TriageIsForBugs
<1>. QED  BY <1>1, LifecycleInductive, PTL

(* Every step of the domain operations is a legal update of the stored     *)
(* task: the two ways of moving a task agree.                              *)
THEOREM DomainStepsAreAccepted == LifecycleSpec => AcceptedByUpdateGate
<1>1. LifecycleInv /\ [LifecycleNext]_task => [ValidateTaskUpdate(task, task')]_task
  <2>. SUFFICES ASSUME LifecycleInv, LifecycleNext  PROVE ValidateTaskUpdate(task, task')
    OBVIOUS
  <2>1. ASSUME NEW to \in States, NEW current \in Names \cup {None},
               Apply(to, current),
               current = task.current \/ to = "deploying"
        PROVE  ValidateTaskUpdate(task, task')
    <3>1. /\ task \in Task /\ task' = Moved(task, to, current)
          /\ CanTransition(task, to) /\ task.state \notin Definitive
          /\ ValidateBlocked(task')
      BY <2>1 DEF Apply, LifecycleInv, LifecycleTypeOK
    <3>2. /\ task'.state = to /\ task'.closure = task.closure
          /\ task'.current = current
      BY <3>1, MovedTask, <2>1
    <3>3. CanTransition(WithEnvironmentOf(task, task'), to)
      BY <2>1, <3>1, <3>2 DEF CanTransition, WithEnvironmentOf
    <3>. QED
      BY <3>1, <3>2, <3>3 DEF ValidateTaskUpdate
  <2>2. ASSUME NEW to \in States, ApplyTransition(to)
        PROVE  ValidateTaskUpdate(task, task')
    <3>1. task.current \in Names \cup {None}
      BY DEF LifecycleInv, LifecycleTypeOK, Task
    <3>. QED  BY <2>1, <2>2, <3>1 DEF ApplyTransition
  <2>3. ASSUME NEW e \in Names, EnterEnvironment(e)
        PROVE  ValidateTaskUpdate(task, task')
    <3>1. "deploying" \in States
      BY DEF States
    <3>. QED  BY <2>1, <2>3, <3>1 DEF EnterEnvironment
  <2>4. ASSUME NEW blockers \in SUBSET Blockers,
               NEW closure \in Names \cup {None},
               Assign(blockers, closure)
        PROVE  ValidateTaskUpdate(task, task')
    BY <2>4 DEF Assign
  <2>. QED
    BY <2>2, <2>3, <2>4 DEF LifecycleNext
<1>. QED  BY <1>1, LifecycleInductive, PTL DEF LifecycleSpec, AcceptedByUpdateGate

--------------------------------------------------------------------------------
(* The update gate: TaskUpdates *)

(* An accepted write that changes the state does so along an edge that is  *)
(* legal by the environments of both versions.                             *)
LEMMA AcceptedEdge ==
  ASSUME NEW previous, NEW next, ValidateTaskUpdate(previous, next),
         previous.state # next.state
  PROVE  /\ CanTransition(previous, next.state)
         /\ CanTransition(WithEnvironmentOf(previous, next), next.state)
  BY DEF ValidateTaskUpdate

(* Only in_review and testing lead to completed. *)
LEMMA IntoCompleted ==
  ASSUME NEW t \in Task, CanTransition(t, "completed")
  PROVE  t.state \in {"in_review", "testing"}
<1>1. t.state \in States /\ "completed" \in taskTransitions[t.state]
  BY DEF CanTransition, Task
<1>2. \A s \in States \ {"in_review", "testing"} :
        "completed" \notin taskTransitions[s]
  BY DEF States, taskTransitions
<1>. QED  BY <1>1, <1>2

LEMMA VersionIsTask == Version \subseteq Task
  BY HistoriesAreTrails DEF Version, Task

--------------------------------------------------------------------------------

(* No sequence of accepted writes leaves a blocked task without a blocker. *)
StoredNamesBlocker == BlockerNamed(stored)

UpdatesInv ==
  /\ stored \in Version
  /\ StoredNamesBlocker
  /\ StoredWhereDeclared

LEMMA UpdatesInitInv == UpdatesInit => UpdatesInv
  BY DEF UpdatesInit, UpdatesInv, StoredNamesBlocker, BlockerNamed, StoredWhereDeclared,
    ClosedWhereDeclared, ValidateBirth, InitialState

LEMMA UpdateKeeps ==
  ASSUME UpdatesInv, NEW next \in Version, UpdateTask(next)
  PROVE  UpdatesInv'
<1>1. stored' \in Version /\ stored' \in Task /\ stored \in Task
  BY VersionIsTask DEF UpdateTask, UpdatesInv
<1>2. StoredNamesBlocker'
  BY DEF UpdateTask, ValidateTaskUpdate, ValidateBlocked, UpdatesInv,
    StoredNamesBlocker, BlockerNamed
<1>3. StoredWhereDeclared'
  <2>1. CASE stored.state = "completed"
    BY <2>1 DEF UpdateTask, ValidateTaskUpdate, Definitive, UpdatesInv,
      StoredWhereDeclared, ClosedWhereDeclared
  <2>2. CASE stored.state # "completed" /\ stored'.state = "completed"
    <3>1. CanTransition(WithEnvironmentOf(stored, stored'), "completed")
      BY <2>2, AcceptedEdge DEF UpdateTask
    <3>2. CanTransition(stored, "completed")
      BY <2>2, AcceptedEdge DEF UpdateTask
    <3>3. stored.state \in {"in_review", "testing"}
      BY <1>1, <3>2, IntoCompleted
    <3>. QED
      BY <3>1, <3>3 DEF CanTransition, WithEnvironmentOf,
        StoredWhereDeclared, ClosedWhereDeclared
  <2>3. CASE stored'.state # "completed"
    BY <2>3 DEF StoredWhereDeclared, ClosedWhereDeclared
  <2>. QED  BY <2>1, <2>2, <2>3
<1>. QED  BY <1>1, <1>2, <1>3 DEF UpdatesInv

LEMMA UpdatesInductive == UpdatesSpec => []UpdatesInv
<1>1. UpdatesInv /\ [UpdatesNext]_stored => UpdatesInv'
  BY UpdateKeeps DEF UpdatesNext, UpdatesInv, StoredNamesBlocker, BlockerNamed,
    StoredWhereDeclared, ClosedWhereDeclared
<1>. QED  BY <1>1, UpdatesInitInv, PTL DEF UpdatesSpec

--------------------------------------------------------------------------------
(* The theorems *)

(* The stored task keeps its type. *)
THEOREM UpdatesTypeCorrect == UpdatesSpec => []UpdatesTypeOK
<1>1. UpdatesInv => UpdatesTypeOK
  BY VersionIsTask DEF UpdatesInv, UpdatesTypeOK
<1>. QED  BY <1>1, UpdatesInductive, PTL

(* No sequence of accepted writes leaves a task blocked on nothing.        *)
THEOREM NeverBlockedOnNothing == UpdatesSpec => []StoredNamesBlocker
  BY UpdatesInductive, PTL DEF UpdatesInv

(* No sequence of accepted writes leaves a task completed elsewhere.       *)
THEOREM NeverCompletedElsewhere == UpdatesSpec => []StoredWhereDeclared
  BY UpdatesInductive, PTL DEF UpdatesInv

(* No accepted write completes a task past its environment loop by         *)
(* changing an environment field in the same write.                        *)
THEOREM LoopIsNotSkipped == UpdatesSpec => LoopNotSkipped
<1>1. UpdatesInv /\ [UpdatesNext]_stored =>
        [stored'.state = "completed" /\ stored.state # "completed"
           /\ (stored.closure # None \/ stored'.closure # None)
         => /\ stored.state = "testing"
            /\ stored.current = stored.closure
            /\ stored'.current = stored'.closure]_stored
  <2>. SUFFICES ASSUME UpdatesInv, UpdatesNext,
                       stored'.state = "completed", stored.state # "completed",
                       stored.closure # None \/ stored'.closure # None
                PROVE  /\ stored.state = "testing"
                       /\ stored.current = stored.closure
                       /\ stored'.current = stored'.closure
    OBVIOUS
  <2>1. /\ CanTransition(stored, "completed")
        /\ CanTransition(WithEnvironmentOf(stored, stored'), "completed")
    BY AcceptedEdge DEF UpdatesNext, UpdateTask
  <2>2. stored.state \in {"in_review", "testing"}
    BY <2>1, IntoCompleted, VersionIsTask DEF UpdatesInv
  <2>. QED
    BY <2>1, <2>2 DEF CanTransition, WithEnvironmentOf
<1>. QED  BY <1>1, UpdatesInductive, PTL DEF UpdatesSpec, LoopNotSkipped

--------------------------------------------------------------------------------
(* Decisions: DecisionRecord.  Every step either records a decision or     *)
(* replaces one by a version the rule accepts, so all the theorems rest on *)
(* what the rule says of a pair of versions.                               *)

(* What ValidateDecisionUpdate says of two versions of a decision. *)
LEMMA RuleOfVersions ==
  ASSUME NEW previous \in Decision, NEW next \in Decision,
         ValidateDecisionUpdate(previous, next)
  PROVE  /\ next.content = previous.content
         /\ previous.status = "superseded" => next = previous
         /\ previous.status = "active" /\ next.status = "superseded" =>
              next.supersededBy # Unreplaced
<1>1. CASE previous.status = "superseded"
  <2>1. next = previous
    BY <1>1 DEF ValidateDecisionUpdate
  <2>. QED  BY <1>1, <2>1
<1>2. CASE previous.status # "superseded" /\ next.status = previous.status
  <2>1. next.content = previous.content
    BY <1>2 DEF ValidateDecisionUpdate
  <2>. QED  BY <1>2, <2>1 DEF Decision, Status
<1>3. CASE previous.status # "superseded" /\ next.status # previous.status
  <2>1. next.supersededBy # Unreplaced /\ next.content = previous.content
    BY <1>3 DEF ValidateDecisionUpdate
  <2>. QED  BY <1>3, <2>1
<1>. QED  BY <1>1, <1>2, <1>3

(* A recorded decision has its type and is in force.                       *)
LEMMA BornActive ==
  ASSUME NEW c \in Contents
  PROVE  /\ [content |-> c, status |-> "active", supersededBy |-> Unreplaced]
              \in Decision
         /\ [content |-> c, status |-> "active", supersededBy |-> Unreplaced]
              # Absent
BY AbsentIsNoDecision DEF Decision, Status

--------------------------------------------------------------------------------

(* Type correctness. *)
THEOREM DecisionsTypeCorrect == DecisionsSpec => []DecisionsTypeOK
<1>1. DecisionsInit => DecisionsTypeOK
  BY DEF DecisionsInit, DecisionsTypeOK
<1>2. DecisionsTypeOK /\ [DecisionsNext]_decisions => DecisionsTypeOK'
  <2>. SUFFICES ASSUME DecisionsTypeOK, [DecisionsNext]_decisions PROVE DecisionsTypeOK'
    OBVIOUS
  <2>1. ASSUME NEW d \in Decisions, NEW c \in Contents, RecordDecision(d, c)
        PROVE  DecisionsTypeOK'
    BY <2>1, BornActive DEF DecisionsTypeOK, RecordDecision
  <2>2. ASSUME NEW d \in Decisions, NEW next \in Decision, UpdateDecision(d, next)
        PROVE  DecisionsTypeOK'
    BY <2>2 DEF DecisionsTypeOK, UpdateDecision
  <2>3. CASE UNCHANGED decisions
    BY <2>3 DEF DecisionsTypeOK
  <2>. QED  BY <2>1, <2>2, <2>3 DEF DecisionsNext
<1>. QED  BY <1>1, <1>2, PTL DEF DecisionsSpec

(* A superseded decision always names its replacement. *)
ReplacementNamed ==
  \A d \in Decisions :
    decisions[d] # Absent /\ decisions[d].status = "superseded" =>
      decisions[d].supersededBy # Unreplaced

(* No sequence of accepted versions leaves a replacement unnamed.          *)
THEOREM ReplacementsNamed == DecisionsSpec => []ReplacementNamed
<1>1. DecisionsInit => ReplacementNamed
  BY DEF DecisionsInit, ReplacementNamed
<1>2. DecisionsTypeOK /\ ReplacementNamed /\ [DecisionsNext]_decisions => ReplacementNamed'
  <2>. SUFFICES ASSUME DecisionsTypeOK, ReplacementNamed, [DecisionsNext]_decisions
                PROVE  ReplacementNamed'
    OBVIOUS
  <2>1. ASSUME NEW d \in Decisions, NEW c \in Contents, RecordDecision(d, c)
        PROVE  ReplacementNamed'
    BY <2>1, BornActive DEF DecisionsTypeOK, RecordDecision, ReplacementNamed
  <2>2. ASSUME NEW d \in Decisions, NEW next \in Decision, UpdateDecision(d, next)
        PROVE  ReplacementNamed'
    <3>1. decisions[d] \in Decision
      BY <2>2 DEF DecisionsTypeOK, UpdateDecision
    <3>2. next.status = "superseded" => next.supersededBy # Unreplaced
      <4>1. CASE decisions[d].status = "superseded"
        <5>1. next = decisions[d]
          BY <2>2, <3>1, <4>1, RuleOfVersions DEF UpdateDecision
        <5>. QED  BY <2>2, <4>1, <5>1 DEF ReplacementNamed, UpdateDecision
      <4>2. CASE decisions[d].status = "active"
        BY <2>2, <3>1, <4>2, RuleOfVersions DEF UpdateDecision
      <4>. QED  BY <3>1, <4>1, <4>2 DEF Decision, Status
    <3>. QED  BY <2>2, <3>2 DEF DecisionsTypeOK, UpdateDecision, ReplacementNamed
  <2>3. CASE UNCHANGED decisions
    BY <2>3 DEF ReplacementNamed
  <2>. QED  BY <2>1, <2>2, <2>3 DEF DecisionsNext
<1>. QED  BY <1>1, <1>2, DecisionsTypeCorrect, PTL DEF DecisionsSpec

(* What a decision says never changes. *)
THEOREM ContentsKept == DecisionsSpec => ContentImmutable
<1>1. DecisionsTypeOK /\ [DecisionsNext]_decisions => [ContentKept]_decisions
  <2>. SUFFICES ASSUME DecisionsTypeOK, DecisionsNext PROVE ContentKept
    OBVIOUS
  <2>1. ASSUME NEW d \in Decisions, NEW c \in Contents, RecordDecision(d, c)
        PROVE  ContentKept
    BY <2>1 DEF DecisionsTypeOK, RecordDecision, ContentKept
  <2>2. ASSUME NEW d \in Decisions, NEW next \in Decision, UpdateDecision(d, next)
        PROVE  ContentKept
    <3>1. decisions[d] \in Decision
      BY <2>2 DEF DecisionsTypeOK, UpdateDecision
    <3>2. next # Absent /\ next.content = decisions[d].content
      BY <2>2, <3>1, RuleOfVersions, AbsentIsNoDecision DEF UpdateDecision
    <3>. QED  BY <2>2, <3>2 DEF DecisionsTypeOK, UpdateDecision, ContentKept
  <2>. QED  BY <2>1, <2>2 DEF DecisionsNext
<1>. QED  BY <1>1, DecisionsTypeCorrect, PTL DEF DecisionsSpec, ContentImmutable

(* Superseding is named and final. *)
THEOREM SupersededIsFinal == DecisionsSpec => SupersededForGood
<1>1. DecisionsTypeOK /\ ReplacementNamed /\ [DecisionsNext]_decisions => [Final]_decisions
  <2>. SUFFICES ASSUME DecisionsTypeOK, ReplacementNamed, DecisionsNext PROVE Final
    OBVIOUS
  <2>1. ASSUME NEW d \in Decisions, NEW c \in Contents, RecordDecision(d, c)
        PROVE  Final
    BY <2>1 DEF DecisionsTypeOK, ReplacementNamed, RecordDecision, Final
  <2>2. ASSUME NEW d \in Decisions, NEW next \in Decision, UpdateDecision(d, next)
        PROVE  Final
    <3>1. decisions[d] \in Decision
      BY <2>2 DEF DecisionsTypeOK, UpdateDecision
    <3>2. decisions[d].status = "superseded" => next = decisions[d]
      BY <2>2, <3>1, RuleOfVersions DEF UpdateDecision
    <3>. QED  BY <2>2, <3>2 DEF DecisionsTypeOK, ReplacementNamed, UpdateDecision, Final
  <2>. QED  BY <2>1, <2>2 DEF DecisionsNext
<1>. QED  BY <1>1, DecisionsTypeCorrect, ReplacementsNamed, PTL DEF DecisionsSpec, SupersededForGood

--------------------------------------------------------------------------------
(* The journal: Journal.  Logs and the slices Entries returned never lie   *)
(* in the same array, and nothing writes into an array of a log after the  *)
(* Append that allocated it.                                               *)


Element == Entry \cup {Zero}

Lies(h, s) ==
  /\ s \in Slice
  /\ s.array \in 1 .. Len(h)
  /\ s.len <= Len(h[s.array])

HeapInv == heap \in Seq(Seq(Element))

LogsInv ==
  /\ logs \in Seq(Slice)
  /\ Len(meaning) = Len(logs)
  /\ meaning \in Seq(Seq(Element))
  /\ \A l \in 1 .. Len(logs) :
       Lies(heap, logs[l]) /\ View(heap, logs[l]) = meaning[l]

CopiesInv ==
  /\ copies \in Seq(Slice)
  /\ \A c \in 1 .. Len(copies) : Lies(heap, copies[c])

Apart ==
  \A l \in 1 .. Len(logs), c \in 1 .. Len(copies) :
    logs[l].array # copies[c].array

JournalInv == HeapInv /\ LogsInv /\ CopiesInv /\ Apart

--------------------------------------------------------------------------------
(* Sequences *)

LEMMA FunctionIsSequence ==
  ASSUME NEW S, NEW n \in Nat, NEW f \in [1 .. n -> S]
  PROVE  f \in Seq(S) /\ Len(f) = n
  OBVIOUS

LEMMA Appended ==
  ASSUME NEW S, NEW seq \in Seq(S), NEW x \in S
  PROVE  /\ Append(seq, x) \in Seq(S)
         /\ Len(Append(seq, x)) = Len(seq) + 1
         /\ \A i \in 1 .. Len(seq) : Append(seq, x)[i] = seq[i]
         /\ Append(seq, x)[Len(seq) + 1] = x
  OBVIOUS

LEMMA Replaced ==
  ASSUME NEW S, NEW seq \in Seq(S), NEW i \in 1 .. Len(seq), NEW x \in S
  PROVE  /\ [seq EXCEPT ![i] = x] \in Seq(S)
         /\ Len([seq EXCEPT ![i] = x]) = Len(seq)
         /\ \A j \in 1 .. Len(seq) :
              [seq EXCEPT ![i] = x][j] = IF j = i THEN x ELSE seq[j]
  OBVIOUS

LEMMA AsFunction ==
  ASSUME NEW S, NEW seq \in Seq(S), NEW n, Len(seq) = n
  PROVE  seq = [i \in 1 .. n |-> seq[i]]
  OBVIOUS

LEMMA ElementOf ==
  ASSUME NEW S, NEW seq \in Seq(S), NEW i \in 1 .. Len(seq)
  PROVE  seq[i] \in S
  OBVIOUS

--------------------------------------------------------------------------------
(* The operations on slices *)

LEMMA ViewIsSequence ==
  ASSUME NEW h \in Seq(Seq(Element)), NEW s, Lies(h, s)
  PROVE  View(h, s) \in Seq(Element) /\ Len(View(h, s)) = s.len
<1>1. h[s.array] \in Seq(Element) /\ s.len \in Nat /\ s.len <= Len(h[s.array])
  BY DEF Lies, Slice
<1>2. \A i \in 1 .. s.len : h[s.array][i] \in Element
  <2>. SUFFICES ASSUME NEW i \in 1 .. s.len  PROVE h[s.array][i] \in Element
    OBVIOUS
  <2>1. i \in 1 .. Len(h[s.array])
    BY <1>1
  <2>. QED  BY <1>1, <2>1, ElementOf
<1>3. View(h, s) \in [1 .. s.len -> Element]
  BY <1>2 DEF View
<1>. QED
  BY <1>1, <1>3, FunctionIsSequence

LEMMA ArrayIsSequence ==
  ASSUME NEW seq \in Seq(Element), NEW capacity \in Nat
  PROVE  /\ Array(seq, capacity) \in Seq(Element)
         /\ Len(Array(seq, capacity)) = capacity
<1>1. \A i \in 1 .. capacity :
        (IF i <= Len(seq) THEN seq[i] ELSE Zero) \in Element
  BY DEF Element
<1>2. Array(seq, capacity) \in [1 .. capacity -> Element]
  BY <1>1 DEF Array
<1>. QED
  BY <1>2, FunctionIsSequence

(* A copy lies in a new array and shows what the slice showed.             *)
LEMMA CopiedMakes ==
  ASSUME NEW h \in Seq(Seq(Element)), NEW s, Lies(h, s),
         NEW capacity \in Nat, s.len <= capacity
  PROVE  LET new == Copied(h, s, capacity) IN
         /\ new.heap \in Seq(Seq(Element))
         /\ Len(new.heap) = Len(h) + 1
         /\ \A a \in 1 .. Len(h) : new.heap[a] = h[a]
         /\ new.slice = [array |-> Len(h) + 1, len |-> s.len]
         /\ Lies(new.heap, new.slice)
         /\ Len(new.heap[Len(h) + 1]) = capacity
         /\ View(new.heap, new.slice) = View(h, s)
<1>. DEFINE array == Array(View(h, s), capacity)
            new   == Copied(h, s, capacity)
<1>1. View(h, s) \in Seq(Element) /\ Len(View(h, s)) = s.len
  BY ViewIsSequence
<1>2. array \in Seq(Element) /\ Len(array) = capacity
  BY <1>1, ArrayIsSequence
<1>3. new.heap = Append(h, array) /\ new.slice = [array |-> Len(h) + 1, len |-> s.len]
  BY DEF Copied
<1>. HIDE DEF array, new
<1>4. /\ new.heap \in Seq(Seq(Element)) /\ Len(new.heap) = Len(h) + 1
      /\ \A a \in 1 .. Len(h) : new.heap[a] = h[a]
      /\ new.heap[Len(h) + 1] = array
  BY <1>2, <1>3, Appended
<1>5. s.len \in Nat
  BY DEF Lies, Slice
<1>6. Lies(new.heap, new.slice)
  BY <1>2, <1>3, <1>4, <1>5 DEF Lies, Slice
<1>7. \A i \in 1 .. s.len : array[i] = View(h, s)[i]
  BY <1>1, <1>5 DEF array, Array
<1>8. View(new.heap, new.slice) = View(h, s)
  <2>1. new.slice.array = Len(h) + 1 /\ new.slice.len = s.len
    BY <1>3
  <2>2. View(new.heap, new.slice) = [i \in 1 .. s.len |-> array[i]]
    BY <1>4, <2>1 DEF View
  <2>3. \A i \in 1 .. s.len : array[i] = h[s.array][i]
    BY <1>7 DEF View
  <2>. QED
    BY <2>2, <2>3 DEF View
<1>. QED
  BY <1>2, <1>3, <1>4, <1>6, <1>8 DEF new

(* append leaves every other array alone, and the length of its own.       *)
Grown(h, s, new) ==
  /\ new.heap \in Seq(Seq(Element))
  /\ Len(new.heap) >= Len(h)
  /\ \A a \in 1 .. Len(h) : a # s.array => new.heap[a] = h[a]
  /\ Len(new.heap[s.array]) = Len(h[s.array])
  /\ new.slice.array = s.array \/ new.slice.array = Len(h) + 1
  /\ Lies(new.heap, new.slice)

LEMMA AppendToMakes ==
  ASSUME NEW h \in Seq(Seq(Element)), NEW s, Lies(h, s),
         NEW e \in Entry, NEW spare \in Nat
  PROVE  Grown(h, s, AppendTo(h, s, e, spare))
<1>. DEFINE new == AppendTo(h, s, e, spare)
<1>0. s.len \in Nat /\ s.array \in 1 .. Len(h) /\ s.len <= Len(h[s.array])
      /\ h[s.array] \in Seq(Element) /\ e \in Element
  BY DEF Lies, Slice, Element
<1>1. CASE s.len < Len(h[s.array])
  <2>1. /\ new.heap = [h EXCEPT ![s.array][s.len + 1] = e]
        /\ new.slice = [array |-> s.array, len |-> s.len + 1]
    BY <1>1 DEF AppendTo
  <2>2. /\ [h[s.array] EXCEPT ![s.len + 1] = e] \in Seq(Element)
        /\ Len([h[s.array] EXCEPT ![s.len + 1] = e]) = Len(h[s.array])
    BY <1>0, <1>1, Replaced
  <2>3. new.heap = [h EXCEPT ![s.array] = [h[s.array] EXCEPT ![s.len + 1] = e]]
    BY <2>1
  <2>4. /\ new.heap \in Seq(Seq(Element)) /\ Len(new.heap) = Len(h)
        /\ \A a \in 1 .. Len(h) : a # s.array => new.heap[a] = h[a]
        /\ new.heap[s.array] = [h[s.array] EXCEPT ![s.len + 1] = e]
    <3>. DEFINE changed == [h[s.array] EXCEPT ![s.len + 1] = e]
    <3>1. changed \in Seq(Element)
      BY <2>2
    <3>2. new.heap = [h EXCEPT ![s.array] = changed]
      BY <2>3
    <3>. HIDE DEF changed, new
    <3>3. /\ new.heap \in Seq(Seq(Element)) /\ Len(new.heap) = Len(h)
          /\ \A a \in 1 .. Len(h) : a # s.array => new.heap[a] = h[a]
          /\ new.heap[s.array] = changed
      BY <1>0, <3>1, <3>2, Replaced
    <3>. QED  BY <3>3 DEF changed
  <2>5. Lies(new.heap, new.slice)
    <3>1. new.slice \in Slice
      BY <1>0, <2>1 DEF Slice
    <3>2. new.slice.array = s.array /\ new.slice.len = s.len + 1
      BY <2>1
    <3>3. s.len + 1 <= Len(new.heap[s.array])
      BY <1>0, <1>1, <2>2, <2>4
    <3>4. s.array \in 1 .. Len(new.heap)
      BY <1>0, <2>4
    <3>. HIDE DEF new
    <3>. QED  BY <3>1, <3>2, <3>3, <3>4 DEF Lies
  <2>. QED
    BY <1>0, <2>1, <2>2, <2>4, <2>5 DEF Grown
<1>2. CASE ~(s.len < Len(h[s.array]))
  <2>. DEFINE seq   == Append(View(h, s), e)
              array == Array(seq, s.len + 1 + spare)
  <2>1. /\ new.heap = Append(h, array)
        /\ new.slice = [array |-> Len(h) + 1, len |-> s.len + 1]
    BY <1>2 DEF AppendTo
  <2>2. seq \in Seq(Element)
    BY <1>0, ViewIsSequence, Appended
  <2>3. array \in Seq(Element) /\ Len(array) = s.len + 1 + spare
    <3>1. s.len + 1 + spare \in Nat
      BY <1>0
    <3>. QED  BY <2>2, <3>1, ArrayIsSequence
  <2>. HIDE DEF seq, array
  <2>4. /\ new.heap \in Seq(Seq(Element)) /\ Len(new.heap) = Len(h) + 1
        /\ \A a \in 1 .. Len(h) : new.heap[a] = h[a]
        /\ new.heap[Len(h) + 1] = array
    BY <2>1, <2>3, Appended
  <2>5. Lies(new.heap, new.slice)
    BY <1>0, <2>1, <2>3, <2>4 DEF Lies, Slice
  <2>. QED
    BY <1>0, <2>1, <2>4, <2>5 DEF Grown
<1>. QED  BY <1>1, <1>2

(* The Append of a log: a new array, filled in place.                      *)
LEMMA LogAppendMakes ==
  ASSUME NEW h \in Seq(Seq(Element)), NEW s, Lies(h, s),
         NEW e \in Entry, NEW spare \in Nat
  PROVE  LET new == LogAppend(h, s, e, spare) IN
         /\ new.heap \in Seq(Seq(Element))
         /\ Len(new.heap) = Len(h) + 1
         /\ \A a \in 1 .. Len(h) : new.heap[a] = h[a]
         /\ new.slice.array = Len(h) + 1
         /\ Lies(new.heap, new.slice)
         /\ View(new.heap, new.slice) = Append(View(h, s), e)
<1>. DEFINE mid == Copied(h, s, s.len + 1)
            new == LogAppend(h, s, e, spare)
            at  == Len(h) + 1
<1>0. s.len \in Nat /\ s.len + 1 \in Nat /\ s.len <= s.len + 1 /\ e \in Element
  BY DEF Lies, Slice, Element
<1>1. /\ mid.heap \in Seq(Seq(Element)) /\ Len(mid.heap) = at
      /\ \A a \in 1 .. Len(h) : mid.heap[a] = h[a]
      /\ mid.slice = [array |-> at, len |-> s.len]
      /\ Len(mid.heap[at]) = s.len + 1
      /\ View(mid.heap, mid.slice) = View(h, s)
  BY <1>0, CopiedMakes
<1>2. new = AppendTo(mid.heap, mid.slice, e, spare)
  BY DEF LogAppend
<1>. HIDE DEF mid, new
<1>3. mid.slice.array = at /\ mid.slice.len = s.len
  BY <1>1
<1>4. /\ new.heap = [mid.heap EXCEPT ![at][s.len + 1] = e]
      /\ new.slice = [array |-> at, len |-> s.len + 1]
  BY <1>0, <1>1, <1>2, <1>3 DEF AppendTo
<1>5. mid.heap[at] \in Seq(Element) /\ at \in 1 .. Len(mid.heap)
  BY <1>1
<1>6. /\ [mid.heap[at] EXCEPT ![s.len + 1] = e] \in Seq(Element)
      /\ Len([mid.heap[at] EXCEPT ![s.len + 1] = e]) = s.len + 1
  BY <1>0, <1>1, <1>5, Replaced
<1>7. new.heap = [mid.heap EXCEPT ![at] = [mid.heap[at] EXCEPT ![s.len + 1] = e]]
  BY <1>4
<1>8. /\ new.heap \in Seq(Seq(Element)) /\ Len(new.heap) = at
      /\ \A a \in 1 .. Len(h) : new.heap[a] = h[a]
      /\ new.heap[at] = [mid.heap[at] EXCEPT ![s.len + 1] = e]
  BY <1>1, <1>5, <1>6, <1>7, Replaced
<1>9. Lies(new.heap, new.slice)
  BY <1>0, <1>4, <1>6, <1>8 DEF Lies, Slice
<1>10. View(new.heap, new.slice) = Append(View(h, s), e)
  <2>1. View(h, s) \in Seq(Element) /\ Len(View(h, s)) = s.len
    BY ViewIsSequence
  <2>2. \A i \in 1 .. s.len : new.heap[at][i] = View(h, s)[i]
    <3>1. \A i \in 1 .. s.len : new.heap[at][i] = mid.heap[at][i]
      BY <1>0, <1>5, <1>8, <1>1
    <3>2. \A i \in 1 .. s.len : mid.heap[at][i] = View(mid.heap, mid.slice)[i]
      BY <1>3 DEF View
    <3>. QED  BY <1>1, <3>1, <3>2
  <2>3. new.heap[at][s.len + 1] = e
    <3>1. s.len + 1 \in 1 .. Len(mid.heap[at])
      BY <1>0, <1>1
    <3>. QED  BY <1>0, <1>5, <1>8, <3>1, Replaced
  <2>4. View(new.heap, new.slice) = [i \in 1 .. s.len + 1 |-> new.heap[at][i]]
    BY <1>4 DEF View
  <2>5. Append(View(h, s), e) = [i \in 1 .. s.len + 1 |-> Append(View(h, s), e)[i]]
    <3>1. Append(View(h, s), e) \in Seq(Element) /\ Len(Append(View(h, s), e)) = s.len + 1
      BY <1>0, <2>1, Appended
    <3>. QED  BY <3>1, AsFunction
  <2>6. \A i \in 1 .. s.len + 1 : new.heap[at][i] = Append(View(h, s), e)[i]
    <3>1. \A i \in 1 .. s.len : Append(View(h, s), e)[i] = View(h, s)[i]
      BY <1>0, <2>1, Appended
    <3>2. Append(View(h, s), e)[s.len + 1] = e
      BY <1>0, <2>1, Appended
    <3>3. \A i \in 1 .. s.len + 1 : i \in 1 .. s.len \/ i = s.len + 1
      BY <1>0
    <3>. QED  BY <2>2, <2>3, <3>1, <3>2, <3>3
  <2>. QED
    BY <2>4, <2>5, <2>6
<1>11. new.slice.array = Len(h) + 1
  BY <1>4
<1>. QED
  BY <1>8, <1>9, <1>10, <1>11 DEF new

--------------------------------------------------------------------------------
(* The invariant *)

LEMMA LiesStill ==
  ASSUME NEW h \in Seq(Seq(Element)), NEW g \in Seq(Seq(Element)), NEW s,
         Lies(h, s), Len(g) >= Len(h), Len(g[s.array]) = Len(h[s.array])
  PROVE  Lies(g, s)
<1>1. Len(h) \in Nat /\ Len(g) \in Nat
  OBVIOUS
<1>. QED  BY <1>1 DEF Lies

(* Steps that leave the arrays of the logs alone keep the logs.            *)
LEMMA LogsKept ==
  ASSUME JournalInv, NEW h \in Seq(Seq(Element)), Len(h) >= Len(heap),
         \A l \in 1 .. Len(logs) : h[logs[l].array] = heap[logs[l].array]
  PROVE  \A l \in 1 .. Len(logs) :
           Lies(h, logs[l]) /\ View(h, logs[l]) = meaning[l]
<1>. SUFFICES ASSUME NEW l \in 1 .. Len(logs)
              PROVE  Lies(h, logs[l]) /\ View(h, logs[l]) = meaning[l]
  OBVIOUS
<1>1. /\ Lies(heap, logs[l]) /\ View(heap, logs[l]) = meaning[l]
      /\ h[logs[l].array] = heap[logs[l].array] /\ heap \in Seq(Seq(Element))
  BY DEF JournalInv, LogsInv, HeapInv
<1>2. Lies(h, logs[l])
  BY <1>1, LiesStill
<1>3. View(h, logs[l]) = View(heap, logs[l])
  BY <1>1 DEF View
<1>. QED  BY <1>1, <1>2, <1>3

LEMMA JournalInitInv == JournalInit => JournalInv
<1>. SUFFICES ASSUME JournalInit  PROVE JournalInv
  OBVIOUS
<1>1. HeapInv
  BY DEF JournalInit, HeapInv
<1>2. LogsInv
  BY DEF JournalInit, LogsInv, Lies, Slice, View
<1>3. CopiesInv /\ Apart
  BY DEF JournalInit, CopiesInv, Apart
<1>. QED  BY <1>1, <1>2, <1>3 DEF JournalInv

LEMMA DeriveLogKeeps ==
  ASSUME JournalInv, NEW l \in 1 .. Len(logs), NEW e \in Entry, NEW spare \in Nat,
         DeriveLog(l, e, spare)
  PROVE  JournalInv'
<1>. DEFINE new == LogAppend(heap, logs[l], e, spare)
<1>1. Lies(heap, logs[l]) /\ heap \in Seq(Seq(Element))
  BY DEF JournalInv, LogsInv, HeapInv
<1>2. /\ new.heap \in Seq(Seq(Element)) /\ Len(new.heap) = Len(heap) + 1
      /\ \A a \in 1 .. Len(heap) : new.heap[a] = heap[a]
      /\ new.slice.array = Len(heap) + 1
      /\ Lies(new.heap, new.slice)
      /\ View(new.heap, new.slice) = Append(View(heap, logs[l]), e)
  BY <1>1, LogAppendMakes
<1>3. /\ heap' = new.heap /\ logs' = Append(logs, new.slice)
      /\ meaning' = Append(meaning, Append(meaning[l], e)) /\ copies' = copies
  BY DEF DeriveLog
<1>. HIDE DEF new
<1>4. HeapInv'
  BY <1>2, <1>3 DEF HeapInv
<1>5. \A k \in 1 .. Len(logs) : Lies(heap', logs[k]) /\ View(heap', logs[k]) = meaning[k]
  <2>1. \A k \in 1 .. Len(logs) : new.heap[logs[k].array] = heap[logs[k].array]
    BY <1>2 DEF JournalInv, LogsInv, Lies
  <2>. QED
    <3>1. Len(new.heap) >= Len(heap)
      BY <1>1, <1>2
    <3>. QED  BY <1>2, <1>3, <2>1, <3>1, LogsKept
<1>6. LogsInv'
  <2>1. meaning[l] \in Seq(Element) /\ View(heap, logs[l]) = meaning[l] /\ e \in Element
    BY DEF JournalInv, LogsInv, Element
  <2>2. logs' \in Seq(Slice) /\ meaning' \in Seq(Seq(Element)) /\ Len(meaning') = Len(logs')
    <3>1. /\ logs \in Seq(Slice) /\ meaning \in Seq(Seq(Element))
          /\ Len(meaning) = Len(logs) /\ new.slice \in Slice
      BY <1>2 DEF JournalInv, LogsInv, Lies
    <3>2. Append(meaning[l], e) \in Seq(Element)
      BY <2>1, Appended
    <3>3. logs' \in Seq(Slice) /\ Len(logs') = Len(logs) + 1
      BY <1>3, <3>1, Appended
    <3>4. meaning' \in Seq(Seq(Element)) /\ Len(meaning') = Len(meaning) + 1
      BY <1>3, <3>1, <3>2, Appended
    <3>. QED  BY <3>1, <3>3, <3>4
  <2>3. ASSUME NEW k \in 1 .. Len(logs')
        PROVE  Lies(heap', logs'[k]) /\ View(heap', logs'[k]) = meaning'[k]
    <3>1. CASE k <= Len(logs)
      <4>1. logs'[k] = logs[k] /\ meaning'[k] = meaning[k] /\ k \in 1 .. Len(logs)
        BY <1>3, <3>1 DEF JournalInv, LogsInv
      <4>. QED  BY <1>5, <4>1
    <3>2. CASE k > Len(logs)
      <4>1. logs'[k] = new.slice /\ meaning'[k] = Append(meaning[l], e)
        <5>1. Len(logs') = Len(logs) + 1 /\ Len(logs) \in Nat /\ new.slice \in Slice
          BY <1>2, <1>3, Appended DEF JournalInv, LogsInv, Lies
        <5>2. k = Len(logs) + 1 /\ k = Len(meaning) + 1
          BY <3>2, <5>1 DEF JournalInv, LogsInv
        <5>3. /\ logs \in Seq(Slice) /\ meaning \in Seq(Seq(Element))
              /\ Append(meaning[l], e) \in Seq(Element)
          BY <2>1, Appended DEF JournalInv, LogsInv
        <5>4. logs'[k] = new.slice
          BY <1>3, <5>1, <5>2, <5>3, Appended
        <5>5. meaning'[k] = Append(meaning[l], e)
          BY <1>3, <5>2, <5>3, Appended
        <5>. QED  BY <5>4, <5>5
      <4>. QED  BY <1>2, <1>3, <2>1, <4>1
    <3>. QED  BY <3>1, <3>2 DEF JournalInv, LogsInv
  <2>. QED  BY <2>2, <2>3 DEF LogsInv
<1>7. CopiesInv'
  <2>. SUFFICES ASSUME NEW c \in 1 .. Len(copies)  PROVE Lies(new.heap, copies[c])
    BY <1>3 DEF JournalInv, CopiesInv
  <2>1. Lies(heap, copies[c])
    BY DEF JournalInv, CopiesInv
  <2>2. new.heap[copies[c].array] = heap[copies[c].array] /\ Len(new.heap) >= Len(heap)
    <3>1. copies[c].array \in 1 .. Len(heap)
      BY <2>1 DEF Lies
    <3>2. new.heap[copies[c].array] = heap[copies[c].array]
      BY <1>2, <3>1
    <3>3. Len(new.heap) >= Len(heap)
      BY <1>1, <1>2
    <3>. QED  BY <3>2, <3>3
  <2>. QED  BY <1>1, <1>2, <2>1, <2>2, LiesStill
<1>8. Apart'
  <2>1. ASSUME NEW c \in 1 .. Len(copies)
        PROVE  copies[c].array # Len(heap) + 1
    <3>1. Lies(heap, copies[c])
      BY DEF JournalInv, CopiesInv
    <3>2. Len(heap) \in Nat /\ copies[c].array \in 1 .. Len(heap)
      BY <1>1, <3>1 DEF Lies
    <3>. QED  BY <3>2
  <2>2. ASSUME NEW k \in 1 .. Len(logs'), NEW c \in 1 .. Len(copies)
        PROVE  logs'[k].array # copies[c].array
    <3>1. logs \in Seq(Slice) /\ new.slice \in Slice
      BY <1>2 DEF JournalInv, LogsInv, Lies
    <3>2. /\ Len(logs') = Len(logs) + 1 /\ Len(logs) \in Nat
          /\ \A j \in 1 .. Len(logs) : logs'[j] = logs[j]
          /\ logs'[Len(logs) + 1] = new.slice
      BY <1>3, <3>1, Appended
    <3>3. CASE k \in 1 .. Len(logs)
      BY <3>2, <3>3 DEF JournalInv, Apart
    <3>4. CASE k = Len(logs) + 1
      BY <1>2, <2>1, <3>2, <3>4
    <3>. QED  BY <3>2, <3>3, <3>4
  <2>. QED
    BY <1>3, <2>2 DEF Apart
<1>. QED  BY <1>4, <1>6, <1>7, <1>8 DEF JournalInv

LEMMA TakeEntriesKeeps ==
  ASSUME JournalInv, NEW l \in 1 .. Len(logs), TakeEntries(l)
  PROVE  JournalInv'
<1>. DEFINE new == LogEntries(heap, logs[l])
<1>1. Lies(heap, logs[l]) /\ heap \in Seq(Seq(Element)) /\ logs[l].len \in Nat
      /\ logs[l].len <= logs[l].len
  <2>1. Lies(heap, logs[l]) /\ heap \in Seq(Seq(Element))
    BY DEF JournalInv, LogsInv, HeapInv
  <2>2. logs[l].len \in Nat
    BY <2>1 DEF Lies, Slice
  <2>. QED  BY <2>1, <2>2
<1>2. /\ new.heap \in Seq(Seq(Element)) /\ Len(new.heap) = Len(heap) + 1
      /\ \A a \in 1 .. Len(heap) : new.heap[a] = heap[a]
      /\ new.slice = [array |-> Len(heap) + 1, len |-> logs[l].len]
      /\ Lies(new.heap, new.slice)
  BY <1>1, CopiedMakes DEF LogEntries
<1>3. /\ heap' = new.heap /\ copies' = Append(copies, new.slice)
      /\ logs' = logs /\ meaning' = meaning
  BY DEF TakeEntries, history
<1>. HIDE DEF new
<1>4. HeapInv'
  BY <1>2, <1>3 DEF HeapInv
<1>5. LogsInv'
  <2>1. \A k \in 1 .. Len(logs) : new.heap[logs[k].array] = heap[logs[k].array]
    BY <1>2 DEF JournalInv, LogsInv, Lies
  <2>. QED
    <3>1. Len(new.heap) >= Len(heap)
      BY <1>1, <1>2
    <3>. QED  BY <1>2, <1>3, <2>1, <3>1, LogsKept DEF JournalInv, LogsInv
<1>6. CopiesInv'
  <2>1. /\ copies \in Seq(Slice) /\ new.slice \in Slice
        /\ Len(heap) \in Nat /\ Len(new.heap) >= Len(heap)
    BY <1>1, <1>2 DEF JournalInv, CopiesInv, Lies
  <2>2. ASSUME NEW c \in 1 .. Len(copies)  PROVE Lies(new.heap, copies[c])
    <3>1. Lies(heap, copies[c])
      BY DEF JournalInv, CopiesInv
    <3>2. new.heap[copies[c].array] = heap[copies[c].array]
      BY <1>2, <3>1 DEF Lies
    <3>. QED  BY <1>1, <1>2, <2>1, <3>1, <3>2, LiesStill
  <2>3. ASSUME NEW c \in 1 .. Len(copies')  PROVE Lies(heap', copies'[c])
    <3>1. CASE c \in 1 .. Len(copies)
      BY <1>3, <2>1, <2>2, <3>1, Appended
    <3>2. CASE c = Len(copies) + 1
      BY <1>2, <1>3, <2>1, <3>2, Appended
    <3>. QED  BY <1>3, <2>1, <3>1, <3>2, Appended
  <2>. QED
    BY <1>3, <2>1, <2>3, Appended DEF CopiesInv
<1>7. Apart'
  <2>1. \A k \in 1 .. Len(logs) : logs[k].array # Len(heap) + 1
    BY <1>1 DEF JournalInv, LogsInv, Lies
  <2>. QED
    BY <1>2, <1>3, <2>1 DEF JournalInv, CopiesInv, Apart
<1>. QED  BY <1>4, <1>5, <1>6, <1>7 DEF JournalInv

LEMMA ScribbleKeeps ==
  ASSUME JournalInv, NEW c \in 1 .. Len(copies), NEW i \in 1 .. copies[c].len,
         NEW e \in Entry, Scribble(c, i, e)
  PROVE  JournalInv'
<1>. DEFINE a == copies[c].array
<1>1. a \in 1 .. Len(heap) /\ heap[a] \in Seq(Element) /\ i \in 1 .. Len(heap[a])
      /\ e \in Element /\ heap \in Seq(Seq(Element))
  BY DEF JournalInv, HeapInv, CopiesInv, Lies, Slice, Element
<1>2. /\ heap' = [heap EXCEPT ![a] = [heap[a] EXCEPT ![i] = e]]
      /\ logs' = logs /\ copies' = copies /\ meaning' = meaning
  BY DEF Scribble, history
<1>. HIDE DEF a
<1>3. /\ [heap[a] EXCEPT ![i] = e] \in Seq(Element)
      /\ Len([heap[a] EXCEPT ![i] = e]) = Len(heap[a])
  BY <1>1
<1>4. /\ heap' \in Seq(Seq(Element)) /\ Len(heap') = Len(heap)
      /\ \A b \in 1 .. Len(heap) : b # a => heap'[b] = heap[b]
      /\ Len(heap'[a]) = Len(heap[a])
  BY <1>1, <1>2, <1>3
<1>5. LogsInv'
  <2>1. \A l \in 1 .. Len(logs) : heap'[logs[l].array] = heap[logs[l].array]
    BY <1>4 DEF JournalInv, LogsInv, Lies, Apart, a
  <2>. QED
    <3>1. Len(heap') >= Len(heap)
      BY <1>1, <1>4
    <3>. QED  BY <1>2, <1>4, <2>1, <3>1, LogsKept DEF JournalInv, LogsInv
<1>6. CopiesInv'
  BY <1>2, <1>4 DEF JournalInv, CopiesInv, Lies
<1>. QED
  BY <1>2, <1>4, <1>5, <1>6 DEF JournalInv, HeapInv, Apart

LEMMA ExtendKeeps ==
  ASSUME JournalInv, NEW c \in 1 .. Len(copies), NEW e \in Entry, NEW spare \in Nat,
         Extend(c, e, spare)
  PROVE  JournalInv'
<1>. DEFINE s   == copies[c]
            new == AppendTo(heap, s, e, spare)
<1>1. Lies(heap, s) /\ heap \in Seq(Seq(Element))
  BY DEF JournalInv, CopiesInv, HeapInv
<1>. HIDE DEF s, new
<1>2. /\ new.heap \in Seq(Seq(Element)) /\ Len(new.heap) >= Len(heap)
      /\ \A a \in 1 .. Len(heap) : a # s.array => new.heap[a] = heap[a]
      /\ Len(new.heap[s.array]) = Len(heap[s.array])
      /\ new.slice.array = s.array \/ new.slice.array = Len(heap) + 1
      /\ Lies(new.heap, new.slice)
  <2>1. Grown(heap, s, AppendTo(heap, s, e, spare))
    BY <1>1, AppendToMakes
  <2>. QED  BY <2>1 DEF Grown, new
<1>3. /\ heap' = new.heap /\ copies' = [copies EXCEPT ![c] = new.slice]
      /\ logs' = logs /\ meaning' = meaning
  BY DEF Extend, s, new, history
<1>. USE DEF s
<1>4. \A l \in 1 .. Len(logs) :
        logs[l].array \in 1 .. Len(heap) /\ logs[l].array # s.array
  BY DEF JournalInv, LogsInv, Lies, Apart
<1>5. LogsInv'
  <2>1. \A l \in 1 .. Len(logs) : new.heap[logs[l].array] = heap[logs[l].array]
    BY <1>2, <1>4
  <2>. QED
    BY <1>1, <1>2, <1>3, <2>1, LogsKept DEF JournalInv, LogsInv
<1>6. CopiesInv'
  <2>1. copies' \in Seq(Slice) /\ Len(copies') = Len(copies)
    BY <1>2, <1>3 DEF JournalInv, CopiesInv, Lies
  <2>2. ASSUME NEW d \in 1 .. Len(copies)  PROVE Lies(heap', copies'[d])
    <3>1. CASE d = c
      BY <1>2, <1>3, <3>1 DEF JournalInv, CopiesInv
    <3>2. CASE d # c
      <4>1. copies'[d] = copies[d] /\ Lies(heap, copies[d])
        BY <1>3, <3>2 DEF JournalInv, CopiesInv
      <4>2. Len(new.heap[copies[d].array]) = Len(heap[copies[d].array])
        BY <1>2, <4>1 DEF Lies
      <4>. QED
        BY <1>1, <1>2, <1>3, <4>1, <4>2, LiesStill
    <3>. QED  BY <3>1, <3>2
  <2>. QED  BY <2>1, <2>2 DEF CopiesInv
<1>7. Apart'
  <2>1. \A l \in 1 .. Len(logs) : logs[l].array # new.slice.array
    BY <1>1, <1>2, <1>4
  <2>. QED
    BY <1>3, <2>1 DEF JournalInv, CopiesInv, Apart
<1>. QED  BY <1>2, <1>3, <1>5, <1>6, <1>7 DEF JournalInv, HeapInv

LEMMA JournalInductive == JournalInv /\ [JournalNext]_journalVars => JournalInv'
<1>. SUFFICES ASSUME JournalInv, [JournalNext]_journalVars  PROVE JournalInv'
  OBVIOUS
<1>1. DOMAIN logs = 1 .. Len(logs) /\ DOMAIN copies = 1 .. Len(copies)
  BY DEF JournalInv, LogsInv, CopiesInv
<1>2. \A spare \in 0 .. MaxSpare : spare \in Nat
  OBVIOUS
<1>3. CASE UNCHANGED journalVars
  BY <1>3 DEF journalVars, history, JournalInv, HeapInv, LogsInv, CopiesInv, Apart
<1>4. ASSUME NEW p \in Pointer, NEW code \in ExitCodes, WriteExitCode(p, code)
      PROVE  JournalInv'
  BY <1>4 DEF WriteExitCode, JournalInv, HeapInv, LogsInv, CopiesInv, Apart
<1>5. CASE JournalNext
  BY <1>1, <1>2, <1>4, <1>5, DeriveLogKeeps, TakeEntriesKeeps, ScribbleKeeps,
    ExtendKeeps DEF JournalNext
<1>. QED  BY <1>3, <1>5

--------------------------------------------------------------------------------
(* What the entries of the logs say.  No step but a write through a        *)
(* pointer changes that, and what it changes it leaves a note of.          *)

Saying == [fields : Fields, exitCode : ExitCodes \cup {Nil}]

(* Entries say what they said, but for the exit codes written through.     *)
Agrees(code, through, entries, sayings) ==
  /\ entries \in Seq(Entry) /\ sayings \in Seq(Saying)
  /\ Len(sayings) = Len(entries)
  /\ \A i \in 1 .. Len(entries) :
       Said(code, entries[i]) = sayings[i] \/ entries[i].exitCode \in through

SaidInv ==
  /\ exitCode \in [Pointer -> ExitCodes]
  /\ meaning \in Seq(Seq(Entry)) /\ said \in Seq(Seq(Saying))
  /\ Len(said) = Len(meaning)
  /\ \A l \in 1 .. Len(meaning) : Agrees(exitCode, written, meaning[l], said[l])

LEMMA SaidIsSaying ==
  ASSUME NEW code \in [Pointer -> ExitCodes], NEW e \in Entry
  PROVE  Said(code, e) \in Saying
BY DEF Said, Saying, Entry

LEMMA SaidInitInv == JournalInit => SaidInv
<1>. SUFFICES ASSUME JournalInit  PROVE SaidInv
  OBVIOUS
<1>1. meaning = <<<<>>>> /\ said = <<<<>>>> /\ exitCode \in [Pointer -> ExitCodes]
  BY DEF JournalInit
<1>2. Agrees(exitCode, written, <<>>, <<>>)
  BY DEF Agrees
<1>. QED  BY <1>1, <1>2 DEF SaidInv

(* One entry more, which says what it says.                                *)
LEMMA AgreesGrows ==
  ASSUME NEW code \in [Pointer -> ExitCodes], NEW through,
         NEW entries, NEW sayings, Agrees(code, through, entries, sayings),
         NEW e \in Entry
  PROVE  Agrees(code, through, Append(entries, e), Append(sayings, Said(code, e)))
<1>1. /\ entries \in Seq(Entry) /\ sayings \in Seq(Saying)
      /\ Len(sayings) = Len(entries) /\ Said(code, e) \in Saying
  BY SaidIsSaying DEF Agrees
<1>. DEFINE more == Append(entries, e)
            told == Append(sayings, Said(code, e))
<1>2. /\ more \in Seq(Entry) /\ Len(more) = Len(entries) + 1
      /\ \A i \in 1 .. Len(entries) : more[i] = entries[i]
      /\ more[Len(entries) + 1] = e
  BY <1>1, Appended
<1>3. /\ told \in Seq(Saying) /\ Len(told) = Len(entries) + 1
      /\ \A i \in 1 .. Len(entries) : told[i] = sayings[i]
      /\ told[Len(entries) + 1] = Said(code, e)
  BY <1>1, Appended
<1>. HIDE DEF more, told
<1>4. ASSUME NEW i \in 1 .. Len(more)
      PROVE  Said(code, more[i]) = told[i] \/ more[i].exitCode \in through
  <2>1. Len(entries) \in Nat
    BY <1>1
  <2>2. CASE i \in 1 .. Len(entries)
    BY <1>2, <1>3, <2>2 DEF Agrees
  <2>3. CASE i = Len(entries) + 1
    BY <1>2, <1>3, <2>3
  <2>. QED  BY <1>2, <2>1, <2>2, <2>3
<1>5. Agrees(code, through, more, told)
  BY <1>2, <1>3, <1>4 DEF Agrees
<1>. QED  BY <1>5 DEF more, told

LEMMA DeriveLogSays ==
  ASSUME JournalInv, SaidInv, NEW l \in 1 .. Len(logs), NEW e \in Entry,
         NEW spare \in Nat, DeriveLog(l, e, spare)
  PROVE  SaidInv'
<1>. DEFINE entries == Append(meaning[l], e)
            sayings == Append(said[l], Said(exitCode, e))
<1>1. /\ meaning' = Append(meaning, entries) /\ said' = Append(said, sayings)
      /\ exitCode' = exitCode /\ written' = written
  BY DEF DeriveLog
<1>2. /\ meaning \in Seq(Seq(Entry)) /\ said \in Seq(Seq(Saying))
      /\ Len(said) = Len(meaning) /\ l \in 1 .. Len(meaning)
      /\ exitCode \in [Pointer -> ExitCodes]
  BY DEF SaidInv, JournalInv, LogsInv
<1>3. Agrees(exitCode, written, entries, sayings)
  BY <1>2, AgreesGrows DEF SaidInv
<1>4. entries \in Seq(Entry) /\ sayings \in Seq(Saying)
  BY <1>3 DEF Agrees
<1>. HIDE DEF entries, sayings
<1>5. /\ meaning' \in Seq(Seq(Entry)) /\ Len(meaning') = Len(meaning) + 1
      /\ \A k \in 1 .. Len(meaning) : meaning'[k] = meaning[k]
      /\ meaning'[Len(meaning) + 1] = entries
  BY <1>1, <1>2, <1>4, Appended
<1>6. /\ said' \in Seq(Seq(Saying)) /\ Len(said') = Len(meaning) + 1
      /\ \A k \in 1 .. Len(meaning) : said'[k] = said[k]
      /\ said'[Len(meaning) + 1] = sayings
  <2>1. said' = Append(said, sayings)
    BY <1>1
  <2>2. said \in Seq(Seq(Saying)) /\ sayings \in Seq(Saying)
    BY <1>2, <1>4
  <2>3. /\ Append(said, sayings) \in Seq(Seq(Saying))
        /\ Len(Append(said, sayings)) = Len(said) + 1
        /\ \A k \in 1 .. Len(said) : Append(said, sayings)[k] = said[k]
        /\ Append(said, sayings)[Len(said) + 1] = sayings
    BY <2>2, Appended
  <2>. QED  BY <1>2, <2>1, <2>3
<1>7. ASSUME NEW k \in 1 .. Len(meaning')
      PROVE  Agrees(exitCode', written', meaning'[k], said'[k])
  <2>1. Len(meaning) \in Nat
    BY <1>2
  <2>2. CASE k \in 1 .. Len(meaning)
    BY <1>1, <1>5, <1>6, <2>2 DEF SaidInv
  <2>3. CASE k = Len(meaning) + 1
    BY <1>1, <1>3, <1>5, <1>6, <2>3
  <2>. QED  BY <1>5, <2>1, <2>2, <2>3
<1>. QED  BY <1>1, <1>2, <1>5, <1>6, <1>7 DEF SaidInv

LEMMA WriteExitCodeSays ==
  ASSUME SaidInv, NEW p \in Pointer, NEW code \in ExitCodes, WriteExitCode(p, code)
  PROVE  SaidInv'
<1>1. /\ exitCode' = [exitCode EXCEPT ![p] = code] /\ written' = written \cup {p}
      /\ meaning' = meaning /\ said' = said
  BY DEF WriteExitCode
<1>2. exitCode' \in [Pointer -> ExitCodes] /\ exitCode \in [Pointer -> ExitCodes]
  BY <1>1 DEF SaidInv
<1>3. ASSUME NEW e \in Entry, e.exitCode # p
      PROVE  Said(exitCode', e) = Said(exitCode, e)
  BY <1>1, <1>2, <1>3 DEF Said, Entry
<1>4. ASSUME NEW l \in 1 .. Len(meaning)
      PROVE  Agrees(exitCode', written', meaning[l], said[l])
  <2>1. Agrees(exitCode, written, meaning[l], said[l])
    BY DEF SaidInv
  <2>2. \A i \in 1 .. Len(meaning[l]) : meaning[l][i] \in Entry
    BY <2>1 DEF Agrees
  <2>. QED  BY <1>1, <1>3, <2>1, <2>2 DEF Agrees
<1>. QED  BY <1>1, <1>2, <1>4 DEF SaidInv

LEMMA SaidInductive == JournalInv /\ SaidInv /\ [JournalNext]_journalVars => SaidInv'
<1>. SUFFICES ASSUME JournalInv, SaidInv, [JournalNext]_journalVars  PROVE SaidInv'
  OBVIOUS
<1>1. ASSUME exitCode' = exitCode, history' = history
      PROVE  SaidInv'
  BY <1>1 DEF history, SaidInv
<1>2. ASSUME NEW l \in DOMAIN logs, TakeEntries(l)  PROVE SaidInv'
  BY <1>1, <1>2 DEF TakeEntries
<1>3. ASSUME NEW c \in DOMAIN copies, NEW e \in Entry, NEW i \in 1 .. copies[c].len,
             Scribble(c, i, e)
      PROVE  SaidInv'
  BY <1>1, <1>3 DEF Scribble
<1>4. ASSUME NEW c \in DOMAIN copies, NEW e \in Entry, NEW spare \in 0 .. MaxSpare,
             Extend(c, e, spare)
      PROVE  SaidInv'
  BY <1>1, <1>4 DEF Extend
<1>5. DOMAIN logs = 1 .. Len(logs) /\ \A spare \in 0 .. MaxSpare : spare \in Nat
  BY DEF JournalInv, LogsInv
<1>6. CASE UNCHANGED journalVars
  BY <1>1, <1>6 DEF journalVars
<1>7. CASE JournalNext
  BY <1>2, <1>3, <1>4, <1>5, <1>7, DeriveLogSays, WriteExitCodeSays DEF JournalNext
<1>. QED  BY <1>6, <1>7

--------------------------------------------------------------------------------

(* However many logs are derived from one another, and whatever a caller   *)
(* does to the slices Entries returned, every log goes on holding the      *)
(* entries it was made with, and they go on saying what they said, but for *)
(* the exit codes that are written through their pointers.                 *)
THEOREM LogsKeepEntries == JournalSpec => []EntriesKept
<1>1. JournalInv /\ SaidInv => EntriesKept
  <2>. SUFFICES ASSUME JournalInv, SaidInv, NEW l \in DOMAIN logs
                PROVE  /\ logs[l].array \in DOMAIN heap
                       /\ View(heap, logs[l]) = meaning[l]
                       /\ \A i \in DOMAIN meaning[l] :
                            \/ Said(exitCode, meaning[l][i]) = said[l][i]
                            \/ meaning[l][i].exitCode \in written
    BY DEF EntriesKept
  <2>1. l \in 1 .. Len(logs) /\ l \in 1 .. Len(meaning)
    BY DEF JournalInv, LogsInv
  <2>2. logs[l].array \in DOMAIN heap /\ View(heap, logs[l]) = meaning[l]
    BY <2>1 DEF JournalInv, HeapInv, LogsInv, Lies
  <2>3. Agrees(exitCode, written, meaning[l], said[l])
    BY <2>1 DEF SaidInv
  <2>4. DOMAIN meaning[l] = 1 .. Len(meaning[l])
    BY <2>3 DEF Agrees
  <2>. QED  BY <2>2, <2>3, <2>4 DEF Agrees
<1>2. JournalSpec => [](JournalInv /\ SaidInv)
  BY JournalInitInv, JournalInductive, SaidInitInv, SaidInductive, PTL DEF JournalSpec
<1>. QED  BY <1>1, <1>2, PTL

================================================================================
