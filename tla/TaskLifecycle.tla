----------------------------- MODULE TaskLifecycle -----------------------------
(***************************************************************************)
(* One task or bug from birth to a definitive state, moved only by the     *)
(* domain operations of core/task.go: NewTask, ApplyTransition and         *)
(* EnterEnvironment, with the fields a caller assigns itself (BlockedBy,   *)
(* ClosureEnvironment) changed under ValidateTaskUpdate.                   *)
(***************************************************************************)
EXTENDS TaskRules

CONSTANT MaxHistory   \* bound on the recorded transitions

VARIABLE task

LifecycleInit == \E type \in Types : task = NewTask(type)

(* An ApplyTransition that leaves the blockers to its caller.              *)
ApplyUnblocked(to, current) ==
  /\ task.state \notin Definitive
  /\ CanTransition(task, to)
  /\ Len(task.history) < MaxHistory
  /\ task' = Moved(task, to, current)

(* ApplyTransition with its result kept. *)
Apply(to, current) ==
  /\ task.state \notin Definitive
  /\ CanTransition(task, to)
  /\ ValidateBlocked(Moved(task, to, current))
  /\ Len(task.history) < MaxHistory
  /\ task' = Moved(task, to, current)

ApplyTransition(to) == Apply(to, task.current)

(* Any non-empty name will do; it is not checked against the project's. *)
EnterEnvironment(environment) == Apply("deploying", environment)

(* The caller assigns the blockers and the closure environment. *)
Assign(blockers, closure) ==
  LET next == [type |-> task.type, state |-> task.state,
               history |-> task.history, blockedBy |-> blockers,
               closure |-> closure, current |-> task.current]
  IN /\ task.state \notin Definitive
     /\ closure = None \/ ValidateClosureEnvironment(closure)
     /\ ValidateTaskUpdate(task, next)
     /\ task' = next

LifecycleNext ==
  \/ \E to \in States : ApplyTransition(to)
  \/ \E environment \in Names : EnterEnvironment(environment)
  \/ \E blockers \in SUBSET Blockers, closure \in Names \cup {None} :
       Assign(blockers, closure)

LifecycleSpec == LifecycleInit /\ [][LifecycleNext]_task

--------------------------------------------------------------------------------
(* Properties *)

LifecycleTypeOK == task \in Task

(* The audit trail is a walk through the state graph: it starts at the     *)
(* birth state, every entry leaves the state the one before it reached     *)
(* along an edge of the graph, and it ends in the state the task is in.    *)
HistoryIsAWalk ==
  LET h == task.history IN
  /\ Len(h) >= 1
  /\ h[1].from = None /\ ValidateBirth(task.type, h[1].to)
  /\ \A i \in 2 .. Len(h) :
       h[i].from = h[i - 1].to /\ h[i].to \in taskTransitions[h[i].from]
  /\ h[Len(h)].to = task.state

(* Completion respects the declared closure environment on every path      *)
(* through the per-environment loop.                                       *)
CompletedWhereDeclared == ClosedWhereDeclared(task)

(* "Entering deploying always means entering it for one concrete           *)
(* environment" (EnterEnvironment's comment, task.go 315-318).  It does    *)
(* not: ApplyTransition moves a task into deploying too, and names none.   *)
DeployingForEnvironment == task.state = "deploying" => task.current # None

(* Whatever the domain operations do to a task, the gate an incoming write *)
(* has to pass accepts it.                                                 *)
AcceptedByUpdateGate == [][ValidateTaskUpdate(task, task')]_task

================================================================================
