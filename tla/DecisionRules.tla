----------------------------- MODULE DecisionRules -----------------------------
(***************************************************************************)
(* core/decision.go: the pure rule that guards the versions of an          *)
(* architecture decision.  Title, context, choice, consequences and        *)
(* alternatives are one value, the content, because decisionContentEqual   *)
(* compares them together.                                                 *)
(***************************************************************************)
CONSTANTS
  Decisions,    \* the ids decisions are recorded under
  Contents,     \* what a decision may say
  Absent,       \* no decision under an id
  Unreplaced    \* the empty SupersededBy

ASSUME UnreplacedIsNoDecision == Unreplaced \notin Decisions

Status == {"active", "superseded"}

Decision == [content : Contents, status : Status,
             supersededBy : Decisions \cup {Unreplaced}]

ASSUME AbsentIsNoDecision == Absent \notin Decision

--------------------------------------------------------------------------------

(* A rule that lets a superseded decision be touched up like an active one.*)
ValidateDecisionUpdateLenient(previous, next) ==
  /\ next.content = previous.content
  /\ next.status # previous.status => next.supersededBy # Unreplaced

(* A rule that compares the contents only while the status stays.          *)
ValidateDecisionUpdateContentFree(previous, next) ==
  IF previous.status = "superseded"
  THEN next = previous
  ELSE IF next.status = previous.status
       THEN next.content = previous.content
       ELSE next.supersededBy # Unreplaced

ValidateDecisionUpdate(previous, next) ==
  IF previous.status = "superseded"
  THEN next = previous
  ELSE /\ next.content = previous.content
       /\ next.status # previous.status => next.supersededBy # Unreplaced

================================================================================
