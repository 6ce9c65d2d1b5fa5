---------------------------- MODULE DecisionRecord -----------------------------
(***************************************************************************)
(* The architecture decision records of a project, each replaced only by   *)
(* versions ValidateDecisionUpdate lets through.  The caller may ask for   *)
(* any next version: the rule is the only guard.                           *)
(***************************************************************************)
EXTENDS DecisionRules

VARIABLE decisions

DecisionsTypeOK == decisions \in [Decisions -> Decision \cup {Absent}]

DecisionsInit == decisions = [d \in Decisions |-> Absent]

--------------------------------------------------------------------------------

(* A decision is born in force. *)
RecordDecision(d, c) ==
  /\ decisions[d] = Absent
  /\ decisions' = [decisions EXCEPT ![d] =
       [content |-> c, status |-> "active", supersededBy |-> Unreplaced]]

UpdateDecision(d, next) ==
  /\ decisions[d] # Absent
  /\ ValidateDecisionUpdate(decisions[d], next)
  /\ decisions' = [decisions EXCEPT ![d] = next]

DecisionsNext ==
  \/ \E d \in Decisions, c \in Contents : RecordDecision(d, c)
  \/ \E d \in Decisions, next \in Decision : UpdateDecision(d, next)

DecisionsSpec == DecisionsInit /\ [][DecisionsNext]_decisions

--------------------------------------------------------------------------------
(* Properties *)

(* However many versions a decision has been through, what it says is what *)
(* it said when it was recorded (decision.go 25-28).                       *)
ContentKept ==
  \A d \in Decisions : decisions[d] # Absent =>
    decisions'[d] # Absent /\ decisions'[d].content = decisions[d].content

ContentImmutable == [][ContentKept]_decisions

(* Superseding names the replacement (decision.go 27-28), and is one-way   *)
(* and final: neither the status nor the name of the replacement changes   *)
(* any more (decision.go 46-54).                                           *)
Final ==
  \A d \in Decisions :
    decisions[d] # Absent /\ decisions[d].status = "superseded" =>
      decisions[d].supersededBy # Unreplaced /\ decisions'[d] = decisions[d]

SupersededForGood == [][Final]_decisions

================================================================================
