-------------------------- MODULE DecisionRegister --------------------------
(***************************************************************************)
(* What the approval of a plan promises: a task pod is decided on after it *)
(* is on record, and the task that asks is told its decision.  Of several  *)
(* decisions that are made at the same time a later one may replace an     *)
(* earlier one, as long as the pod is contested.  Once it is not, it never *)
(* is again, and the decision is final.  Approvals implements this.        *)
(***************************************************************************)
CONSTANT Pods   \* uids of task pods

VARIABLES
  recorded,  \* the pods on record
  decision,  \* pod -> what was decided
  contested, \* decided pods of which another decision is under way
  told       \* pod -> what its task was last told

vars == <<recorded, decision, contested, told>>

Decisions == {"approved", "denied"}
Undecided == [p \in Pods |-> "nodata"]

Init == recorded = {} /\ decision = Undecided /\ contested = {} /\ told = Undecided

Record(p) ==
  /\ p \notin recorded
  /\ recorded' = recorded \cup {p}
  /\ UNCHANGED <<decision, contested, told>>

Decide(p, d) ==
  /\ p \in recorded
  /\ decision[p] = "nodata"
  /\ decision' = [decision EXCEPT ![p] = d]
  /\ contested' \in {contested, contested \cup {p}}
  /\ UNCHANGED <<recorded, told>>

Replace(p, d) ==
  /\ p \in contested
  /\ decision' = [decision EXCEPT ![p] = d]
  /\ contested' \in {contested, contested \ {p}}
  /\ UNCHANGED <<recorded, told>>

Settle(p) ==
  /\ p \in contested
  /\ contested' = contested \ {p}
  /\ UNCHANGED <<recorded, decision, told>>

Tell(p) ==
  /\ p \in recorded
  /\ told' = [told EXCEPT ![p] = decision[p]]
  /\ UNCHANGED <<recorded, decision, contested>>

Next ==
  \E p \in Pods :
    \/ Record(p) \/ Settle(p) \/ Tell(p)
    \/ \E d \in Decisions : Decide(p, d) \/ Replace(p, d)

Spec == Init /\ [][Next]_vars
=============================================================================
