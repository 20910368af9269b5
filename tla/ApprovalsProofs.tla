--------------------------- MODULE ApprovalsProofs ---------------------------
(***************************************************************************)
(* Proofs about Approvals for any number of pods, task types, handlers and *)
(* decisions, with and without faults.                                     *)
(*                                                                         *)
(* The rows of a pod are read by their lowest id.  IInv says what a        *)
(* request between its INSERT and its COMMIT has drawn: an id of its own,  *)
(* whose row nobody reads yet.  The row of a request that commits is then  *)
(* either above the first one, and changes nothing, or makes it a rival of *)
(* that row, which is what Contested allows.                               *)
(***************************************************************************)
EXTENDS Approvals, NatFacts, TLAPS

\* i is the row that First returns for pod p.
FirstRow(p, i) == i \in Rows(p) /\ \A j \in Rows(p) : i <= j

\* A request that is about to store a decision has one.
HasDecision(h) == pc[h] = "create" => ctx[h].decision \in Decisions

\* A request that is about to commit has inserted its row, of a pod on record.
HasInserted(h) ==
  pc[h] = "commit" =>
    /\ ctx[h].id \in DOMAIN approvals \ committed
    /\ ctx[h].pod \in Uuids(taskPods)
    /\ approvals[ctx[h].id] = [pod |-> ctx[h].pod, decision |-> ctx[h].decision]

IdsDiffer ==
  \A g, h \in Handlers : pc[g] = "commit" /\ pc[h] = "commit" /\ g # h => ctx[g].id # ctx[h].id

IInv ==
  /\ TypeOK
  /\ \A h \in Handlers : HasDecision(h) /\ HasInserted(h)
  /\ IdsDiffer
  /\ \A p \in acked : Rows(p) # {}

-----------------------------------------------------------------------------
LEMMA UuidsArePods == TypeOK => Uuids(taskPods) \subseteq Pods
BY DEF TypeOK, Uuids, TaskPod

LEMMA LeastIsUnique ==
  ASSUME NEW S \in SUBSET Nat, NEW i \in S, \A j \in S : i <= j
  PROVE  (CHOOSE x \in S : \A j \in S : x <= j) = i
<1> DEFINE f == CHOOSE x \in S : \A j \in S : x <= j
<1>1. f \in S /\ \A j \in S : f <= j
  OBVIOUS
<1> HIDE DEF f
<1>2. f = i
  <2>1. f <= i /\ i <= f /\ f \in Nat /\ i \in Nat
    BY <1>1
  <2>2. QED
    BY <2>1
<1>3. QED
  BY <1>2 DEF f

\* The decision of a pod is that of its first row.
LEMMA DecisionIsFirst ==
  ASSUME NEW p \in Pods, NEW i, TypeOK, FirstRow(p, i)
  PROVE  Decision(p) = approvals[i].decision
<1>1. Rows(p) \in SUBSET Nat
  BY DEF TypeOK, Rows
<1>2. i \in Rows(p) /\ \A j \in Rows(p) : i <= j
  BY DEF FirstRow
<1>3. (CHOOSE x \in Rows(p) : \A j \in Rows(p) : x <= j) = i
  BY <1>1, <1>2, LeastIsUnique
<1>4. QED
  BY <1>2, <1>3 DEF Decision

LEMMA DecisionIsFirstNext ==
  ASSUME NEW p \in Pods, NEW i, TypeOK', FirstRow(p, i)'
  PROVE  Decision(p)' = approvals'[i].decision
<1>1. Rows(p)' \in SUBSET Nat
  BY DEF TypeOK, Rows
<1>2. i \in Rows(p)' /\ \A j \in Rows(p)' : i <= j
  BY DEF FirstRow
<1>3. (CHOOSE x \in Rows(p)' : \A j \in Rows(p)' : x <= j) = i
  BY <1>1, <1>2, LeastIsUnique
<1>4. QED
  BY <1>2, <1>3 DEF Decision

LEMMA DecisionTyped ==
  ASSUME TypeOK, NEW i \in DOMAIN approvals
  PROVE  approvals[i].decision \in Decisions
<1>1. approvals[i] \in Approval
  BY DEF TypeOK
<1>2. QED
  BY <1>1 DEF Approval

LEMMA NoRowsNoDecision ==
  ASSUME NEW p, Rows(p) = {}
  PROVE  Decision(p) = "nodata"
BY DEF Decision

LEMMA RowsAreNumbers ==
  ASSUME TypeOK, NEW p
  PROVE  Rows(p) \in SUBSET Nat /\ Rows(p) \subseteq DOMAIN approvals
BY DEF TypeOK, Rows

LEMMA FirstExists ==
  ASSUME TypeOK, NEW p \in Pods, Rows(p) # {}
  PROVE  \E i \in DOMAIN approvals : FirstRow(p, i)
<1>1. \E i \in Rows(p) : \A j \in Rows(p) : i <= j
  BY RowsAreNumbers, SmallestNat
<1>2. QED
  BY <1>1, RowsAreNumbers DEF FirstRow

\* A pod whose rows stay keeps its decision.
LEMMA SameRows ==
  ASSUME TypeOK, NEW p \in Pods, Rows(p)' = Rows(p),
         \A i \in Rows(p) : approvals'[i] = approvals[i]
  PROVE  Decision(p)' = Decision(p)
<1>1. CASE Rows(p) = {}
  BY <1>1 DEF Decision
<1>2. CASE Rows(p) # {}
  <2>1. PICK i \in DOMAIN approvals : FirstRow(p, i)
    BY <1>2, FirstExists
  <2>2. i \in Rows(p) /\ \A j \in Rows(p) : i <= j
    BY <2>1 DEF FirstRow
  <2>3. (CHOOSE x \in Rows(p)' : \A j \in Rows(p)' : x <= j) = i
    BY <2>2, LeastIsUnique, RowsAreNumbers
  <2>4. Decision(p)' = approvals'[i].decision
    BY <1>2, <2>3 DEF Decision
  <2>5. QED
    BY <2>1, <2>2, <2>4, DecisionIsFirst
<1>3. QED
  BY <1>1, <1>2

LEMMA DecisionIsTyped ==
  ASSUME TypeOK, NEW p \in Pods
  PROVE  /\ Decision(p) \in Decisions \cup {"nodata"}
         /\ Rows(p) # {} => Decision(p) # "nodata"
<1>1. CASE Rows(p) = {}
  BY <1>1, NoRowsNoDecision
<1>2. CASE Rows(p) # {}
  <2>1. PICK i \in DOMAIN approvals : FirstRow(p, i)
    BY <1>2, FirstExists
  <2>2. Decision(p) \in Decisions
    BY <2>1, DecisionIsFirst, DecisionTyped
  <2>3. QED
    BY <2>2 DEF Decisions
<1>3. QED
  BY <1>1, <1>2

-----------------------------------------------------------------------------
(***************************************************************************)
(* Every step keeps IInv, and is a step of the register or changes nothing *)
(* of it.                                                                  *)
(***************************************************************************)
decisionOf == [p \in Pods |-> Decision(p)]

\* A step of Register in the terms of Approvals.
RegisterStep ==
  \/ Register!Next
  \/ UNCHANGED <<Uuids(taskPods), decisionOf, Contested, told>>

LEMMA InitOK == Init => IInv /\ Register!Init
<1> SUFFICES ASSUME Init PROVE IInv /\ Register!Init
  OBVIOUS
<1>1. \A p : Rows(p) = {}
  BY DEF Init, Rows
<1>2. TypeOK
  BY DEF Init, TypeOK, IdleCtx, Ctx, Labels
<1>3. IInv
  BY <1>1, <1>2 DEF Init, IInv, HasDecision, HasInserted, IdsDiffer
<1>4. Contested = {}
  BY <1>1 DEF Contested
<1>5. Register!Init
  BY <1>1, <1>4 DEF Init, Register!Init, Register!Undecided, Decision, Uuids
<1>6. QED
  BY <1>3, <1>5

\* Steps of requests that have nothing inserted, and of the workflow.
LEMMA RowsStay ==
  ASSUME IInv, TypeOK', UNCHANGED <<approvals, committed>>,
         \A h \in Handlers : HasDecision(h)',
         \A h \in Handlers : /\ pc[h] = "commit" <=> pc'[h] = "commit"
                             /\ pc[h] = "commit" => ctx'[h] = ctx[h],
         Uuids(taskPods) \subseteq Uuids(taskPods)',
         \A p \in acked' \ acked : Rows(p) # {}
  PROVE  IInv' /\ UNCHANGED <<decisionOf, Contested>>
<1>1. \A p : Rows(p)' = Rows(p) /\ Decision(p)' = Decision(p)
  BY DEF Rows, Decision
<1>2. \A h \in Handlers : HasInserted(h)'
  BY DEF IInv, HasInserted
<1>3. IdsDiffer'
  BY DEF IInv, IdsDiffer
<1>4. \A h \in Handlers, p \in Pods : Rival(h, p)' <=> Rival(h, p)
  BY <1>1 DEF Rival
<1>5. UNCHANGED <<decisionOf, Contested>>
  BY <1>1, <1>4 DEF decisionOf, Contested
<1>6. QED
  BY <1>1, <1>2, <1>3, <1>5 DEF IInv

LEMMA AddTaskPodOK ==
  ASSUME IInv, NEW p \in Pods, NEW k \in 1 .. Types, NEW r \in Runs, AddTaskPod(p, k, r)
  PROVE  IInv' /\ RegisterStep
<1>1. UNCHANGED <<approvals, committed, told, acked, pc, ctx>>
  BY DEF AddTaskPod
<1>2. TypeOK'
  BY <1>1, BoundsAssumption DEF AddTaskPod, IInv, TypeOK, TaskPod, Runs
<1>3. p \notin Uuids(taskPods) /\ Uuids(taskPods)' = Uuids(taskPods) \cup {p}
  <2> DEFINE t == [uuid |-> p, type |-> k, rerun |-> r.rerun, in_cluster |-> r.in_cluster]
  <2>1. t.uuid = p /\ p \notin Uuids(taskPods) /\ taskPods' = taskPods \cup {t}
    BY DEF AddTaskPod
  <2> HIDE DEF t
  <2>2. Uuids(taskPods \cup {t}) = Uuids(taskPods) \cup {p}
    BY <2>1 DEF Uuids
  <2>3. QED
    BY <2>1, <2>2 DEF Uuids
<1>4. IInv' /\ UNCHANGED <<decisionOf, Contested>>
  <2>1. \A h \in Handlers : HasDecision(h)'
    BY <1>1 DEF IInv, HasDecision
  <2>2. QED
    BY <1>1, <1>2, <1>3, <2>1, RowsStay
<1>5. Register!Record(p)
  BY <1>1, <1>3, <1>4 DEF Register!Record, decisionOf
<1>6. QED
  BY <1>4, <1>5 DEF RegisterStep, Register!Next

LEMMA PollOK ==
  ASSUME IInv, NEW p \in Pods, Poll(p)
  PROVE  IInv' /\ RegisterStep
<1>1. UNCHANGED <<taskPods, approvals, committed, acked, pc, ctx>>
  BY DEF Poll
<1>2. Decision(p) \in Decisions \cup {"nodata"}
  BY DecisionIsTyped DEF IInv
<1>3. TypeOK'
  BY <1>1, <1>2 DEF Poll, IInv, TypeOK
<1>4. p \in Uuids(taskPods) /\ UNCHANGED Uuids(taskPods)
  BY <1>1 DEF Poll, Uuids, OfType
<1>5. IInv' /\ UNCHANGED <<decisionOf, Contested>>
  <2>1. \A h \in Handlers : HasDecision(h)'
    BY <1>1 DEF IInv, HasDecision
  <2>2. QED
    BY <1>1, <1>3, <1>4, <2>1, RowsStay
<1>6. Register!Tell(p)
  BY <1>4, <1>5 DEF Poll, Register!Tell, decisionOf
<1>7. QED
  BY <1>5, <1>6 DEF RegisterStep, Register!Next

\* A request that has only read, or that ends without a row.
LEMMA RequestStays ==
  ASSUME IInv, UNCHANGED <<taskPods, approvals, committed, told>>, TypeOK',
         \A h \in Handlers : HasDecision(h)',
         \A h \in Handlers : /\ pc[h] = "commit" <=> pc'[h] = "commit"
                             /\ pc[h] = "commit" => ctx'[h] = ctx[h],
         \A p \in acked' \ acked : Rows(p) # {}
  PROVE  IInv' /\ RegisterStep
<1>1. UNCHANGED Uuids(taskPods)
  BY DEF Uuids
<1>2. IInv' /\ UNCHANGED <<decisionOf, Contested>>
  BY <1>1, RowsStay
<1>3. QED
  BY <1>1, <1>2 DEF RegisterStep

LEMMA UpdateApprovalOK ==
  ASSUME IInv, NEW h \in Handlers, NEW p \in Pods, NEW d \in Decisions, UpdateApproval(h, p, d)
  PROVE  IInv' /\ RegisterStep
<1>1. UNCHANGED <<taskPods, approvals, committed, told>>
  BY DEF UpdateApproval
<1>2. TypeOK'
  <2>1. acked' \subseteq Pods /\ pc' \in [Handlers -> Labels]
    BY DEF UpdateApproval, Goto, IInv, TypeOK, Labels
  <2>2. [pod |-> p, decision |-> d, id |-> 0] \in Ctx
    BY DEF Ctx
  <2>3. ctx' \in [Handlers -> Ctx]
    BY <2>2 DEF UpdateApproval, IInv, TypeOK
  <2>4. QED
    BY <1>1, <2>1, <2>3 DEF IInv, TypeOK
<1>3. \A i \in Handlers : HasDecision(i)'
  BY DEF UpdateApproval, Goto, IInv, TypeOK, HasDecision
<1>4. \A q \in acked' \ acked : Rows(q) # {}
  BY DEF UpdateApproval
<1>5. \A i \in Handlers : /\ pc[i] = "commit" <=> pc'[i] = "commit"
                          /\ pc[i] = "commit" => ctx'[i] = ctx[i]
  BY DEF UpdateApproval, Goto, IInv, TypeOK
<1>6. QED
  BY <1>1, <1>2, <1>3, <1>4, <1>5, RequestStays

LEMMA SetApprovalOK ==
  ASSUME IInv, NEW h \in Handlers, NEW d \in Decisions, SetApproval(h, d)
  PROVE  IInv' /\ RegisterStep
<1>1. UNCHANGED <<taskPods, approvals, committed, told, acked>>
  BY DEF SetApproval
<1>2. PICK p \in Pods \cup {Null} :
        ctx' = [ctx EXCEPT ![h] = [pod |-> p, decision |-> d, id |-> 0]]
  <2>1. Uuids(Required) \subseteq Pods
    BY DEF Uuids, Required, OfType, IInv, TypeOK, TaskPod
  <2>2. QED
    BY <2>1 DEF SetApproval
<1>3. TypeOK'
  <2>1. [pod |-> p, decision |-> d, id |-> 0] \in Ctx
    BY DEF Ctx
  <2>2. ctx' \in [Handlers -> Ctx] /\ pc' \in [Handlers -> Labels]
    BY <1>2, <2>1 DEF SetApproval, Goto, IInv, TypeOK, Labels
  <2>3. QED
    BY <1>1, <2>2 DEF IInv, TypeOK
<1>4. \A i \in Handlers : HasDecision(i)'
  BY <1>2 DEF SetApproval, Goto, IInv, TypeOK, HasDecision
<1>5. \A i \in Handlers : /\ pc[i] = "commit" <=> pc'[i] = "commit"
                          /\ pc[i] = "commit" => ctx'[i] = ctx[i]
  BY <1>2 DEF SetApproval, Goto, IInv, TypeOK
<1>6. QED
  BY <1>1, <1>3, <1>4, <1>5, RequestStays

\* What the end of a request leaves of the others.
LEMMA IdleAgain ==
  ASSUME IInv, NEW h \in Handlers, NEW l, Return(h, l)
  PROVE  /\ pc' \in [Handlers -> Labels] /\ ctx' \in [Handlers -> Ctx]
         /\ pc[h] = l /\ pc'[h] = "idle"
         /\ \A i \in Handlers : i # h => pc'[i] = pc[i] /\ ctx'[i] = ctx[i]
         /\ \A i \in Handlers : HasDecision(i)'
<1>1. IdleCtx \in Ctx
  BY DEF IdleCtx, Ctx
<1>2. QED
  BY <1>1 DEF Return, Goto, IInv, TypeOK, Labels, HasDecision

\* The requests that are left have what they had.
LEMMA OthersInserted ==
  ASSUME IInv, NEW h \in Handlers, NEW l, Return(h, l), UNCHANGED <<taskPods, approvals>>,
         committed' \subseteq committed \cup {ctx[h].id}, pc[h] = "commit"
  PROVE  IdsDiffer' /\ \A i \in Handlers : HasInserted(i)'
<1>1. /\ pc'[h] = "idle"
      /\ \A i \in Handlers : i # h => pc'[i] = pc[i] /\ ctx'[i] = ctx[i]
  BY IdleAgain
<1>2. IdsDiffer'
  BY <1>1 DEF IInv, IdsDiffer
<1>3. ASSUME NEW i \in Handlers PROVE HasInserted(i)'
  <2>1. SUFFICES ASSUME pc'[i] = "commit" PROVE HasInserted(i)'
    BY DEF HasInserted
  <2>2. i # h /\ pc[i] = "commit" /\ ctx'[i] = ctx[i]
    BY <1>1, <2>1
  <2>3. ctx[i].id # ctx[h].id
    BY <2>2 DEF IInv, IdsDiffer
  <2>4. HasInserted(i) /\ UNCHANGED Uuids(taskPods)
    BY DEF IInv, Uuids
  <2>5. QED
    BY <2>2, <2>3, <2>4 DEF HasInserted
<1>4. QED
  BY <1>2, <1>3

\* A row that is rolled back may have been a rival.
LEMMA FailOK ==
  ASSUME IInv, NEW h \in Handlers, Fail(h)
  PROVE  IInv' /\ RegisterStep
<1>1. UNCHANGED <<taskPods, approvals, committed, told, acked>> /\ Return(h, pc[h])
  BY DEF Fail
<1>2. TypeOK' /\ \A i \in Handlers : HasDecision(i)'
  BY <1>1, IdleAgain DEF IInv, TypeOK
<1>3. CASE pc[h] # "commit"
  BY <1>1, <1>2, <1>3, IdleAgain, RequestStays
<1>4. CASE pc[h] = "commit"
  <2>1. \A p : Rows(p)' = Rows(p) /\ Decision(p)' = Decision(p)
    BY <1>1 DEF Rows, Decision
  <2>2. IInv'
    BY <1>1, <1>2, <1>4, <2>1, OthersInserted DEF IInv
  <2>3. UNCHANGED Uuids(taskPods) /\ UNCHANGED decisionOf
    BY <1>1, <2>1 DEF Uuids, decisionOf
  <2> PICK p \in Pods : p = ctx[h].pod
    BY <1>4, UuidsArePods DEF IInv, HasInserted
  <2>4. \A i \in Handlers, q \in Pods :
          Rival(i, q)' <=> Rival(i, q) /\ i # h
    BY <1>1, <2>1, IdleAgain DEF Rival
  <2>5. \A q \in Pods : Rival(h, q) => q = p
    BY DEF Rival
  <2>6. \/ UNCHANGED Contested
        \/ p \in Contested /\ Contested' = Contested \ {p}
    BY <2>1, <2>4, <2>5 DEF Contested
  <2>7. CASE UNCHANGED Contested
    BY <1>1, <2>2, <2>3, <2>7 DEF RegisterStep
  <2>8. CASE p \in Contested /\ Contested' = Contested \ {p}
    <3>1. Register!Settle(p)
      BY <1>1, <2>3, <2>8 DEF Register!Settle, decisionOf
    <3>2. QED
      BY <2>2, <3>1 DEF RegisterStep, Register!Next
  <2>9. QED
    BY <2>6, <2>7, <2>8
<1>5. QED
  BY <1>3, <1>4

\* A new id is above those that can be read: the row is nobody's rival.
LEMMA InsertOK ==
  ASSUME IInv, NEW h \in Handlers, Insert(h), ctx[h].pod \in Uuids(taskPods),
         UNCHANGED <<taskPods, committed, told, acked>>
  PROVE  IInv' /\ RegisterStep
<1> PICK p \in Pods : p = ctx[h].pod
  BY UuidsArePods DEF IInv
<1> PICK d \in Decisions : d = ctx[h].decision
  BY DEF IInv, HasDecision, Insert, Goto
<1> PICK a \in Approval : a = [pod |-> p, decision |-> d]
  BY DEF Approval
<1> PICK n \in Nat : n = Len(approvals)
  BY DEF IInv, TypeOK
<1>1. /\ DOMAIN approvals = 1 .. n /\ DOMAIN approvals' = 1 .. (n + 1)
      /\ approvals' \in Seq(Approval)
      /\ \A i \in 1 .. n : approvals'[i] = approvals[i]
      /\ approvals'[n + 1] = a
  BY DEF Insert, IInv, TypeOK
<1>2. committed \subseteq 1 .. n
  BY <1>1 DEF IInv, TypeOK
<1>3. /\ pc[h] = "create" /\ pc'[h] = "commit"
      /\ ctx'[h].pod = p /\ ctx'[h].decision = d /\ ctx'[h].id = n + 1
      /\ \A i \in Handlers : i # h => pc'[i] = pc[i] /\ ctx'[i] = ctx[i]
      /\ pc' \in [Handlers -> Labels] /\ ctx' \in [Handlers -> Ctx]
  BY DEF Insert, Goto, IInv, TypeOK, Labels, Ctx
<1>4. TypeOK'
  BY <1>1, <1>2, <1>3 DEF IInv, TypeOK
<1>5. \A q \in Pods : Rows(q)' = Rows(q) /\ Decision(q)' = Decision(q)
  <2>1. \A i \in committed : approvals'[i] = approvals[i]
    BY <1>1, <1>2
  <2>2. \A q : Rows(q)' = Rows(q) /\ Rows(q) \subseteq committed
    BY <2>1 DEF Rows
  <2>3. QED
    BY <2>1, <2>2, SameRows DEF IInv
<1>6. UNCHANGED Uuids(taskPods)
  BY DEF Uuids
<1>7. \A i \in Handlers : i # h /\ pc[i] = "commit" => ctx[i].id \in 1 .. n
  BY <1>1 DEF IInv, HasInserted
<1>8. \A i \in Handlers : HasInserted(i)'
  <2>1. HasInserted(h)'
    BY <1>1, <1>2, <1>3, <1>6 DEF HasInserted
  <2>2. ASSUME NEW i \in Handlers, i # h PROVE HasInserted(i)'
    <3>1. HasInserted(i) /\ pc'[i] = pc[i] /\ ctx'[i] = ctx[i]
      BY <1>3, <2>2 DEF IInv
    <3>2. QED
      BY <1>1, <1>6, <3>1 DEF HasInserted
  <2>3. QED
    BY <2>1, <2>2
<1>9. \A i \in Handlers : HasDecision(i)'
  BY <1>3 DEF IInv, HasDecision
<1>10. IdsDiffer'
  BY <1>3, <1>7 DEF IInv, IdsDiffer
<1>11. IInv'
  <2>1. \A q \in acked' : Rows(q)' # {}
    BY <1>5 DEF IInv, TypeOK
  <2>2. QED
    BY <1>4, <1>8, <1>9, <1>10, <2>1 DEF IInv
<1>12. ASSUME NEW q \in Pods, Rows(q) # {}, NEW i \in Handlers
       PROVE  Rival(i, q)' <=> Rival(i, q)
  <2>1. CASE i = h
    <3>1. PICK j \in Rows(q) : j \in 1 .. n
      BY <1>2, <1>12 DEF Rows
    <3>2. ~(n + 1 < j)
      BY <3>1
    <3>3. QED
      BY <1>3, <1>5, <2>1, <3>1, <3>2 DEF Rival
  <2>2. CASE i # h
    BY <1>3, <1>5, <2>2 DEF Rival
  <2>3. QED
    BY <2>1, <2>2
<1>13. UNCHANGED Contested
  BY <1>5, <1>12 DEF Contested
<1>14. UNCHANGED decisionOf
  BY <1>5 DEF decisionOf
<1>15. QED
  BY <1>6, <1>11, <1>13, <1>14 DEF RegisterStep

LEMMA CreateOK ==
  ASSUME IInv, NEW h \in Handlers, Create(h)
  PROVE  IInv' /\ RegisterStep
<1>1. UNCHANGED <<taskPods, committed, told, acked>>
  BY DEF Create
<1>2. ASSUME Return(h, "create"), UNCHANGED approvals
      PROVE  IInv' /\ RegisterStep
  <2>1. TypeOK' /\ \A i \in Handlers : HasDecision(i)'
    BY <1>1, <1>2, IdleAgain DEF IInv, TypeOK
  <2>2. QED
    BY <1>1, <1>2, <2>1, IdleAgain, RequestStays
<1>3. QED
  BY <1>1, <1>2, InsertOK DEF Create

-----------------------------------------------------------------------------
(***************************************************************************)
(* A COMMIT decides a pod that has no decision, replaces the decision of a *)
(* contested one, or is not read.                                          *)
(***************************************************************************)

\* What h's COMMIT makes of the rows.
LEMMA CommitRows ==
  ASSUME IInv, NEW h \in Handlers, Commit(h), NEW p \in Pods, p = ctx[h].pod
  PROVE  /\ ctx[h].id \in Nat /\ approvals[ctx[h].id].decision = ctx[h].decision
         /\ Rows(p)' = Rows(p) \cup {ctx[h].id}
         /\ \A q \in Pods \ {p} : Rows(q)' = Rows(q) /\ Decision(q)' = Decision(q)
         /\ UNCHANGED approvals
<1>1. /\ pc[h] = "commit" /\ committed' = committed \cup {ctx[h].id} /\ UNCHANGED approvals
  BY IdleAgain DEF Commit
<1>2. /\ ctx[h].id \in DOMAIN approvals
      /\ approvals[ctx[h].id] = [pod |-> p, decision |-> ctx[h].decision]
  BY <1>1 DEF IInv, HasInserted
<1>3. ctx[h].id \in Nat
  BY <1>2 DEF IInv, TypeOK
<1>4. Rows(p)' = Rows(p) \cup {ctx[h].id}
  BY <1>1, <1>2 DEF Rows
<1>5. \A q \in Pods \ {p} : Rows(q)' = Rows(q)
  BY <1>1, <1>2 DEF Rows
<1>6. \A q \in Pods \ {p} : Decision(q)' = Decision(q)
  BY <1>1, <1>5, SameRows DEF IInv
<1>7. QED
  BY <1>1, <1>2, <1>3, <1>4, <1>5, <1>6

LEMMA CommitKeeps ==
  ASSUME IInv, NEW h \in Handlers, Commit(h)
  PROVE  IInv'
<1>1. Return(h, "commit") /\ pc[h] = "commit" /\ UNCHANGED <<taskPods, approvals, told>>
  BY IdleAgain DEF Commit
<1> PICK p \in Pods : p = ctx[h].pod
  BY <1>1, UuidsArePods DEF IInv, HasInserted
<1>2. committed' = committed \cup {ctx[h].id} /\ acked' = acked \cup {p}
  BY DEF Commit
<1>3. ctx[h].id \in DOMAIN approvals
  BY <1>1 DEF IInv, HasInserted
<1>4. TypeOK' /\ \A i \in Handlers : HasDecision(i)'
  BY <1>1, <1>2, <1>3, IdleAgain DEF IInv, TypeOK
<1>5. IdsDiffer' /\ \A i \in Handlers : HasInserted(i)'
  BY <1>1, <1>2, OthersInserted
<1>6. \A q \in acked' : Rows(q)' # {}
  <2>1. \A q \in Pods : Rows(q) # {} \/ q = p => Rows(q)' # {}
    BY CommitRows
  <2>2. QED
    BY <1>2, <2>1 DEF IInv, TypeOK
<1>7. QED
  BY <1>4, <1>5, <1>6 DEF IInv

\* The pods that are contested stay so, but for the one that is decided on.
LEMMA CommitContests ==
  ASSUME IInv, NEW h \in Handlers, Commit(h), NEW p \in Pods, p = ctx[h].pod
  PROVE  /\ Contested' \ {p} = Contested \ {p}
         /\ (\E j \in Rows(p) : j <= ctx[h].id) => Contested' = Contested
<1>1. /\ pc[h] = "commit" /\ pc'[h] = "idle"
      /\ \A i \in Handlers : i # h => pc'[i] = pc[i] /\ ctx'[i] = ctx[i]
  BY IdleAgain DEF Commit
<1>2. /\ ctx[h].id \in Nat /\ Rows(p)' = Rows(p) \cup {ctx[h].id}
      /\ \A q \in Pods \ {p} : Rows(q)' = Rows(q)
  BY CommitRows
<1>3. \A i \in Handlers, q \in Pods \ {p} : Rival(i, q)' <=> Rival(i, q)
  BY <1>1, <1>2 DEF Rival
<1>4. Contested' \ {p} = Contested \ {p}
  BY <1>2, <1>3 DEF Contested
<1>5. ASSUME NEW j \in Rows(p), j <= ctx[h].id PROVE p \in Contested' <=> p \in Contested
  <2>1. j \in Nat
    BY RowsAreNumbers DEF IInv
  <2>2. ASSUME NEW i \in Handlers PROVE Rival(i, p)' <=> Rival(i, p)
    <3>1. CASE i = h
      BY <1>1, <1>2, <1>5, <2>1, <3>1 DEF Rival
    <3>2. CASE i # h
      <4>1. ctx[i].id \in Nat
        BY DEF IInv, TypeOK, Ctx
      <4>2. ctx[i].id < j => ctx[i].id < ctx[h].id
        BY <1>2, <1>5, <2>1, <4>1
      <4>3. QED
        BY <1>1, <1>2, <1>5, <3>2, <4>2 DEF Rival
    <3>3. QED
      BY <3>1, <3>2
  <2>3. QED
    BY <1>2, <1>5, <2>2 DEF Contested
<1>6. QED
  BY <1>4, <1>5

\* The row is the first one of its pod.
LEMMA FirstCommit ==
  ASSUME IInv, NEW h \in Handlers, Commit(h), NEW p \in Pods, p = ctx[h].pod,
         \A j \in Rows(p) : ctx[h].id < j
  PROVE  Decision(p)' = ctx[h].decision
<1> PICK n \in Nat : n = ctx[h].id
  BY CommitRows
<1>1. Rows(p)' = Rows(p) \cup {n} /\ UNCHANGED approvals /\ approvals[n].decision = ctx[h].decision
  BY CommitRows
<1>2. FirstRow(p, n)'
  <2>1. \A j \in Rows(p)' : n <= j
    BY <1>1, RowsAreNumbers DEF IInv
  <2>2. QED
    BY <1>1, <2>1 DEF FirstRow
<1>3. TypeOK'
  BY CommitKeeps DEF IInv
<1>4. QED
  BY <1>1, <1>2, <1>3, DecisionIsFirstNext

LEMMA LaterCommit ==
  ASSUME IInv, NEW h \in Handlers, Commit(h), NEW p \in Pods, p = ctx[h].pod,
         NEW k \in Rows(p), k <= ctx[h].id
  PROVE  Decision(p)' = Decision(p)
<1> PICK n \in Nat : n = ctx[h].id
  BY CommitRows
<1>1. PICK i \in DOMAIN approvals : FirstRow(p, i)
  BY FirstExists DEF IInv
<1>2. i \in Nat /\ i \in Rows(p) /\ \A j \in Rows(p) : i <= j /\ j \in Nat
  BY <1>1, RowsAreNumbers DEF IInv, FirstRow
<1>3. Rows(p)' = Rows(p) \cup {n} /\ UNCHANGED approvals
  BY CommitRows
<1>4. i <= n
  BY <1>2
<1>5. FirstRow(p, i)'
  BY <1>2, <1>3, <1>4 DEF FirstRow
<1>6. TypeOK'
  BY CommitKeeps DEF IInv
<1>7. Decision(p) = approvals[i].decision /\ Decision(p)' = approvals'[i].decision
  BY <1>1, <1>5, <1>6, DecisionIsFirst, DecisionIsFirstNext DEF IInv
<1>8. QED
  BY <1>3, <1>7

LEMMA CommitOK ==
  ASSUME IInv, NEW h \in Handlers, Commit(h)
  PROVE  IInv' /\ RegisterStep
<1>1. pc[h] = "commit" /\ UNCHANGED <<taskPods, approvals, told>>
  BY IdleAgain DEF Commit
<1> PICK p \in Pods : p = ctx[h].pod
  BY <1>1, UuidsArePods DEF IInv, HasInserted
<1> PICK n \in Nat : n = ctx[h].id
  BY CommitRows
<1> DEFINE d == ctx[h].decision
<1>2. p \in Uuids(taskPods) /\ UNCHANGED Uuids(taskPods)
  BY <1>1 DEF IInv, HasInserted, Uuids
<1>3. d \in Register!Decisions
  <2>1. approvals[n].decision = d /\ n \in DOMAIN approvals
    BY <1>1, CommitRows DEF IInv, HasInserted
  <2>2. d \in Decisions
    BY <2>1, DecisionTyped DEF IInv
  <2>3. QED
    BY <2>2 DEF Decisions, Register!Decisions
<1>4. \A q \in Pods \ {p} : Decision(q)' = Decision(q)
  BY CommitRows
<1>5. CASE \E j \in Rows(p) : j <= n
  <2>1. UNCHANGED Contested /\ Decision(p)' = Decision(p)
    BY <1>5, CommitContests, LaterCommit
  <2>2. UNCHANGED decisionOf
    BY <1>4, <2>1 DEF decisionOf
  <2>3. QED
    BY <1>1, <1>2, <2>1, <2>2, CommitKeeps DEF RegisterStep
<1>6. CASE ~ \E j \in Rows(p) : j <= n
  <2>1. \A j \in Rows(p) : n < j
    BY <1>6, RowsAreNumbers DEF IInv
  <2>2. decisionOf' = [decisionOf EXCEPT ![p] = d]
    BY <1>4, <2>1, FirstCommit DEF decisionOf
  <2>3. Contested' \ {p} = Contested \ {p}
    BY CommitContests
  <2>4. CASE Rows(p) = {}
    <3>1. p \notin Contested /\ decisionOf[p] = "nodata"
      BY <2>4, NoRowsNoDecision DEF Contested, decisionOf
    <3>2. Contested' \in {Contested, Contested \cup {p}}
      BY <2>3, <3>1
    <3>3. Register!Decide(p, d)
      BY <1>1, <1>2, <2>2, <3>1, <3>2 DEF Register!Decide, decisionOf
    <3>4. QED
      BY <1>3, <3>3, CommitKeeps DEF RegisterStep, Register!Next
  <2>5. CASE Rows(p) # {}
    <3>1. p \in Contested
      BY <1>1, <2>1, <2>5 DEF Contested, Rival
    <3>2. Contested' \in {Contested, Contested \ {p}}
      BY <2>3, <3>1
    <3>3. Register!Replace(p, d)
      BY <1>1, <1>2, <2>2, <3>1, <3>2 DEF Register!Replace, decisionOf
    <3>4. QED
      BY <1>3, <3>3, CommitKeeps DEF RegisterStep, Register!Next
  <2>6. QED
    BY <2>4, <2>5
<1>7. QED
  BY <1>5, <1>6

LEMMA NextOK == IInv /\ [Next]_vars => IInv' /\ RegisterStep
<1> SUFFICES ASSUME IInv, [Next]_vars PROVE IInv' /\ RegisterStep
  OBVIOUS
<1>1. CASE Workflow
  BY <1>1, AddTaskPodOK, PollOK DEF Workflow
<1>2. ASSUME NEW h \in Handlers, Request(h) \/ Step(h) \/ Fail(h)
      PROVE  IInv' /\ RegisterStep
  BY <1>2, UpdateApprovalOK, SetApprovalOK, CreateOK, CommitOK, FailOK DEF Request, Step
<1>3. CASE UNCHANGED vars
  <2>1. TypeOK' /\ \A h \in Handlers : HasDecision(h)'
    BY <1>3 DEF vars, IInv, TypeOK, HasDecision
  <2>2. QED
    BY <1>3, <2>1, RequestStays DEF vars
<1>4. QED
  BY <1>1, <1>2, <1>3 DEF Next, Waiting

LEMMA Invariance == Spec => []IInv
<1>1. QED
  BY InitOK, NextOK, PTL DEF Spec

-----------------------------------------------------------------------------
\* Pods, approvals and the locals of requests are well typed: no approval is
\* stored without a pod or without a decision.
THEOREM TypeCorrect == Spec => []TypeOK
<1>1. IInv => TypeOK
  BY DEF IInv
<1>2. QED
  BY Invariance, <1>1, PTL

\* Whoever was answered 204 has left, or found, a decision that the task reads.
THEOREM AckedAlwaysDecided == Spec => []AckedIsDecided
<1>1. IInv => AckedIsDecided
  <2> SUFFICES ASSUME IInv, NEW p \in acked PROVE Decision(p) # "nodata"
    BY DEF AckedIsDecided
  <2>1. p \in Pods /\ Rows(p) # {}
    BY DEF IInv, TypeOK
  <2>2. QED
    BY <2>1, DecisionIsTyped DEF IInv
<1>2. QED
  BY Invariance, <1>1, PTL

\* However many requests decide on a pod at once, with either endpoint, and in
\* whatever order their rows appear, the task that polls reads a decision that is
\* final when no request that drew a lower id is under way: Approvals implements
\* DecisionRegister.
THEOREM DecisionsAreFinal == Spec => DecisionIsFinal
<1>1. RegisterStep => [Register!Next]_(Register!vars)
  BY DEF RegisterStep, Register!vars, decisionOf
<1>2. IInv /\ [Next]_vars => [Register!Next]_(Register!vars)
  BY <1>1, NextOK
<1>3. Init => Register!Init
  BY InitOK
<1>4. QED
  BY <1>2, <1>3, Invariance, PTL DEF Spec, DecisionIsFinal, Register!Spec

-----------------------------------------------------------------------------
(***************************************************************************)
(* Which plan a decision for the resource is about.                        *)
(***************************************************************************)

LEMMA RanksAreNumbers ==
  \A n \in InClusterGenerations : n \in Nat /\ TextRank(n) \in Nat
<1> SUFFICES ASSUME NEW n \in InClusterGenerations PROVE n \in Nat /\ TextRank(n) \in Nat
  OBVIOUS
<1>1. n \in 1 .. 99
  BY GenerationsAssumption
<1>2. TextRank(n) \in Nat
  BY <1>1 DEF TextRank
<1>3. QED
  BY <1>1, <1>2

LEMMA SameOrder ==
  ASSUME TextInOrder, NEW t \in MaxReruns(taskPods), NEW u \in MaxReruns(taskPods),
         t.in_cluster \in InClusterGenerations, u.in_cluster \in InClusterGenerations
  PROVE  TextRank(u.in_cluster) <= TextRank(t.in_cluster) <=> u.in_cluster <= t.in_cluster
<1> DEFINE m == u.in_cluster  n == t.in_cluster
<1>1. m \in Nat /\ n \in Nat /\ TextRank(m) \in Nat /\ TextRank(n) \in Nat
  BY RanksAreNumbers
<1>2. m < n => TextRank(m) < TextRank(n)
  BY DEF TextInOrder
<1>3. n < m => TextRank(n) < TextRank(m)
  BY DEF TextInOrder
<1>4. m = n => TextRank(m) = TextRank(n)
  OBVIOUS
<1> HIDE DEF m, n
<1>5. TextRank(m) <= TextRank(n) <=> m <= n
  BY <1>1, <1>2, <1>3, <1>4
<1>6. QED
  BY <1>5 DEF m, n

\* A decision for the resource is about the plans of the latest run on record and
\* no others, whenever the generations of the latest rerun are ordered alike as
\* text: always, if a rerun has one generation only.
THEOREM RequiredAlwaysLatest == Spec => []RequiredIsLatest
<1>1. TypeOK => RequiredIsLatest
  <2> SUFFICES ASSUME TypeOK, TextInOrder, NEW t \in taskPods
               PROVE  t \in MaxInCluster(MaxReruns(taskPods)) <=> OfLatestRun(t)
    BY DEF RequiredIsLatest, Required, OfType
  <2>1. \A u \in taskPods : u.rerun \in Nat /\ u.in_cluster \in InClusterGenerations
    BY DEF TypeOK, TaskPod
  <2>2. ASSUME t \in MaxReruns(taskPods), NEW u \in MaxReruns(taskPods)
        PROVE  TextRank(u.in_cluster) <= TextRank(t.in_cluster)
                 <=> u.in_cluster <= t.in_cluster
    <3>1. u \in taskPods
      BY DEF MaxReruns
    <3>2. QED
      BY <2>1, <2>2, <3>1, SameOrder
  <2>3. ASSUME t \in MaxInCluster(MaxReruns(taskPods)) PROVE OfLatestRun(t)
    <3> SUFFICES ASSUME NEW u \in taskPods, ~(u.rerun < t.rerun)
                 PROVE  u.rerun = t.rerun /\ u.in_cluster <= t.in_cluster
      BY DEF OfLatestRun
    <3>1. t \in MaxReruns(taskPods) /\ \A v \in taskPods : v.rerun <= t.rerun
      BY <2>3 DEF MaxInCluster, MaxReruns
    <3>2. u.rerun = t.rerun
      BY <2>1, <3>1
    <3>3. u \in MaxReruns(taskPods)
      BY <3>1, <3>2 DEF MaxReruns
    <3>4. QED
      BY <2>2, <2>3, <3>1, <3>2, <3>3 DEF MaxInCluster
  <2>4. ASSUME OfLatestRun(t) PROVE t \in MaxInCluster(MaxReruns(taskPods))
    <3>1. \A v \in taskPods : v.rerun <= t.rerun
      BY <2>1, <2>4 DEF OfLatestRun
    <3>2. t \in MaxReruns(taskPods)
      BY <3>1 DEF MaxReruns
    <3>3. ASSUME NEW u \in MaxReruns(taskPods)
          PROVE  TextRank(u.in_cluster) <= TextRank(t.in_cluster)
      <4>1. u \in taskPods /\ t.rerun <= u.rerun
        BY DEF MaxReruns
      <4>2. u.in_cluster <= t.in_cluster
        BY <2>1, <2>4, <4>1 DEF OfLatestRun
      <4>3. QED
        BY <2>2, <3>2, <4>2
    <3>4. QED
      BY <3>2, <3>3 DEF MaxInCluster
  <2>5. QED
    BY <2>3, <2>4
<1>2. QED
  BY <1>1, TypeCorrect, PTL

-----------------------------------------------------------------------------
(***************************************************************************)
(* Which pods are shown.  What holds of the running minimum goes from one  *)
(* type to the next.                                                       *)
(***************************************************************************)
\* Highest is the maximum, of numbers that are bounded.
LEMMA HighestIsMax ==
  ASSUME NEW minimum \in Nat, NEW numbers \in SUBSET Nat,
         NEW b \in Nat, \A n \in numbers : n <= b
  PROVE  /\ Highest(minimum, numbers) \in numbers \cup {minimum}
         /\ Highest(minimum, numbers) \in Nat
         /\ \A m \in numbers \cup {minimum} : m <= Highest(minimum, numbers)
<1> DEFINE S == numbers \cup {minimum}
<1>1. S \subseteq Nat /\ S # {} /\ \A n \in S : n <= b + minimum
  OBVIOUS
<1>2. b + minimum \in Nat
  OBVIOUS
<1> HIDE DEF S
<1>3. \E n \in S : \A m \in S : m <= n
  BY <1>1, <1>2, LargestNat
<1>4. QED
  BY <1>1, <1>3 DEF Highest, S

-----------------------------------------------------------------------------
\* Reruns are bounded, as those of the runs are.
BoundedReruns == \A t \in taskPods : t.rerun <= MaxRerun

RerunsOf(k) == {t.rerun : t \in OfType(k)}

\* g is the running minimum for the types 1 .. n.
RunsAlong(g, n) ==
  /\ g \in [0 .. n -> Nat]
  /\ g[0] = 0
  /\ \A k \in 1 .. n : g[k] = Highest(g[k - 1], RerunsOf(k))

LEMMA RerunsBounded ==
  ASSUME TypeOK, BoundedReruns, NEW k
  PROVE  RerunsOf(k) \in SUBSET Nat /\ MaxRerun \in Nat /\ \A n \in RerunsOf(k) : n <= MaxRerun
BY BoundsAssumption DEF TypeOK, TaskPod, BoundedReruns, RerunsOf, OfType

LEMMA LevelExists ==
  ASSUME TypeOK, BoundedReruns
  PROVE  \E g : RunsAlong(g, Types)
<1> DEFINE S == {n \in Nat : \E g : RunsAlong(g, n)}
<1>1. 0 \in S
  <2>1. RunsAlong([k \in 0 .. 0 |-> 0], 0)
    BY DEF RunsAlong
  <2>2. QED
    BY <2>1
<1>2. ASSUME NEW n \in 1 .. Types, n - 1 \in S PROVE n \in S
  <2>1. n \in Nat /\ n - 1 \in Nat
    BY TypesAssumption
  <2>2. PICK g : RunsAlong(g, n - 1)
    BY <1>2
  <2> DEFINE top == Highest(g[n - 1], RerunsOf(n))
             f == [k \in 0 .. n |-> IF k = n THEN top ELSE g[k]]
  <2>3. g \in [0 .. (n - 1) -> Nat] /\ g[n - 1] \in Nat
    BY <2>1, <2>2 DEF RunsAlong
  <2>4. top \in Nat
    BY <2>3, RerunsBounded, HighestIsMax
  <2> HIDE DEF top
  <2>5. f \in [0 .. n -> Nat] /\ f[0] = 0 /\ f[n] = top
    BY <2>1, <2>2, <2>3, <2>4 DEF RunsAlong
  <2>6. \A k \in 0 .. (n - 1) : f[k] = g[k]
    BY <2>1
  <2> HIDE DEF f
  <2>7. ASSUME NEW k \in 1 .. n PROVE f[k] = Highest(f[k - 1], RerunsOf(k))
    <3>1. CASE k = n
      <4>1. f[k - 1] = g[n - 1]
        BY <2>1, <2>6, <3>1
      <4>2. QED
        BY <2>5, <3>1, <4>1 DEF top
    <3>2. CASE k # n
      <4>1. k \in 1 .. (n - 1) /\ k \in 0 .. (n - 1) /\ k - 1 \in 0 .. (n - 1)
        BY <2>1, <3>2
      <4>2. g[k] = Highest(g[k - 1], RerunsOf(k))
        BY <2>2, <4>1 DEF RunsAlong
      <4>3. QED
        BY <2>6, <4>1, <4>2
    <3>3. QED
      BY <3>1, <3>2
  <2>8. RunsAlong(f, n)
    BY <2>5, <2>7 DEF RunsAlong
  <2>9. QED
    BY <2>1, <2>8
<1>3. Types \in Nat
  BY TypesAssumption
<1> HIDE DEF S
<1>4. Types \in S
  BY <1>1, <1>2, <1>3, UpTo
<1>5. QED
  BY <1>4 DEF S

\* Level is that function.
LEMMA LevelRunsAlong ==
  ASSUME TypeOK, BoundedReruns
  PROVE  RunsAlong(Level, Types)
<1> DEFINE Unfold(f) ==
      [k \in 0 .. Types |-> IF k = 0 THEN 0 ELSE Highest(f[k - 1], RerunsOf(k))]
<1>1. PICK g : RunsAlong(g, Types)
  BY LevelExists
<1>2. g = Unfold(g)
  <2>1. ASSUME NEW k \in 0 .. Types
        PROVE  g[k] = IF k = 0 THEN 0 ELSE Highest(g[k - 1], RerunsOf(k))
    <3>1. CASE k = 0
      BY <1>1, <3>1 DEF RunsAlong
    <3>2. CASE k # 0
      <4>1. k \in 1 .. Types
        BY <3>2, TypesAssumption
      <4>2. QED
        BY <1>1, <3>2, <4>1 DEF RunsAlong
    <3>3. QED
      BY <3>1, <3>2
  <2>2. g = [k \in 0 .. Types |-> g[k]]
    BY <1>1 DEF RunsAlong
  <2>3. [k \in 0 .. Types |-> g[k]] = Unfold(g)
    BY <2>1
  <2>4. QED
    BY <2>2, <2>3
<1>3. Level = CHOOSE f : f = Unfold(f)
  BY DEF Level, RerunsOf
<1> HIDE DEF Unfold
<1>4. Level = Unfold(Level)
  BY <1>2, <1>3
<1>5. Level = [k \in 0 .. Types |-> IF k = 0 THEN 0 ELSE Highest(Level[k - 1], RerunsOf(k))]
  BY <1>4 DEF Unfold
<1>6. \A k \in 0 .. Types : Level[k] = IF k = 0 THEN 0 ELSE Highest(Level[k - 1], RerunsOf(k))
  BY <1>5
<1>7. Types \in Nat /\ 0 \in 0 .. Types /\ \A k \in 1 .. Types : k \in 0 .. Types /\ k # 0
  BY TypesAssumption
<1> DEFINE S == {k \in 0 .. Types : Level[k] \in Nat}
<1>8. 0 \in S
  BY <1>6, <1>7
<1>9. ASSUME NEW k \in 1 .. Types, k - 1 \in S PROVE k \in S
  <2>1. Level[k] = Highest(Level[k - 1], RerunsOf(k)) /\ Level[k - 1] \in Nat
    BY <1>6, <1>7, <1>9
  <2>2. QED
    BY <1>7, <2>1, RerunsBounded, HighestIsMax
<1>10. \A k \in 0 .. Types : Level[k] \in Nat
  <2> HIDE DEF S
  <2>1. \A k \in 0 .. Types : k \in S
    BY <1>7, <1>8, <1>9, UpTo
  <2>2. QED
    BY <2>1 DEF S
<1>11. Level \in [0 .. Types -> Nat]
  BY <1>5, <1>10
<1>12. QED
  BY <1>6, <1>7, <1>11 DEF RunsAlong

\* The level of a type is that of the highest rerun up to it.
LEMMA LevelIsHighest ==
  ASSUME TypeOK, BoundedReruns
  PROVE  /\ \A k \in 0 .. Types :
              /\ Level[k] \in Nat
              /\ \A u \in taskPods : u.type <= k => u.rerun <= Level[k]
              /\ Level[k] = 0 \/ \E u \in taskPods : u.type <= k /\ u.rerun = Level[k]
         /\ \A k \in 1 .. Types : Level[k - 1] <= Level[k]
<1>1. /\ Types \in Nat
      /\ \A u \in taskPods : u.type \in 1 .. Types /\ u.rerun \in Nat
  BY TypesAssumption DEF TypeOK, TaskPod
<1>2. /\ Level \in [0 .. Types -> Nat] /\ Level[0] = 0
      /\ \A k \in 1 .. Types : Level[k] = Highest(Level[k - 1], RerunsOf(k))
  BY LevelRunsAlong DEF RunsAlong
<1>3. ASSUME NEW k \in 1 .. Types
      PROVE  /\ Level[k] \in RerunsOf(k) \cup {Level[k - 1]}
             /\ \A m \in RerunsOf(k) \cup {Level[k - 1]} : m <= Level[k]
  <2>1. Level[k - 1] \in Nat
    BY <1>1, <1>2
  <2>2. QED
    BY <1>2, <2>1, RerunsBounded, HighestIsMax
<1> DEFINE S == {k \in 0 .. Types :
                   /\ \A u \in taskPods : u.type <= k => u.rerun <= Level[k]
                   /\ Level[k] = 0 \/ \E u \in taskPods : u.type <= k /\ u.rerun = Level[k]}
<1>4. 0 \in S
  BY <1>1, <1>2
<1>5. ASSUME NEW k \in 1 .. Types, k - 1 \in S PROVE k \in S
  <2>1. k \in 0 .. Types /\ k \in Nat /\ Level[k] \in Nat /\ Level[k - 1] \in Nat
    BY <1>1, <1>2
  <2>2. ASSUME NEW u \in taskPods, u.type <= k PROVE u.rerun <= Level[k]
    <3>1. CASE u.type = k
      <4>1. u.rerun \in RerunsOf(k)
        BY <3>1 DEF RerunsOf, OfType
      <4>2. QED
        BY <1>3, <4>1
    <3>2. CASE u.type # k
      <4>1. u.type <= k - 1 /\ u.rerun \in Nat
        BY <1>1, <2>1, <2>2, <3>2
      <4>2. u.rerun <= Level[k - 1] /\ Level[k - 1] <= Level[k]
        BY <1>3, <1>5, <4>1
      <4>3. QED
        BY <2>1, <4>1, <4>2
    <3>3. QED
      BY <3>1, <3>2
  <2>3. CASE Level[k] \in RerunsOf(k)
    <3>1. PICK u \in taskPods : u.type = k /\ u.rerun = Level[k]
      BY <2>3 DEF RerunsOf, OfType
    <3>2. u.type <= k
      BY <2>1, <3>1
    <3>3. QED
      BY <2>1, <2>2, <3>1, <3>2
  <2>4. CASE Level[k] = Level[k - 1]
    <3>1. \A u \in taskPods : u.type <= k - 1 => u.type <= k
      BY <1>1, <2>1
    <3>2. QED
      BY <1>5, <2>1, <2>2, <2>4, <3>1
  <2>5. QED
    BY <1>3, <2>3, <2>4
<1> HIDE DEF S
<1>6. \A k \in 0 .. Types : k \in S
  BY <1>1, <1>4, <1>5, UpTo
<1>7. QED
  BY <1>2, <1>3, <1>6 DEF S

LEMMA ShownIsLatest ==
  ASSUME TypeOK, BoundedReruns, NEW k \in 1 .. Types
  PROVE  Shown(k) = Latest(k)
<1>1. k \in 0 .. Types /\ k \in Nat
  BY TypesAssumption
<1>2. \A u \in taskPods : u.rerun \in Nat
  BY DEF TypeOK, TaskPod
<1>3. /\ Level[k] \in Nat
      /\ \A u \in taskPods : u.type <= k => u.rerun <= Level[k]
      /\ Level[k] = 0 \/ \E u \in taskPods : u.type <= k /\ u.rerun = Level[k]
  BY <1>1, LevelIsHighest
<1>4. ASSUME NEW t \in OfType(k), t.rerun = Level[k]
      PROVE  \A u \in taskPods : u.type <= k => u.rerun <= t.rerun
  BY <1>3, <1>4
<1>5. ASSUME NEW t \in OfType(k), \A u \in taskPods : u.type <= k => u.rerun <= t.rerun
      PROVE  t.rerun = Level[k]
  <2>1. t \in taskPods /\ t.type <= k /\ t.rerun \in Nat
    BY <1>1, <1>2 DEF OfType
  <2>2. t.rerun <= Level[k]
    BY <1>3, <2>1
  <2>3. Level[k] <= t.rerun
    BY <1>3, <1>5, <2>1
  <2>4. QED
    BY <1>3, <2>1, <2>2, <2>3
<1>6. QED
  BY <1>4, <1>5 DEF Shown, Latest

LEMMA BoundedAlways == Spec => []BoundedReruns
<1>1. Init => BoundedReruns
  BY DEF Init, BoundedReruns
<1>2. BoundedReruns /\ [Next]_vars => BoundedReruns'
  <2> SUFFICES ASSUME BoundedReruns, [Next]_vars PROVE BoundedReruns'
    OBVIOUS
  <2>1. ASSUME NEW p \in Pods, NEW k \in 1 .. Types, NEW r \in Runs, AddTaskPod(p, k, r)
        PROVE  BoundedReruns'
    <3>1. r.rerun <= MaxRerun
      BY BoundsAssumption DEF Runs
    <3>2. QED
      BY <2>1, <3>1 DEF AddTaskPod, BoundedReruns
  <2>2. CASE UNCHANGED taskPods
    BY <2>2 DEF BoundedReruns
  <2>3. ASSUME NEW h \in Handlers, Request(h) \/ Step(h) \/ Fail(h)
        PROVE  UNCHANGED taskPods
    BY <2>3 DEF Request, Step, SetApproval, UpdateApproval, Create, Commit, Fail
  <2>4. QED
    BY <2>1, <2>2, <2>3 DEF Next, Workflow, Poll, Waiting, vars
<1>3. QED
  BY <1>1, <1>2, PTL DEF Spec

\* The log of a resource shows what get_record.go:285-306 calls a good result, for
\* any number of task types and whatever their pods: the running minimum finds it.
THEOREM AlwaysShowsLatest == Spec => []ShowsLatest
<1>1. TypeOK /\ BoundedReruns => ShowsLatest
  BY ShownIsLatest DEF ShowsLatest
<1>2. QED
  BY <1>1, TypeCorrect, BoundedAlways, PTL

\* So does the overview, although it looks for the pods in another way and falls
\* back to a row that may be of a superseded run.
THEOREM OverviewAlwaysShowsLatest == Spec => []OverviewShowsLatest
<1>1. ASSUME TypeOK, BoundedReruns, NEW k \in 1 .. Types, Latest(k) # {}
      PROVE  OverviewShows(k) = Latest(k)
  <2>1. Level[k - 1] <= Level[k]
    BY <1>1, LevelIsHighest
  <2>2. {t \in OfType(k) : t.rerun >= Level[k - 1] /\ t.rerun = Level[k]} = Shown(k)
    BY <2>1 DEF Shown
  <2>3. QED
    BY <1>1, <2>2, ShownIsLatest DEF OverviewShows
<1>2. TypeOK /\ BoundedReruns => OverviewShowsLatest
  BY <1>1 DEF OverviewShowsLatest
<1>3. QED
  BY <1>2, TypeCorrect, BoundedAlways, PTL
=============================================================================
