----------------------------- MODULE Approvals ------------------------------
(***************************************************************************)
(* The approval of plans, for one resource and generation.  Every run of   *)
(* the workflow records its task pods; a plan pod then asks for its        *)
(* approval until there is one.  A decision is made for a pod              *)
(* (UpdateApproval) or for the resource (setApprovalForResource), which    *)
(* means the plan of its latest run.  The log and the overview of the      *)
(* resource show one pod of each task type.                                *)
(*                                                                         *)
(* One action is one database statement.  A Create is two: it runs in a    *)
(* transaction of its own, whose INSERT draws the id of the row and whose  *)
(* COMMIT lets others read it, so that rows may appear in another order    *)
(* than that of their ids.  No index makes the pod of an approval unique,  *)
(* and no query on task_pods has an order: where several rows qualify, any *)
(* may be the one that is used.                                            *)
(***************************************************************************)
EXTENDS Naturals, Sequences, FiniteSets

CONSTANTS
  Pods,                 \* uids of task pods
  Types,                \* task types: 1 .. Types, as in taskTypesInOrder
  Plan,                 \* the place of "plan" among them
  MaxRerun,             \* bound on the reruns
  InClusterGenerations, \* metadata.generation of the Tf object
  MaxApprovals,         \* bound on the approvals
  Handlers,             \* request goroutines
  Faults,               \* may a statement fail or the process die?
  Null                  \* no uid

ASSUME TypesAssumption == Types \in Nat /\ Plan \in 1 .. Types
ASSUME BoundsAssumption == MaxRerun \in Nat /\ MaxApprovals \in Nat
\* Two digits at most, which is what TextRank is made for.
ASSUME GenerationsAssumption == InClusterGenerations \subseteq 1 .. 99
ASSUME FaultsAssumption == Faults \in BOOLEAN
ASSUME NullAssumption == Null \notin Pods

VARIABLES
  taskPods,   \* rows of task_pods
  approvals,  \* rows of approvals in the order of their ids
  committed,  \* ids of the rows that can be read
  told,       \* pod -> what its task was last told
  acked,      \* pods whose decision was answered 204
  pc, ctx     \* where each handler stands, and its locals

vars == <<taskPods, approvals, committed, told, acked, pc, ctx>>

Decisions == {"approved", "denied"}
Runs == [rerun : 0 .. MaxRerun, in_cluster : InClusterGenerations]
TaskPod == [uuid : Pods, type : 1 .. Types, rerun : Nat, in_cluster : InClusterGenerations]
Approval == [pod : Pods, decision : Decisions]

\* The pod and decision of the request, and the id of the row it has inserted.
IdleCtx == [pod |-> Null, decision |-> "nodata", id |-> 0]
Ctx == [pod : Pods \cup {Null}, decision : Decisions \cup {"nodata"}, id : Nat]
Labels == {"idle", "create", "commit"}

TypeOK ==
  /\ taskPods \subseteq TaskPod
  /\ approvals \in Seq(Approval)
  /\ committed \subseteq DOMAIN approvals
  /\ told \in [Pods -> Decisions \cup {"nodata"}]
  /\ acked \subseteq Pods
  /\ pc \in [Handlers -> Labels]
  /\ ctx \in [Handlers -> Ctx]

Init ==
  /\ taskPods = {}
  /\ approvals = <<>>
  /\ committed = {}
  /\ told = [p \in Pods |-> "nodata"]
  /\ acked = {}
  /\ pc = [h \in Handlers |-> "idle"]
  /\ ctx = [h \in Handlers |-> IdleCtx]

-----------------------------------------------------------------------------
(***************************************************************************)
(* Which pod of a task type is shown.                                      *)
(***************************************************************************)

OfType(k) == {t \in taskPods : t.type = k}
Uuids(pods) == {t.uuid : t \in pods}

\* The highest number of a set, and at least the one given.
Highest(minimum, numbers) ==
  CHOOSE n \in numbers \cup {minimum} : \A m \in numbers \cup {minimum} : m <= n

\* The running minimum of highestRerun and logs(), after the types 1 .. k.
Level[k \in 0 .. Types] ==
  IF k = 0 THEN 0 ELSE Highest(Level[k - 1], {t.rerun : t \in OfType(k)})

\* The log shows a pod of that rerun, or none.
ShownPerType(k) == {t \in OfType(k) : \A u \in OfType(k) : u.rerun <= t.rerun}
Shown(k) == {t \in OfType(k) : t.rerun = Level[k]}

\* The overview shows a pod whose rerun is not below those of earlier types.  The
\* index of that pod starts at 0: without one, the first row of the type is shown.
OverviewShowsAbove(k) ==
  LET best == {t \in OfType(k) : t.rerun > Level[k - 1] /\ t.rerun = Level[k]}
  IN IF best # {} THEN best ELSE OfType(k)
OverviewShows(k) ==
  LET best == {t \in OfType(k) : t.rerun >= Level[k - 1] /\ t.rerun = Level[k]}
  IN IF best # {} THEN best ELSE OfType(k)

(***************************************************************************)
(* Which plan a decision is about.                                         *)
(***************************************************************************)

MaxReruns(pods) == {t \in pods : \A u \in pods : u.rerun <= t.rerun}

\* in_cluster_generation is text: "10" comes before "9".
TextRank(n) == IF n < 10 THEN 20 * n ELSE 20 * (n \div 10) + (n % 10) + 1
MaxInCluster(pods) ==
  {t \in pods : \A u \in pods : TextRank(u.in_cluster) <= TextRank(t.in_cluster)}

\* requiredApprovalPodUUID: the latest rerun of any task, and of that rerun the
\* plan pods of the maximal in-cluster generation.
RequiredOfPlans == MaxInCluster(MaxReruns(OfType(Plan)))
Required == MaxInCluster(MaxReruns(taskPods)) \cap OfType(Plan)

\* First: the decision of the row with the lowest id.
Rows(p) == {i \in committed : approvals[i].pod = p}
DecisionOfLast(p) ==
  IF Rows(p) = {} THEN "nodata"
  ELSE approvals[CHOOSE i \in Rows(p) : \A j \in Rows(p) : j <= i].decision
Decision(p) ==
  IF Rows(p) = {} THEN "nodata"
  ELSE approvals[CHOOSE i \in Rows(p) : \A j \in Rows(p) : i <= j].decision

-----------------------------------------------------------------------------
\* Runs follow each other: the controller counts reruns up, and the object's
\* metadata.generation only grows.
NotAfter(r, s) == r.rerun <= s.rerun /\ r.in_cluster <= s.in_cluster

\* AddTaskPod: a pod of run r posts for the first time.  The posts of different
\* pods come in any order.
AddTaskPod(p, k, r) ==
  /\ p \notin Uuids(taskPods)
  /\ \A t \in taskPods : NotAfter(r, t) \/ NotAfter(t, r)
  /\ taskPods' = taskPods \cup
       {[uuid |-> p, type |-> k, rerun |-> r.rerun, in_cluster |-> r.in_cluster]}
  /\ UNCHANGED <<approvals, committed, told, acked, pc, ctx>>

\* GetApprovalStatusViaTaskPodUUID: the plan asks whether it may go on.
Poll(p) ==
  /\ p \in Uuids(OfType(Plan))
  /\ told' = [told EXCEPT ![p] = Decision(p)]
  /\ UNCHANGED <<taskPods, approvals, committed, acked, pc, ctx>>

Goto(h, from, to) == pc[h] = from /\ pc' = [pc EXCEPT ![h] = to]

\* The bound on approvals, those that requests are about to create included.
Room == Len(approvals) + Cardinality({h \in Handlers : pc[h] = "create"}) < MaxApprovals

\* UpdateApproval up to its First.  A decision that is there already is
\* answered like a success.
UpdateApproval(h, p, d) ==
  /\ Room
  /\ \/ /\ Rows(p) # {}
        /\ pc[h] = "idle"
        /\ acked' = acked \cup {p}
        /\ UNCHANGED <<pc, ctx>>
     \/ /\ Rows(p) = {}
        /\ Goto(h, "idle", "create")
        /\ ctx' = [ctx EXCEPT ![h] = [pod |-> p, decision |-> d, id |-> 0]]
        /\ UNCHANGED acked
  /\ UNCHANGED <<taskPods, approvals, committed, told>>

\* setApprovalForResource: no decision is looked for, and no row leaves the
\* uid empty.
SetApproval(h, d) ==
  /\ Room
  /\ Goto(h, "idle", "create")
  /\ \E p \in IF Required = {} THEN {Null} ELSE Uuids(Required) :
       ctx' = [ctx EXCEPT ![h] = [pod |-> p, decision |-> d, id |-> 0]]
  /\ UNCHANGED <<taskPods, approvals, committed, told, acked>>

\* The request is answered; its locals are gone.
Return(h, from) == Goto(h, from, "idle") /\ ctx' = [ctx EXCEPT ![h] = IdleCtx]

\* The INSERT of either, which the foreign key refuses without the pod's row ...
Insert(h) ==
  /\ approvals' = Append(approvals, [pod |-> ctx[h].pod, decision |-> ctx[h].decision])
  /\ Goto(h, "create", "commit")
  /\ ctx' = [ctx EXCEPT ![h].id = Len(approvals) + 1]
CreateUnchecked(h) ==
  /\ Insert(h)
  /\ UNCHANGED <<taskPods, committed, told, acked>>
CreateErrorIgnored(h) ==
  /\ \/ ctx[h].pod \in Uuids(taskPods) /\ Insert(h) /\ UNCHANGED acked
     \/ /\ ctx[h].pod \in Pods \ Uuids(taskPods)
        /\ Return(h, "create")
        /\ acked' = acked \cup {ctx[h].pod}
        /\ UNCHANGED approvals
  /\ UNCHANGED <<taskPods, committed, told>>
Create(h) ==
  /\ \/ ctx[h].pod \in Uuids(taskPods) /\ Insert(h)
     \/ ctx[h].pod \notin Uuids(taskPods) /\ Return(h, "create") /\ UNCHANGED approvals
  /\ UNCHANGED <<taskPods, committed, told, acked>>

\* ... and the COMMIT, after which the request is answered 204.
Commit(h) ==
  /\ Return(h, "commit")
  /\ committed' = committed \cup {ctx[h].id}
  /\ acked' = acked \cup {ctx[h].pod}
  /\ UNCHANGED <<taskPods, approvals, told>>

\* A statement fails, or the process dies: the row is rolled back.
Fail(h) ==
  /\ Faults
  /\ pc[h] # "idle"
  /\ Return(h, pc[h])
  /\ UNCHANGED <<taskPods, approvals, committed, told, acked>>

Workflow ==
  \/ \E p \in Pods, k \in 1 .. Types, r \in Runs : AddTaskPod(p, k, r)
  \/ \E p \in Pods : Poll(p)

Request(h) ==
  \E d \in Decisions : SetApproval(h, d) \/ \E p \in Pods : UpdateApproval(h, p, d)

\* The bound on approvals is used up and the server waits.
Waiting ==
  /\ \A h \in Handlers : pc[h] = "idle"
  /\ Len(approvals) >= MaxApprovals
  /\ UNCHANGED vars

Step(h) == Create(h) \/ Commit(h)

Next == Workflow \/ (\E h \in Handlers : Request(h) \/ Step(h) \/ Fail(h)) \/ Waiting

Spec == Init /\ [][Next]_vars

-----------------------------------------------------------------------------
(***************************************************************************)
(* Properties.                                                             *)
(***************************************************************************)

\* The picture of get_record.go:285-306: a pod is shown if it is of the highest
\* rerun of its type and no earlier type has seen a later rerun.
Latest(k) == {t \in OfType(k) : \A u \in taskPods : u.type <= k => u.rerun <= t.rerun}

\* The log of a resource shows for every task type a pod that the picture calls
\* a good result, whenever there is one, and otherwise none.
ShowsLatest == \A k \in 1 .. Types : Shown(k) = Latest(k)

\* So does the overview (getWorkflowInfo, latest-tasks) where there is one.
OverviewShowsLatest ==
  \A k \in 1 .. Types : Latest(k) # {} => OverviewShows(k) = Latest(k)

\* The in-cluster generations of the latest rerun are in the same order as text.
\* A rerun that is on record with generations 9 and 10 is the exception.
TextInOrder ==
  \A t, u \in MaxReruns(taskPods) :
    t.in_cluster < u.in_cluster => TextRank(t.in_cluster) < TextRank(u.in_cluster)

\* t is of the latest run on record: by rerun, then by in-cluster generation.
OfLatestRun(t) ==
  \A u \in taskPods :
    u.rerun < t.rerun \/ (u.rerun = t.rerun /\ u.in_cluster <= t.in_cluster)

\* A decision for the resource is about the plan of its latest run, never about
\* the plan of a run that is superseded; and that plan can be decided on.
RequiredIsLatest == TextInOrder => Required = {t \in OfType(Plan) : OfLatestRun(t)}

\* A request that was answered 204 leaves a decision to be read: the accepted
\* one, or the one that was there before.
AckedIsDecided == \A p \in acked : Decision(p) # "nodata"

\* h has inserted a row that will be the first of the pod's once it is committed.
Rival(h, p) == pc[h] = "commit" /\ ctx[h].pod = p /\ \A i \in Rows(p) : ctx[h].id < i

\* The decision of these may still be replaced, by a request that drew a lower id.
Contested == {p \in Pods : Rows(p) # {} /\ \E h \in Handlers : Rival(h, p)}

\* Whatever requests overlap and whatever fails, a pod's decision is taken after
\* the pod is on record and is final, for the task that polls, as soon as no
\* request that was made at the same time is under way.
Register == INSTANCE DecisionRegister
  WITH recorded <- Uuids(taskPods), decision <- [p \in Pods |-> Decision(p)],
       contested <- Contested
DecisionIsFinal == Register!Spec
=============================================================================
