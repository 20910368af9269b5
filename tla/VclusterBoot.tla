---------------------------- MODULE VclusterBoot ----------------------------
(***************************************************************************)
(* The vcluster of an origin cluster.  AddCluster registers the cluster's  *)
(* name, creates a namespace on the host and applies the vcluster's        *)
(* manifest there; the vcluster then comes up and leaves its kubeconfig in *)
(* a secret, which every other request needs.  SyncEvent applies           *)
(* dependencies inside the vcluster.  Namespaces may be deleted at any     *)
(* time, and names are registered again at every start of an agent.        *)
(*                                                                         *)
(* One action is one database statement or one Kubernetes call.  Create is *)
(* two: it runs in a transaction of its own, whose INSERT draws the id of  *)
(* the row and whose COMMIT lets others read it.                           *)
(***************************************************************************)
EXTENDS Naturals, Sequences

CONSTANTS
  Names,         \* names of origin clusters
  Handlers,      \* request goroutines
  MaxPosts,      \* bound on the requests
  MaxDeletions,  \* bound on the deletions of namespaces
  Faults,        \* may a statement or call fail, or the process die?
  Null           \* no name

ASSUME BoundsAssumption == MaxPosts \in Nat /\ MaxDeletions \in Nat
ASSUME FaultsAssumption == Faults \in BOOLEAN
ASSUME NullAssumption == Null \notin Names

VARIABLES
  clusters,   \* rows of clusters, by name, in the order of their ids
  committed,  \* ids of the rows that can be read
  namespace,  \* name -> where -> what the namespace of a manifest is
  applied,    \* name -> where the manifest is applied
  config,     \* names with the kubeconfig of a vcluster in their namespace
  posts,      \* requests so far
  deletions,  \* deletions so far
  pc, ctx     \* where each handler stands, and its locals

vars == <<clusters, committed, namespace, applied, config, posts, deletions, pc, ctx>>

\* The host has the namespace of the vcluster, the vcluster those of resources.
Where == {"host", "vcluster"}
Labels == {"idle", "cluster_create", "cluster_commit", "namespace_get",
           "namespace_create", "apply", "namespace_again"}

\* The cluster, the id of its row if the request has inserted one, where the
\* manifest goes, and how many are left.
IdleCtx == [name |-> Null, id |-> 0, where |-> "host", left |-> 0]
Ctx == [name : Names \cup {Null}, id : Nat, where : Where, left : 0 .. 2]

TypeOK ==
  /\ clusters \in Seq(Names)
  /\ committed \subseteq DOMAIN clusters
  /\ namespace \in [Names -> [Where -> {"absent", "active", "terminating"}]]
  /\ applied \in [Names -> SUBSET Where]
  /\ config \subseteq Names
  /\ posts \in Nat /\ deletions \in Nat
  /\ pc \in [Handlers -> Labels]
  /\ ctx \in [Handlers -> Ctx]

Init ==
  /\ clusters = <<>>
  /\ committed = {}
  /\ namespace = [n \in Names |-> [w \in Where |-> "absent"]]
  /\ applied = [n \in Names |-> {}]
  /\ config = {}
  /\ posts = 0 /\ deletions = 0
  /\ pc = [h \in Handlers |-> "idle"]
  /\ ctx = [h \in Handlers |-> IdleCtx]

-----------------------------------------------------------------------------
Goto(h, from, to) == pc[h] = from /\ pc' = [pc EXCEPT ![h] = to]

Return(h, from) == Goto(h, from, "idle") /\ ctx' = [ctx EXCEPT ![h] = IdleCtx]

\* getClusterID: the first row of the name, 0 if there is none.
Ids(n) == {i \in committed : clusters[i] = n}
LastClusterID(n) ==
  IF Ids(n) = {} THEN 0 ELSE CHOOSE i \in Ids(n) : \A j \in Ids(n) : j <= i
ClusterID(n) ==
  IF Ids(n) = {} THEN 0 ELSE CHOOSE i \in Ids(n) : \A j \in Ids(n) : i <= j

\* getVclusterConfig, behind the lookup of the cluster.
Reachable(n) == ClusterID(n) # 0 /\ n \in config

Begin(h, to, c) ==
  /\ posts < MaxPosts
  /\ posts' = posts + 1
  /\ Goto(h, "idle", to)
  /\ ctx' = [ctx EXCEPT ![h] = c]

\* AddCluster up to the Find of its FirstOrCreate.  A request without a name is
\* refused; it may bring a manifest of its own, which is applied after that of
\* the vcluster.
AddClusterAnyName(h, n, left) ==
  /\ Begin(h, IF ClusterID(n) = 0 THEN "cluster_create" ELSE "namespace_get",
           [name |-> n, id |-> 0, where |-> "host", left |-> left])
  /\ UNCHANGED <<clusters, committed, namespace, applied, config, deletions>>
AddClusterWithoutRow(h, n, left) ==
  /\ n # Null
  /\ Begin(h, "namespace_get",
           [name |-> n, id |-> 0, where |-> "host", left |-> left])
  /\ UNCHANGED <<clusters, committed, namespace, applied, config, deletions>>
AddCluster(h, n, left) ==
  /\ n # Null
  /\ Begin(h, IF ClusterID(n) = 0 THEN "cluster_create" ELSE "namespace_get",
           [name |-> n, id |-> 0, where |-> "host", left |-> left])
  /\ UNCHANGED <<clusters, committed, namespace, applied, config, deletions>>

\* ... and its Create: the INSERT, as no index makes the name unique ...
ClusterCreate(h) ==
  /\ Goto(h, "cluster_create", "cluster_commit")
  /\ clusters' = Append(clusters, ctx[h].name)
  /\ ctx' = [ctx EXCEPT ![h].id = Len(clusters) + 1]
  /\ UNCHANGED <<committed, namespace, applied, config, posts, deletions>>

\* ... and the COMMIT.
ClusterCommit(h) ==
  /\ Goto(h, "cluster_commit", "namespace_get")
  /\ committed' = committed \cup {ctx[h].id}
  /\ UNCHANGED <<clusters, namespace, applied, config, posts, deletions, ctx>>

\* createNamespace: Get, and Create if it is not found.
NamespaceGet(h) ==
  /\ Goto(h, "namespace_get",
          IF namespace[ctx[h].name]["host"] = "absent" THEN "namespace_create" ELSE "apply")
  /\ UNCHANGED <<clusters, committed, namespace, applied, config, posts, deletions, ctx>>

\* That a namespace exists by then, or still exists while it is deleted, is not
\* an error of its Create.
Created(n, w) ==
  IF namespace[n][w] = "absent" THEN [namespace EXCEPT ![n][w] = "active"] ELSE namespace

NamespaceCreate(h) ==
  /\ Goto(h, "namespace_create", "apply")
  /\ namespace' = Created(ctx[h].name, "host")
  /\ UNCHANGED <<clusters, committed, applied, config, posts, deletions, ctx>>

\* SyncEvent with the dependencies of a resource.
SyncDependencies(h, n) ==
  /\ Reachable(n)
  /\ Begin(h, "apply", [name |-> n, id |-> 0, where |-> "vcluster", left |-> 1])
  /\ UNCHANGED <<clusters, committed, namespace, applied, config, deletions>>

\* A call to where the manifest goes gets an answer.
Answers(h) == ctx[h].where = "vcluster" => ctx[h].name \in config

\* applyRawManifest.  The last manifest ends the request.
Apply(h) ==
  LET n == ctx[h].name w == ctx[h].where IN
  /\ pc[h] = "apply"
  /\ Answers(h)
  /\ namespace[n][w] = "active"
  /\ applied' = [applied EXCEPT ![n] = @ \cup {w}]
  /\ \/ /\ ctx[h].left > 1
        /\ Goto(h, "apply", "apply")
        /\ ctx' = [ctx EXCEPT ![h].left = @ - 1]
     \/ /\ ctx[h].left = 1
        /\ Return(h, "apply")
  /\ UNCHANGED <<clusters, committed, namespace, config, posts, deletions>>

\* If the namespace is not found it is created, and applyRawManifest calls
\* itself, with no limit; any other error ends the request.
ApplyNotFound(h) ==
  /\ pc[h] = "apply"
  /\ Answers(h)
  /\ namespace[ctx[h].name][ctx[h].where] = "absent"
  /\ Goto(h, "apply", "namespace_again")
  /\ UNCHANGED <<clusters, committed, namespace, applied, config, posts, deletions, ctx>>

ApplyFails(h) ==
  /\ \/ pc[h] \in {"apply", "namespace_again"} /\ ~Answers(h)
     \/ pc[h] = "apply" /\ namespace[ctx[h].name][ctx[h].where] = "terminating"
  /\ Return(h, pc[h])
  /\ UNCHANGED <<clusters, committed, namespace, applied, config, posts, deletions>>

NamespaceAgainNotCreated(h) ==
  /\ pc[h] = "namespace_again"
  /\ Answers(h)
  /\ Goto(h, "namespace_again", "apply")
  /\ UNCHANGED <<clusters, committed, namespace, applied, config, posts, deletions, ctx>>
NamespaceAgain(h) ==
  /\ pc[h] = "namespace_again"
  /\ Answers(h)
  /\ Goto(h, "namespace_again", "apply")
  /\ namespace' = Created(ctx[h].name, ctx[h].where)
  /\ UNCHANGED <<clusters, committed, applied, config, posts, deletions, ctx>>

\* A statement or call fails, or the process dies: a row that is not committed is
\* rolled back.
Fail(h) ==
  /\ Faults
  /\ pc[h] # "idle"
  /\ Return(h, pc[h])
  /\ UNCHANGED <<clusters, committed, namespace, applied, config, posts, deletions>>

-----------------------------------------------------------------------------
\* The vcluster comes up and writes its secret.
VclusterUp(n) ==
  /\ n \notin config
  /\ "host" \in applied[n]
  /\ namespace[n]["host"] = "active"
  /\ config' = config \cup {n}
  /\ UNCHANGED <<clusters, committed, namespace, applied, posts, deletions, pc, ctx>>

\* Somebody deletes a namespace ...
DeleteNamespace(n, w) ==
  /\ deletions < MaxDeletions
  /\ namespace[n][w] = "active"
  /\ deletions' = deletions + 1
  /\ namespace' = [namespace EXCEPT ![n][w] = "terminating"]
  /\ UNCHANGED <<clusters, committed, applied, config, posts, pc, ctx>>

\* ... and later it is gone with what is in it, on the host the vcluster.
NamespaceGone(n, w) ==
  LET gone == IF w = "host" THEN Where ELSE {w} IN
  /\ namespace[n][w] = "terminating"
  /\ namespace' = [namespace EXCEPT ![n] = [v \in Where |-> IF v \in gone THEN "absent" ELSE @[v]]]
  /\ applied' = [applied EXCEPT ![n] = @ \ gone]
  /\ config' = IF w = "host" THEN config \ {n} ELSE config
  /\ UNCHANGED <<clusters, committed, posts, deletions, pc, ctx>>

Request(h) ==
  \/ \E n \in Names \cup {Null}, left \in 1 .. 2 : AddCluster(h, n, left)
  \/ \E n \in Names : SyncDependencies(h, n)

Step(h) ==
  \/ ClusterCreate(h) \/ ClusterCommit(h) \/ NamespaceGet(h) \/ NamespaceCreate(h)
  \/ Apply(h) \/ ApplyNotFound(h) \/ ApplyFails(h) \/ NamespaceAgain(h)

Host ==
  \E n \in Names :
    VclusterUp(n) \/ \E w \in Where : DeleteNamespace(n, w) \/ NamespaceGone(n, w)

\* The bound on requests is used up and the server waits.
Waiting ==
  /\ \A h \in Handlers : pc[h] = "idle"
  /\ posts = MaxPosts
  /\ UNCHANGED vars

Next == Host \/ Waiting \/ \E h \in Handlers : Request(h) \/ Step(h) \/ Fail(h)

Spec == Init /\ [][Next]_vars

\* Every handler goes on.
FairSpec == Spec /\ \A h \in Handlers : WF_vars(Step(h))

-----------------------------------------------------------------------------
(***************************************************************************)
(* Properties.                                                             *)
(***************************************************************************)

\* h has inserted a row that will be the first of the name's once it is committed.
Rival(h, n) ==
  pc[h] = "cluster_commit" /\ ctx[h].name = n /\ \A i \in Ids(n) : ctx[h].id < i

\* The name is registered, and no registration that drew a lower id is under way.
Settled(n) == Ids(n) # {} /\ ~\E h \in Handlers : Rival(h, n)

\* The id that a cluster's name stands for never changes once the registrations
\* that overlapped the first one are over, although they store the name twice:
\* resources are kept under that id.
NameKeepsItsId ==
  [][\A n \in Names : Settled(n) => Settled(n)' /\ ClusterID(n)' = ClusterID(n)]_vars

\* A vcluster only ever runs for a registered cluster, whatever fails between
\* the row, the namespace and the manifest.
VclusterIsRegistered == \A n \in config : ClusterID(n) # 0

\* A request ends, although a manifest is applied again as long as its
\* namespace is missing, if namespaces are not deleted without end.
RequestEnds == \A h \in Handlers : pc[h] # "idle" ~> pc[h] = "idle"
=============================================================================
