-------------------------- MODULE VclusterBootProofs --------------------------
(***************************************************************************)
(* Proofs about VclusterBoot for any number of names, handlers, requests   *)
(* and deletions, with and without faults.                                 *)
(*                                                                         *)
(* The id of a name is its lowest that can be read.  IInv says that a      *)
(* handler that commits has inserted a row of its cluster, and that one    *)
(* that applies a manifest on the host has registered its cluster before.  *)
(***************************************************************************)
EXTENDS VclusterBoot, NatFacts, TLAPS

\* i is the row that First returns for name n.
FirstRow(n, i) == i \in Ids(n) /\ \A j \in Ids(n) : i <= j

\* A request has a name, whose row it has inserted before it commits, and
\* which is registered before anything is applied on the host.
PastRow == Labels \ {"idle", "cluster_create", "cluster_commit"}
HandlerOK(h) ==
  /\ pc[h] # "idle" => ctx[h].name \in Names
  /\ pc[h] = "cluster_commit" =>
       ctx[h].id \in DOMAIN clusters /\ clusters[ctx[h].id] = ctx[h].name
  /\ pc[h] \in PastRow /\ ctx[h].where = "host" => Ids(ctx[h].name) # {}

\* What is applied on the host or has come up there is of a registered cluster.
HostOK == \A n \in Names : "host" \in applied[n] \/ n \in config => Ids(n) # {}

IInv ==
  /\ TypeOK
  /\ \A h \in Handlers : HandlerOK(h)
  /\ HostOK

\* Nobody gets to a COMMIT.
NoNewCommit ==
  \A h \in Handlers : pc'[h] = "cluster_commit" => pc[h] = "cluster_commit" /\ ctx'[h] = ctx[h]

\* What a step does to the rows.
RowStep ==
  \/ UNCHANGED <<clusters, committed>> /\ NoNewCommit
  \/ \E h \in Handlers : ClusterCreate(h) \/ ClusterCommit(h)

-----------------------------------------------------------------------------
LEMMA LeastIsUnique ==
  ASSUME NEW S \in SUBSET Nat, NEW i \in S, \A j \in S : i <= j
  PROVE  (CHOOSE x \in S : \A j \in S : x <= j) = i
<1> DEFINE f == CHOOSE x \in S : \A j \in S : x <= j
<1>1. f \in S /\ \A j \in S : f <= j
  OBVIOUS
<1> HIDE DEF f
<1>2. f = i
  <2>1. f <= i /\ i <= f /\ f \in Nat /\ i \in Nat
    BY <1>1
  <2>2. QED
    BY <2>1
<1>3. QED
  BY <1>2 DEF f

LEMMA IdsAreNumbers ==
  ASSUME TypeOK, NEW n
  PROVE  Ids(n) \in SUBSET Nat /\ 0 \notin Ids(n)
BY DEF TypeOK, Ids

LEMMA FirstExists ==
  ASSUME TypeOK, NEW n \in Names, Ids(n) # {}
  PROVE  \E i \in Nat : FirstRow(n, i)
<1>1. \E i \in Ids(n) : \A j \in Ids(n) : i <= j
  BY IdsAreNumbers, SmallestNat
<1>2. QED
  BY <1>1, IdsAreNumbers DEF FirstRow

LEMMA IdIsFirst ==
  ASSUME NEW n \in Names, NEW i, TypeOK, FirstRow(n, i)
  PROVE  ClusterID(n) = i
<1>1. Ids(n) \in SUBSET Nat
  BY IdsAreNumbers
<1>2. i \in Ids(n) /\ \A j \in Ids(n) : i <= j
  BY DEF FirstRow
<1>3. (CHOOSE x \in Ids(n) : \A j \in Ids(n) : x <= j) = i
  BY <1>1, <1>2, LeastIsUnique
<1>4. QED
  BY <1>2, <1>3 DEF ClusterID

LEMMA IdIsFirstNext ==
  ASSUME NEW n \in Names, NEW i, TypeOK', FirstRow(n, i)'
  PROVE  ClusterID(n)' = i
<1>1. Ids(n)' \in SUBSET Nat
  BY DEF TypeOK, Ids
<1>2. i \in Ids(n)' /\ \A j \in Ids(n)' : i <= j
  BY DEF FirstRow
<1>3. (CHOOSE x \in Ids(n)' : \A j \in Ids(n)' : x <= j) = i
  BY <1>1, <1>2, LeastIsUnique
<1>4. QED
  BY <1>2, <1>3 DEF ClusterID

\* A registered name stands for one of its rows, which are numbered from 1.
LEMMA RegisteredHasId ==
  ASSUME TypeOK, NEW n \in Names, Ids(n) # {}
  PROVE  ClusterID(n) \in Ids(n) /\ ClusterID(n) # 0
<1>1. PICK i \in Nat : FirstRow(n, i)
  BY FirstExists
<1>2. ClusterID(n) = i
  BY <1>1, IdIsFirst
<1>3. i \in Ids(n) /\ i # 0
  BY <1>1, IdsAreNumbers DEF FirstRow
<1>4. QED
  BY <1>2, <1>3

-----------------------------------------------------------------------------
(***************************************************************************)
(* Every step keeps IInv.                                                  *)
(***************************************************************************)
LEMMA InitOK == Init => IInv
<1> SUFFICES ASSUME Init PROVE IInv
  OBVIOUS
<1>1. \A n \in Names : Ids(n) = {}
  BY DEF Init, Ids
<1>2. TypeOK
  BY DEF Init, TypeOK, IdleCtx, Ctx, Labels, Where
<1>3. QED
  BY <1>1, <1>2 DEF Init, IInv, HandlerOK, PastRow, HostOK

\* A handler moves to label l with locals c, and its cluster is registered if
\* these need it.
LEMMA HandlersOK ==
  ASSUME IInv, NEW h \in Handlers, NEW l \in Labels, NEW c \in Ctx,
         pc' = [pc EXCEPT ![h] = l], ctx' = [ctx EXCEPT ![h] = c],
         \A n \in Names : Ids(n) \subseteq Ids(n)',
         \A i \in DOMAIN clusters : i \in DOMAIN clusters' /\ clusters'[i] = clusters[i],
         l # "idle" => c.name \in Names,
         l = "cluster_commit" => c.id \in DOMAIN clusters' /\ clusters'[c.id] = c.name,
         l \in PastRow /\ c.where = "host" => Ids(c.name)' # {}
  PROVE  /\ pc' \in [Handlers -> Labels] /\ ctx' \in [Handlers -> Ctx]
         /\ \A g \in Handlers : HandlerOK(g)'
         /\ l # "cluster_commit" => NoNewCommit
<1>1. pc' \in [Handlers -> Labels] /\ ctx' \in [Handlers -> Ctx]
  BY DEF IInv, TypeOK
<1>2. ASSUME NEW g \in Handlers, g # h
      PROVE  HandlerOK(g)'
  <2>1. pc'[g] = pc[g] /\ ctx'[g] = ctx[g] /\ HandlerOK(g)
    BY <1>2 DEF IInv, TypeOK
  <2>2. PICK n : n = ctx[g].name
    OBVIOUS
  <2>3. n \in Names /\ Ids(n) # {} => Ids(n)' # {}
    OBVIOUS
  <2>4. QED
    BY <2>1, <2>2, <2>3 DEF HandlerOK, PastRow
<1>3. pc'[h] = l /\ ctx'[h] = c
  BY DEF IInv, TypeOK
<1>4. HandlerOK(h)'
  BY <1>3 DEF HandlerOK
<1>5. l # "cluster_commit" => NoNewCommit
  BY <1>3 DEF NoNewCommit, IInv, TypeOK
<1>6. QED
  BY <1>1, <1>2, <1>4, <1>5

\* Steps of a handler that change no row, and leave the host alone.
LEMMA RowsStay ==
  ASSUME IInv, TypeOK', UNCHANGED <<clusters, committed>>, \A h \in Handlers : HandlerOK(h)',
         \A n \in Names : ("host" \in applied[n] \/ n \in config)' =>
                          "host" \in applied[n] \/ n \in config \/ Ids(n) # {}
  PROVE  IInv'
<1>1. \A n : Ids(n)' = Ids(n)
  BY DEF Ids
<1>2. HostOK'
  BY <1>1 DEF IInv, HostOK
<1>3. QED
  BY <1>2 DEF IInv

LEMMA BeginOK ==
  ASSUME IInv, NEW h \in Handlers, NEW l \in Labels \ {"idle", "cluster_commit"}, NEW c \in Ctx,
         Begin(h, l, c),
         UNCHANGED <<clusters, committed, namespace, applied, config, deletions>>,
         c.name \in Names, l \in PastRow /\ c.where = "host" => Ids(c.name) # {}
  PROVE  IInv' /\ NoNewCommit
<1>1. pc' = [pc EXCEPT ![h] = l] /\ ctx' = [ctx EXCEPT ![h] = c] /\ posts' = posts + 1
  BY DEF Begin, Goto
<1>2. \A n : Ids(n)' = Ids(n)
  BY DEF Ids
<1>3. /\ pc' \in [Handlers -> Labels] /\ ctx' \in [Handlers -> Ctx]
      /\ \A g \in Handlers : HandlerOK(g)'
      /\ NoNewCommit
  BY <1>1, <1>2, HandlersOK
<1>4. TypeOK'
  BY <1>1, <1>3 DEF IInv, TypeOK
<1>5. QED
  BY <1>3, <1>4, RowsStay

LEMMA RequestOK ==
  ASSUME IInv, NEW h \in Handlers, Request(h)
  PROVE  IInv' /\ NoNewCommit
<1>1. ASSUME NEW n \in Names \cup {Null}, NEW left \in 1 .. 2, AddCluster(h, n, left)
      PROVE  IInv' /\ NoNewCommit
  <2>1. n \in Names
    BY <1>1 DEF AddCluster
  <2> DEFINE c == [name |-> n, id |-> 0, where |-> "host", left |-> left]
  <2>2. c \in Ctx /\ c.name = n
    BY <2>1 DEF Ctx, Where
  <2>3. CASE ClusterID(n) = 0
    <3>1. Begin(h, "cluster_create", c)
      BY <1>1, <2>3 DEF AddCluster
    <3>2. QED
      BY <1>1, <2>1, <2>2, <3>1, BeginOK DEF AddCluster, Labels, PastRow
  <2>4. CASE ClusterID(n) # 0
    <3>1. Begin(h, "namespace_get", c) /\ Ids(n) # {}
      BY <1>1, <2>4 DEF AddCluster, ClusterID
    <3>2. QED
      BY <1>1, <2>1, <2>2, <3>1, BeginOK DEF AddCluster, Labels, PastRow
  <2>5. QED
    BY <2>3, <2>4
<1>2. ASSUME NEW n \in Names, SyncDependencies(h, n)
      PROVE  IInv' /\ NoNewCommit
  <2> DEFINE c == [name |-> n, id |-> 0, where |-> "vcluster", left |-> 1]
  <2>1. c \in Ctx /\ c.name = n /\ c.where # "host"
    BY DEF Ctx, Where
  <2>2. Begin(h, "apply", c)
    BY <1>2 DEF SyncDependencies
  <2>3. QED
    BY <1>2, <2>1, <2>2, BeginOK DEF SyncDependencies, Labels
<1>3. QED
  BY <1>1, <1>2 DEF Request

\* What one more row changes of those that can be read: nothing.
LEMMA InsertedRow ==
  ASSUME TypeOK, NEW m \in Names, clusters' = Append(clusters, m), UNCHANGED committed,
         NEW k \in Nat, k = Len(clusters) + 1
  PROVE  /\ clusters' \in Seq(Names) /\ DOMAIN clusters \subseteq DOMAIN clusters'
         /\ k \in DOMAIN clusters' /\ clusters'[k] = m
         /\ \A i \in DOMAIN clusters : clusters'[i] = clusters[i]
         /\ \A i \in committed : i \in Nat /\ i < k
         /\ \A n : Ids(n)' = Ids(n)
<1>1. \A i \in DOMAIN clusters : clusters'[i] = clusters[i] /\ i \in Nat /\ i < k
  BY DEF TypeOK
<1>2. \A n : Ids(n)' = Ids(n)
  BY <1>1 DEF TypeOK, Ids
<1>3. QED
  BY <1>1, <1>2 DEF TypeOK

LEMMA ClusterCreateOK ==
  ASSUME IInv, NEW h \in Handlers, ClusterCreate(h)
  PROVE  IInv'
<1> PICK n \in Names : n = ctx[h].name
  BY DEF ClusterCreate, Goto, IInv, HandlerOK
<1> PICK k \in Nat : k = Len(clusters) + 1
  BY DEF IInv, TypeOK
<1>1. /\ clusters' = Append(clusters, n)
      /\ pc[h] = "cluster_create" /\ pc' = [pc EXCEPT ![h] = "cluster_commit"]
      /\ ctx' = [ctx EXCEPT ![h].id = k]
      /\ UNCHANGED <<committed, namespace, applied, config, posts, deletions>>
  BY DEF ClusterCreate, Goto
<1>2. /\ clusters' \in Seq(Names) /\ DOMAIN clusters \subseteq DOMAIN clusters'
      /\ k \in DOMAIN clusters' /\ clusters'[k] = n
      /\ \A i \in DOMAIN clusters : clusters'[i] = clusters[i]
      /\ \A m : Ids(m)' = Ids(m)
  BY <1>1, InsertedRow DEF IInv
<1>3. /\ pc' \in [Handlers -> Labels] /\ ctx' \in [Handlers -> Ctx]
      /\ \A g \in Handlers : HandlerOK(g)'
  <2> PICK c \in Ctx : c = [ctx[h] EXCEPT !.id = k]
    BY DEF IInv, TypeOK, Ctx
  <2>1. ctx' = [ctx EXCEPT ![h] = c]
    BY <1>1 DEF IInv, TypeOK
  <2>2. c.name = n /\ c.id = k
    BY DEF IInv, TypeOK, Ctx
  <2>3. "cluster_commit" \in Labels \ PastRow
    BY DEF Labels, PastRow
  <2>4. \A i \in DOMAIN clusters : i \in DOMAIN clusters' /\ clusters'[i] = clusters[i]
    BY <1>2
  <2>5. \A m \in Names : Ids(m) \subseteq Ids(m)'
    BY <1>2
  <2>6. "cluster_commit" \in Labels /\ "cluster_commit" \notin PastRow
    BY <2>3
  <2>7. c.id \in DOMAIN clusters' /\ clusters'[c.id] = c.name
    BY <1>2, <2>2
  <2> PICK l \in Labels : l = "cluster_commit"
    BY <2>6
  <2>8. pc' = [pc EXCEPT ![h] = l] /\ c.name \in Names /\ l \notin PastRow
    BY <1>1, <2>2, <2>6
  <2>9. QED
    BY <2>1, <2>4, <2>5, <2>7, <2>8, HandlersOK
<1>4. TypeOK'
  BY <1>1, <1>2, <1>3 DEF IInv, TypeOK
<1>5. HostOK'
  BY <1>1, <1>2 DEF IInv, HostOK
<1>6. QED
  BY <1>3, <1>4, <1>5 DEF IInv

\* What a COMMIT changes of them.
LEMMA CommittedRow ==
  ASSUME IInv, NEW h \in Handlers, ClusterCommit(h)
  PROVE  /\ ctx[h].name \in Names /\ ctx[h].id \in DOMAIN clusters /\ ctx[h].id \in Nat
         /\ \A n : Ids(n)' = IF n = ctx[h].name THEN Ids(n) \cup {ctx[h].id} ELSE Ids(n)
         /\ UNCHANGED clusters
<1>1. /\ pc[h] = "cluster_commit" /\ committed' = committed \cup {ctx[h].id}
      /\ UNCHANGED clusters
  BY DEF ClusterCommit, Goto
<1>2. /\ ctx[h].name \in Names /\ ctx[h].id \in DOMAIN clusters
      /\ clusters[ctx[h].id] = ctx[h].name
  BY <1>1 DEF IInv, HandlerOK
<1>3. ctx[h].id \in Nat
  BY DEF IInv, TypeOK, Ctx
<1>4. QED
  BY <1>1, <1>2, <1>3 DEF Ids

LEMMA ClusterCommitOK ==
  ASSUME IInv, NEW h \in Handlers, ClusterCommit(h)
  PROVE  IInv' /\ NoNewCommit
<1> PICK c \in Ctx : c = ctx[h]
  BY DEF IInv, TypeOK
<1>1. /\ pc' = [pc EXCEPT ![h] = "namespace_get"] /\ ctx' = [ctx EXCEPT ![h] = c]
      /\ committed' = committed \cup {c.id}
      /\ UNCHANGED <<clusters, namespace, applied, config, posts, deletions, ctx>>
  BY DEF ClusterCommit, Goto, IInv, TypeOK
<1>2. /\ c.name \in Names /\ c.id \in DOMAIN clusters
      /\ \A n : Ids(n)' = IF n = c.name THEN Ids(n) \cup {c.id} ELSE Ids(n)
  BY CommittedRow
<1>3. /\ pc' \in [Handlers -> Labels] /\ ctx' \in [Handlers -> Ctx]
      /\ \A g \in Handlers : HandlerOK(g)'
  <2>1. "namespace_get" \in Labels
    BY DEF Labels
  <2>2. \A n \in Names : Ids(n) \subseteq Ids(n)'
    BY <1>2
  <2>3. Ids(c.name)' # {}
    BY <1>2
  <2>4. QED
    BY <1>1, <1>2, <2>1, <2>2, <2>3, HandlersOK
<1>4. TypeOK'
  BY <1>1, <1>2, <1>3 DEF IInv, TypeOK
<1>5. HostOK'
  BY <1>1, <1>2 DEF IInv, HostOK
<1>6. NoNewCommit
  BY <1>1 DEF NoNewCommit, IInv, TypeOK
<1>7. QED
  BY <1>3, <1>4, <1>5, <1>6 DEF IInv

LEMMA CreatedTyped ==
  ASSUME TypeOK, NEW n \in Names, NEW w \in Where
  PROVE  Created(n, w) \in [Names -> [Where -> {"absent", "active", "terminating"}]]
BY DEF TypeOK, Created

\* A handler goes on, from a label past the row to another.
LEMMA GoesOnOK ==
  ASSUME IInv, NEW h \in Handlers, NEW from \in PastRow, NEW to \in PastRow, Goto(h, from, to),
         UNCHANGED <<clusters, committed, applied, config, posts, deletions, ctx>>,
         namespace' \in [Names -> [Where -> {"absent", "active", "terminating"}]]
  PROVE  IInv' /\ NoNewCommit
<1> PICK c \in Ctx : c = ctx[h]
  BY DEF IInv, TypeOK
<1>1. pc[h] = from /\ pc' = [pc EXCEPT ![h] = to] /\ ctx' = [ctx EXCEPT ![h] = c]
  BY DEF Goto, IInv, TypeOK
<1>2. \A n : Ids(n)' = Ids(n)
  BY DEF Ids
<1>3. to \in Labels \ {"idle", "cluster_commit"} /\ c.name \in Names /\ (c.where = "host" => Ids(c.name) # {})
  BY <1>1 DEF IInv, HandlerOK, PastRow
<1>4. NoNewCommit /\ \A g \in Handlers : HandlerOK(g)'
  BY <1>1, <1>2, <1>3, HandlersOK
<1>5. TypeOK'
  BY <1>1, <1>3 DEF IInv, TypeOK
<1>6. QED
  BY <1>4, <1>5, RowsStay

\* A handler's request ends.
LEMMA EndsOK ==
  ASSUME IInv, NEW h \in Handlers, Return(h, pc[h]), UNCHANGED <<clusters, committed, posts, deletions>>,
         UNCHANGED <<namespace, config>>, applied' \in [Names -> SUBSET Where],
         \A n \in Names : "host" \in applied'[n] => "host" \in applied[n] \/ Ids(n) # {}
  PROVE  IInv' /\ NoNewCommit
<1>1. pc' = [pc EXCEPT ![h] = "idle"] /\ ctx' = [ctx EXCEPT ![h] = IdleCtx]
  BY DEF Return, Goto
<1>2. \A n : Ids(n)' = Ids(n)
  BY DEF Ids
<1>3. IdleCtx \in Ctx /\ "idle" \in Labels /\ "idle" \notin PastRow
  BY DEF IdleCtx, Ctx, Where, Labels, PastRow
<1>4. /\ pc' \in [Handlers -> Labels] /\ ctx' \in [Handlers -> Ctx]
      /\ \A g \in Handlers : HandlerOK(g)'
      /\ NoNewCommit
  BY <1>1, <1>2, <1>3, HandlersOK
<1>5. TypeOK'
  BY <1>4 DEF IInv, TypeOK
<1>6. QED
  BY <1>4, <1>5, RowsStay

LEMMA ApplyOK ==
  ASSUME IInv, NEW h \in Handlers, Apply(h)
  PROVE  IInv' /\ NoNewCommit
<1> PICK c \in Ctx : c = ctx[h]
  BY DEF IInv, TypeOK
<1>1. /\ pc[h] = "apply" /\ c.name \in Names /\ c.where \in Where
      /\ c.where = "host" => Ids(c.name) # {}
  BY DEF Apply, IInv, HandlerOK, PastRow, Labels, Ctx
<1>2. applied' = [applied EXCEPT ![c.name] = @ \cup {c.where}]
  BY DEF Apply
<1>3. /\ applied' \in [Names -> SUBSET Where]
      /\ \A n \in Names : "host" \in applied'[n] => "host" \in applied[n] \/ Ids(n) # {}
  BY <1>1, <1>2 DEF IInv, TypeOK
<1>4. CASE Return(h, "apply")
  BY <1>1, <1>3, <1>4, EndsOK DEF Apply
<1>5. CASE ctx[h].left > 1 /\ Goto(h, "apply", "apply") /\ ctx' = [ctx EXCEPT ![h].left = @ - 1]
  <2> DEFINE d == [name |-> c.name, id |-> c.id, where |-> c.where, left |-> c.left - 1]
  <2>1. c = [name |-> c.name, id |-> c.id, where |-> c.where, left |-> c.left] /\ c.left \in 0 .. 2 /\ c.left > 1
    BY <1>5 DEF Ctx
  <2>2. [c EXCEPT !.left = @ - 1] = d
    BY <2>1 DEF Ctx
  <2>3. ctx' = [ctx EXCEPT ![h] = d]
    BY <1>5, <2>2 DEF IInv, TypeOK
  <2>4. d \in Ctx /\ d.name = c.name /\ d.where = c.where
    BY <1>1, <2>1 DEF Ctx
  <2>5. pc' = [pc EXCEPT ![h] = "apply"] /\ "apply" \in Labels
    BY <1>5 DEF Goto, Labels
  <2>6. UNCHANGED <<clusters, committed, namespace, config, posts, deletions>> /\ \A n : Ids(n)' = Ids(n)
    BY DEF Apply, Ids
  <2> HIDE DEF d
  <2>7. /\ pc' \in [Handlers -> Labels] /\ ctx' \in [Handlers -> Ctx]
        /\ \A g \in Handlers : HandlerOK(g)'
        /\ NoNewCommit
    <3> PICK e \in Ctx : e = d
      BY <2>4
    <3>1. Ids(e.name)' = Ids(e.name)
      BY <2>6
    <3>2. QED
      BY <1>1, <2>3, <2>4, <2>5, <2>6, <3>1, HandlersOK
  <2>8. TypeOK'
    BY <1>3, <2>6, <2>7 DEF IInv, TypeOK
  <2>9. QED
    BY <1>3, <2>6, <2>7, <2>8, RowsStay
<1>6. QED
  BY <1>4, <1>5 DEF Apply

LEMMA StepOK ==
  ASSUME IInv, NEW h \in Handlers, Step(h) \/ Fail(h)
  PROVE  IInv' /\ RowStep
<1>1. CASE ClusterCreate(h)
  BY <1>1, ClusterCreateOK DEF RowStep
<1>2. CASE NamespaceGet(h)
  <2>1. /\ UNCHANGED <<clusters, committed, namespace, applied, config, posts, deletions, ctx>>
        /\ Goto(h, "namespace_get", "namespace_create") \/ Goto(h, "namespace_get", "apply")
    BY <1>2 DEF NamespaceGet
  <2>2. QED
    BY <2>1, GoesOnOK DEF IInv, TypeOK, PastRow, Labels, RowStep
<1>3. CASE NamespaceCreate(h)
  <2>1. Goto(h, "namespace_create", "apply") /\ ctx[h].name \in Names /\ "host" \in Where
    BY <1>3 DEF NamespaceCreate, Goto, IInv, HandlerOK, Where
  <2>2. namespace' \in [Names -> [Where -> {"absent", "active", "terminating"}]]
    BY <1>3, <2>1, CreatedTyped DEF NamespaceCreate, IInv
  <2>3. QED
    BY <1>3, <2>1, <2>2, GoesOnOK DEF NamespaceCreate, PastRow, Labels, RowStep
<1>4. CASE Apply(h)
  BY <1>4, ApplyOK DEF Apply, RowStep
<1>5. CASE ApplyNotFound(h)
  BY <1>5, GoesOnOK DEF ApplyNotFound, IInv, TypeOK, PastRow, Labels, RowStep
<1>6. CASE ApplyFails(h)
  BY <1>6, EndsOK DEF ApplyFails, IInv, TypeOK, RowStep
<1>7. CASE NamespaceAgain(h)
  <2>1. Goto(h, "namespace_again", "apply") /\ ctx[h].name \in Names /\ ctx[h].where \in Where
    BY <1>7 DEF NamespaceAgain, Goto, IInv, TypeOK, HandlerOK, Ctx
  <2>2. namespace' \in [Names -> [Where -> {"absent", "active", "terminating"}]]
    BY <1>7, <2>1, CreatedTyped DEF NamespaceAgain, IInv
  <2>3. QED
    BY <1>7, <2>1, <2>2, GoesOnOK DEF NamespaceAgain, PastRow, Labels, RowStep
<1>8. CASE Fail(h)
  BY <1>8, EndsOK DEF Fail, IInv, TypeOK, RowStep
<1>9. CASE ClusterCommit(h)
  BY <1>9, ClusterCommitOK DEF RowStep
<1>10. QED
  BY <1>1, <1>2, <1>3, <1>4, <1>5, <1>6, <1>7, <1>8, <1>9 DEF Step

LEMMA HostStepOK ==
  ASSUME IInv, Host
  PROVE  IInv' /\ RowStep
<1>1. \A h \in Handlers : HandlerOK(h)' <=> HandlerOK(h)
  BY DEF Host, VclusterUp, DeleteNamespace, NamespaceGone, HandlerOK, Ids
<1>2. ASSUME NEW n \in Names, VclusterUp(n)
      PROVE  IInv'
  <2>1. TypeOK'
    BY <1>2 DEF VclusterUp, IInv, TypeOK
  <2>2. QED
    BY <1>1, <1>2, <2>1, RowsStay DEF VclusterUp, IInv
<1>3. ASSUME NEW n \in Names, NEW w \in Where, DeleteNamespace(n, w)
      PROVE  IInv'
  <2>1. TypeOK'
    BY <1>3 DEF DeleteNamespace, IInv, TypeOK
  <2>2. QED
    BY <1>1, <1>3, <2>1, RowsStay DEF DeleteNamespace, IInv
<1>4. ASSUME NEW n \in Names, NEW w \in Where, NamespaceGone(n, w)
      PROVE  IInv'
  <2>1. /\ namespace' \in [Names -> [Where -> {"absent", "active", "terminating"}]]
        /\ applied' \in [Names -> SUBSET Where] /\ \A m \in Names : applied'[m] \subseteq applied[m]
        /\ config' \subseteq config
        /\ UNCHANGED <<clusters, committed, posts, deletions, pc, ctx>>
    BY <1>4 DEF NamespaceGone, IInv, TypeOK
  <2>2. TypeOK'
    BY <2>1 DEF IInv, TypeOK
  <2>3. QED
    BY <1>1, <2>1, <2>2, RowsStay DEF IInv
<1>5. RowStep
  BY DEF Host, VclusterUp, DeleteNamespace, NamespaceGone, RowStep, NoNewCommit
<1>6. QED
  BY <1>2, <1>3, <1>4, <1>5 DEF Host

LEMMA NextOK == IInv /\ [Next]_vars => IInv' /\ RowStep
<1> SUFFICES ASSUME IInv, [Next]_vars PROVE IInv' /\ RowStep
  OBVIOUS
<1>1. CASE Host
  BY <1>1, HostStepOK
<1>2. ASSUME NEW h \in Handlers, Request(h)
      PROVE  IInv' /\ RowStep
  <2>1. UNCHANGED <<clusters, committed>>
    BY <1>2 DEF Request, AddCluster, SyncDependencies
  <2>2. QED
    BY <1>2, <2>1, RequestOK DEF RowStep
<1>3. ASSUME NEW h \in Handlers, Step(h) \/ Fail(h)
      PROVE  IInv' /\ RowStep
  BY <1>3, StepOK
<1>4. CASE UNCHANGED vars
  <2>1. \A n : Ids(n)' = Ids(n)
    BY <1>4 DEF vars, Ids
  <2>2. TypeOK' /\ \A h \in Handlers : HandlerOK(h)'
    BY <1>4, <2>1 DEF IInv, TypeOK, HandlerOK, vars
  <2>3. QED
    BY <1>4, <2>2, RowsStay DEF vars, RowStep, NoNewCommit
<1>5. QED
  BY <1>1, <1>2, <1>3, <1>4 DEF Next, Waiting

LEMMA SpecInv == Spec => []IInv
BY InitOK, NextOK, PTL DEF Spec

-----------------------------------------------------------------------------
(***************************************************************************)
(* Theorems.                                                               *)
(***************************************************************************)

\* Every reachable state is well typed.
THEOREM TypeCorrect == Spec => []TypeOK
<1>1. IInv => TypeOK
  BY DEF IInv
<1>2. QED
  BY <1>1, SpecInv, PTL

\* A vcluster only runs for a cluster that AddCluster has registered, however many
\* requests overlap, fail half way or meet the deletion of a namespace.
THEOREM VclustersRegistered == Spec => []VclusterIsRegistered
<1>1. IInv => VclusterIsRegistered
  <2> SUFFICES ASSUME IInv, NEW n \in config PROVE ClusterID(n) # 0
    BY DEF VclusterIsRegistered
  <2>1. n \in Names /\ Ids(n) # {}
    BY DEF IInv, TypeOK, HostOK
  <2>2. QED
    BY <2>1, RegisteredHasId DEF IInv
<1>2. QED
  BY <1>1, SpecInv, PTL

\* A step leaves a settled name settled, with its id.
LEMMA SettledStays ==
  ASSUME IInv, IInv', RowStep, NEW n \in Names, Settled(n)
  PROVE  Settled(n)' /\ ClusterID(n)' = ClusterID(n)
<1>1. PICK i \in Nat : FirstRow(n, i)
  BY FirstExists DEF IInv, Settled
<1>2. i \in Ids(n) /\ \A j \in Ids(n) : j \in Nat /\ i <= j
  BY <1>1, IdsAreNumbers DEF IInv, FirstRow
<1>3. \A g \in Handlers : ctx[g].id \in Nat
  BY DEF IInv, TypeOK, Ctx
<1>4. SUFFICES /\ FirstRow(n, i)'
               /\ \A g \in Handlers : pc'[g] = "cluster_commit" /\ ctx'[g].name = n =>
                                       ~(ctx'[g].id < i)
  <2>1. ClusterID(n) = i /\ ClusterID(n)' = i
    BY <1>1, <1>4, IdIsFirst, IdIsFirstNext DEF IInv
  <2>2. Settled(n)'
    BY <1>4 DEF Settled, Rival, FirstRow
  <2>3. QED
    BY <2>1, <2>2
\* Before the step nobody has inserted a row below the first one.
<1>5. \A g \in Handlers : pc[g] = "cluster_commit" /\ ctx[g].name = n => ~(ctx[g].id < i)
  <2> SUFFICES ASSUME NEW g \in Handlers, pc[g] = "cluster_commit", ctx[g].name = n
               PROVE  ~(ctx[g].id < i)
    OBVIOUS
  <2>1. PICK j \in Ids(n) : ~(ctx[g].id < j)
    BY DEF Settled, Rival
  <2>2. QED
    BY <1>2, <1>3, <2>1
<1>6. CASE UNCHANGED <<clusters, committed>> /\ NoNewCommit
  <2>1. Ids(n)' = Ids(n)
    BY <1>6 DEF Ids
  <2>2. QED
    BY <1>1, <1>5, <1>6, <2>1 DEF FirstRow, NoNewCommit
<1>7. ASSUME NEW h \in Handlers, ClusterCreate(h)
      PROVE  /\ FirstRow(n, i)'
             /\ \A g \in Handlers : pc'[g] = "cluster_commit" /\ ctx'[g].name = n =>
                                     ~(ctx'[g].id < i)
  <2> PICK k \in Nat : k = Len(clusters) + 1
    BY DEF IInv, TypeOK
  <2>1. /\ clusters' = Append(clusters, ctx[h].name) /\ UNCHANGED committed
        /\ ctx[h].name \in Names
        /\ ctx'[h].id = k
        /\ \A g \in Handlers : g # h => pc'[g] = pc[g] /\ ctx'[g] = ctx[g]
    BY <1>7 DEF ClusterCreate, Goto, IInv, TypeOK, HandlerOK, Ctx
  <2>2. Ids(n)' = Ids(n) /\ \A j \in committed : j < k
    BY <2>1, InsertedRow DEF IInv
  <2>3. i < k
    BY <1>2, <2>2 DEF Ids
  <2>4. FirstRow(n, i)'
    BY <1>1, <2>2 DEF FirstRow
  <2>5. ASSUME NEW g \in Handlers, pc'[g] = "cluster_commit", ctx'[g].name = n
        PROVE  ~(ctx'[g].id < i)
    <3>1. CASE g = h
      BY <2>1, <2>3, <3>1
    <3>2. CASE g # h
      BY <1>5, <2>1, <2>5, <3>2
    <3>3. QED
      BY <3>1, <3>2
  <2>6. QED
    BY <2>4, <2>5
<1>8. ASSUME NEW h \in Handlers, ClusterCommit(h)
      PROVE  /\ FirstRow(n, i)'
             /\ \A g \in Handlers : pc'[g] = "cluster_commit" /\ ctx'[g].name = n =>
                                     ~(ctx'[g].id < i)
  <2>1. NoNewCommit
    BY <1>8, ClusterCommitOK
  <2>2. Ids(n)' = IF n = ctx[h].name THEN Ids(n) \cup {ctx[h].id} ELSE Ids(n)
    BY <1>8, CommittedRow
  <2>3. n = ctx[h].name => i <= ctx[h].id
    <3>1. pc[h] = "cluster_commit"
      BY <1>8 DEF ClusterCommit, Goto
    <3>2. QED
      BY <1>3, <1>5, <3>1
  <2>4. FirstRow(n, i)'
    BY <1>2, <2>2, <2>3 DEF FirstRow
  <2>5. QED
    BY <1>5, <2>1, <2>4 DEF NoNewCommit
<1>9. QED
  BY <1>6, <1>7, <1>8 DEF RowStep

\* The id that getClusterID answers for a name never changes once the name is
\* settled, although no index keeps AddCluster from storing the name twice and
\* rows of higher ids may be read first.
THEOREM NamesKeepTheirId == Spec => NameKeepsItsId
<1>1. ASSUME IInv, IInv', [Next]_vars
      PROVE  [\A n \in Names : Settled(n) => Settled(n)' /\ ClusterID(n)' = ClusterID(n)]_vars
  <2>1. RowStep
    BY <1>1, NextOK
  <2>2. QED
    BY <1>1, <2>1, SettledStays
<1>2. QED
  BY <1>1, SpecInv, PTL DEF Spec, NameKeepsItsId
=============================================================================
