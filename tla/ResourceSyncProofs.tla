------------------------- MODULE ResourceSyncProofs -------------------------
(***************************************************************************)
(* Proofs about ResourceSync for every set of resources, keys, handlers    *)
(* and generations, any bound on requests, with and without faults.        *)
(*                                                                         *)
(* The safety invariants are not inductive: they hold because of what the  *)
(* locals of the handlers in flight are known to satisfy.  HandlerOK says  *)
(* what that is, and IInv conjoins it with the invariants.                 *)
(***************************************************************************)
EXTENDS ResourceSync, NatFacts, TLAPS

Sweeping == {"sweep_find", "sweep_save", "sweep_delete"}
Recording == {"spec_find", "spec_create"}
Applying == {"tf_list", "tf_write"}

\* A request in flight works for a resource and a generation.
HasSpec(h) == pc[h] # "idle" => ctx[h].spec \in SpecId

\* Until its spec row is stored, a POST or PUT carries a row of its generation.
CarriesRow(h) ==
  pc[h] \in {"add_create", "update_save"} \cup Sweeping \cup Recording =>
    /\ ctx[h].kind \in {"add", "update"}
    /\ ctx[h].row \in Row
    /\ ctx[h].row.gen = ctx[h].spec.gen

\* A row about to be written is undeleted and, where one is stored already,
\* has the stored creation time.
WritesLiveRow(h) ==
  /\ pc[h] = "add_create" => ~ctx[h].row.deleted
  /\ pc[h] \in {"update_save", "status_save"} =>
       /\ ctx[h].row \in Row
       /\ ~ctx[h].row.deleted
       /\ resources[ctx[h].spec.uuid] # Null
       /\ ctx[h].row.created = resources[ctx[h].spec.uuid].created

\* What a handler has stored before it gets where it stands.
HasStored(h) ==
  /\ pc[h] \in Sweeping \cup Recording \cup Applying \cup {"token", "rerun_update"} =>
       resources[ctx[h].spec.uuid] # Null
  /\ pc[h] \in Applying \cup {"token", "rerun_update"} =>
       specs[ctx[h].spec.uuid][ctx[h].spec.gen] > 0
  /\ pc[h] \in Applying \cup {"rerun_update"} => secrets[KeyFor(h)] # Null

HasSeen(h) ==
  pc[h] \in {"rerun_update", "status_find"} =>
    /\ ctx[h].seen \in Tf
    /\ SpecOf(ctx[h].seen) = ctx[h].spec

\* The rows a sweep read are copies of rows that a newer one supersedes.
SweepsSuperseded(h) ==
  \A u \in Uuids : ctx[h].olds[u] # Null =>
    /\ resources[u] # Null
    /\ ~ctx[h].olds[u].deleted
    /\ ctx[h].olds[u].created = resources[u].created
    /\ \E v \in Uuids : /\ KeyOf[v] = KeyOf[u]
                        /\ resources[v] # Null
                        /\ resources[v].created > resources[u].created

HandlerOK(h) ==
  /\ HasSpec(h)
  /\ CarriesRow(h)
  /\ WritesLiveRow(h)
  /\ HasStored(h)
  /\ HasSeen(h)
  /\ SweepsSuperseded(h)

IInv ==
  /\ TypeOK
  /\ NewestIsLive
  /\ AppliedIsRecorded
  /\ \A h \in Handlers : HandlerOK(h)

-----------------------------------------------------------------------------
(***************************************************************************)
(* What no step takes back: a stored row keeps its place and its creation  *)
(* time (soft deletion included), and spec rows and secrets stay.          *)
(***************************************************************************)
RowsKept ==
  \A u \in Uuids : resources[u] # Null =>
    resources'[u] # Null /\ resources'[u].created = resources[u].created

SpecsKept ==
  \A s \in SpecId : specs[s.uuid][s.gen] > 0 => specs'[s.uuid][s.gen] > 0

SecretsKept == \A k \in Keys : secrets[k] # Null => secrets'[k] # Null

Kept == RowsKept /\ SpecsKept /\ SecretsKept

\* The only rows a step soft-deletes are superseded ones.
DeletesSuperseded ==
  \A u \in Uuids : resources'[u] # Null /\ resources'[u].deleted =>
    \/ resources[u] # Null /\ resources[u].deleted
    \/ \E v \in Uuids : /\ KeyOf[v] = KeyOf[u]
                        /\ resources[v] # Null /\ resources[u] # Null
                        /\ resources[v].created > resources[u].created

\* What a handler knows survives the steps of every other process.
LEMMA BystanderOK ==
  ASSUME NEW i \in Handlers, TypeOK, HandlerOK(i), Kept,
         pc'[i] = pc[i], ctx'[i] = ctx[i]
  PROVE  HandlerOK(i)'
<1> USE KeysAssumption DEF HandlerOK, Kept
<1>1. HasSpec(i)' /\ CarriesRow(i)' /\ HasSeen(i)'
  BY DEF HasSpec, CarriesRow, HasSeen
<1>2. pc[i] # "idle" => ctx[i].spec.uuid \in Uuids /\ ctx[i].spec \in SpecId
  BY DEF HasSpec, SpecId
<1>3. WritesLiveRow(i)'
  BY <1>2 DEF WritesLiveRow, RowsKept
<1>4. HasStored(i)'
  <2>1. pc[i] # "idle" => KeyFor(i) \in Keys /\ KeyFor(i)' = KeyFor(i)
    BY <1>2 DEF KeyFor
  <2>2. QED
    BY <1>2, <2>1 DEF HasStored, RowsKept, SpecsKept, SecretsKept, Sweeping, Recording, Applying
<1>5. SweepsSuperseded(i)'
  BY DEF SweepsSuperseded, RowsKept
<1>6. QED
  BY <1>1, <1>3, <1>4, <1>5

\* Soft-deleting superseded rows only, and keeping creation times, leaves the
\* newest row of every key live.
LEMMA NewestStaysLive ==
  ASSUME TypeOK, NewestIsLive, RowsKept, DeletesSuperseded
  PROVE  NewestIsLive'
<1> SUFFICES ASSUME NEW u \in Uuids, resources'[u] # Null, resources'[u].deleted,
                    \A v \in Uuids : resources'[v] # Null /\ KeyOf[v] = KeyOf[u]
                                       => resources'[v].created <= resources'[u].created
             PROVE  FALSE
  BY DEF NewestIsLive
<1>1. CASE resources[u] # Null /\ resources[u].deleted
  <2>1. \A v \in Uuids : resources[v] # Null /\ KeyOf[v] = KeyOf[u]
                           => resources[v].created <= resources[u].created
    BY <1>1 DEF RowsKept
  <2>2. QED
    BY <1>1, <2>1 DEF NewestIsLive
<1>2. ASSUME NEW v \in Uuids, KeyOf[v] = KeyOf[u], resources[v] # Null, resources[u] # Null,
             resources[v].created > resources[u].created
      PROVE  FALSE
  <2>1. resources'[v].created > resources'[u].created
    BY <1>2 DEF RowsKept
  <2>2. resources[u] \in Row /\ resources[v] \in Row
    BY <1>2 DEF TypeOK
  <2>3. resources'[v].created \in Nat /\ resources'[u].created \in Nat
    BY <2>2, <1>2 DEF RowsKept, Row
  <2>4. resources'[v].created <= resources'[u].created
    BY <1>2 DEF RowsKept
  <2>5. QED
    BY <2>1, <2>3, <2>4
<1>3. QED
  BY <1>1, <1>2 DEF DeletesSuperseded

LEMMA InitOK == Init => IInv
<1> SUFFICES ASSUME Init PROVE IInv
  OBVIOUS
<1>1. TypeOK
  BY GenerationsAssumption DEF Init, TypeOK, Labels, Ctx, IdleCtx, NoCopies
<1>2. NewestIsLive /\ AppliedIsRecorded
  BY DEF Init, NewestIsLive, AppliedIsRecorded
<1>3. ASSUME NEW h \in Handlers PROVE HandlerOK(h)
  BY DEF Init, HandlerOK, HasSpec, CarriesRow, WritesLiveRow, HasStored, HasSeen,
         SweepsSuperseded, IdleCtx, NoCopies, Sweeping, Recording, Applying
<1>4. QED
  BY <1>1, <1>2, <1>3 DEF IInv

\* Tf objects and secrets that no step touches stay on record.
LEMMA RecordStays ==
  ASSUME TypeOK, AppliedIsRecorded, Kept, UNCHANGED <<tfs, secrets>>
  PROVE  AppliedIsRecorded'
<1>1. \A k \in Keys : /\ tfs[k] # Null => tfs[k].uuid \in Uuids /\ SpecOf(tfs[k]) \in SpecId
                      /\ secrets[k] # Null => secrets[k] \in SpecId
  BY DEF TypeOK, Tf, SpecOf, SpecId
<1>2. QED
  BY <1>1 DEF AppliedIsRecorded, Kept, RowsKept, SpecsKept, SecretsKept, SpecOf

\* The parts of IInv' a step of one handler has to establish.
LEMMA StepOK ==
  ASSUME IInv, NEW h \in Handlers, TypeOK', Kept, DeletesSuperseded, AppliedIsRecorded',
         \A i \in Handlers \ {h} : pc'[i] = pc[i] /\ ctx'[i] = ctx[i],
         HandlerOK(h)'
  PROVE  IInv'
<1>1. NewestIsLive'
  BY NewestStaysLive DEF IInv, Kept
<1>2. ASSUME NEW i \in Handlers PROVE HandlerOK(i)'
  <2>1. CASE i = h
    BY <2>1
  <2>2. CASE i # h
    BY <2>2, BystanderOK DEF IInv
  <2>3. QED
    BY <2>1, <2>2
<1>3. QED
  BY <1>1, <1>2 DEF IInv

\* A step that leaves the tables alone takes nothing back and deletes nothing.
LEMMA TablesUnchanged ==
  ASSUME UNCHANGED db
  PROVE  RowsKept /\ SpecsKept /\ DeletesSuperseded
BY DEF db, RowsKept, SpecsKept, DeletesSuperseded

\* A request that has only read: no store changed, and its locals are fresh.
LEMMA BeginOK ==
  ASSUME IInv, NEW h \in Handlers, NEW kind, NEW to \in Labels, NEW c \in Ctx,
         Begin(h, kind, to, c), UNCHANGED <<db, vcluster, acked>>, clock' \in Nat,
         c.olds = NoCopies, HasSpec(h)', CarriesRow(h)', WritesLiveRow(h)',
         HasStored(h)', HasSeen(h)'
  PROVE  IInv'
<1>1. /\ ctx' = [ctx EXCEPT ![h] = c]
      /\ pc' = [pc EXCEPT ![h] = to]
      /\ accepted' = accepted + 1
  BY DEF Begin, Goto
<1>2. TypeOK'
  BY <1>1 DEF IInv, TypeOK, db, vcluster
<1>3. ctx'[h] = c /\ \A i \in Handlers \ {h} : pc'[i] = pc[i] /\ ctx'[i] = ctx[i]
  BY <1>1 DEF IInv, TypeOK
<1>4. Kept /\ DeletesSuperseded
  BY TablesUnchanged DEF Kept, SecretsKept, vcluster
<1>5. AppliedIsRecorded'
  BY <1>4, RecordStays DEF IInv, vcluster
<1>6. SweepsSuperseded(h)'
  BY <1>3 DEF SweepsSuperseded, NoCopies
<1>7. QED
  BY <1>2, <1>3, <1>4, <1>5, <1>6, StepOK DEF HandlerOK

\* A handler that returns has nothing left to be right about.
LEMMA ReturnOK ==
  ASSUME IInv, NEW h \in Handlers, NEW from, Return(h, from), TypeOK', Kept,
         DeletesSuperseded, AppliedIsRecorded'
  PROVE  IInv'
<1>1. /\ pc'[h] = "idle" /\ ctx'[h] = IdleCtx
      /\ \A i \in Handlers \ {h} : pc'[i] = pc[i] /\ ctx'[i] = ctx[i]
  BY DEF Return, Goto, IInv, TypeOK
<1>2. HandlerOK(h)'
  BY <1>1 DEF HandlerOK, HasSpec, CarriesRow, WritesLiveRow, HasStored, HasSeen,
              SweepsSuperseded, IdleCtx, NoCopies, Sweeping, Recording, Applying
<1>3. QED
  BY <1>1, <1>2, StepOK

\* ... and the types of pc and ctx are kept by its return.
LEMMA ReturnTypes ==
  ASSUME TypeOK, NEW h \in Handlers, NEW from, Return(h, from)
  PROVE  pc' \in [Handlers -> Labels] /\ ctx' \in [Handlers -> Ctx]
BY DEF Return, Goto, TypeOK, Labels, Ctx, IdleCtx, NoCopies

-----------------------------------------------------------------------------
(***************************************************************************)
(* One lemma per action: it preserves IInv.                                *)
(***************************************************************************)
LEMMA PostResourceOK ==
  ASSUME IInv, NEW h \in Handlers, NEW s \in SpecId, PostResource(h, s)
  PROVE  IInv'
<1> DEFINE r == [gen |-> s.gen, state |-> Null, created |-> clock', deleted |-> FALSE]
           c == [IdleCtx EXCEPT !.kind = "add", !.spec = s, !.row = r]
<1>1. Begin(h, "add", "add_create", c) /\ UNCHANGED <<db, vcluster, acked>> /\ clock' \in Nat
  BY DEF PostResource, IInv, TypeOK
<1>2. r \in Row /\ c \in Ctx /\ c.olds = NoCopies
  BY <1>1 DEF Row, SpecId, Ctx, IdleCtx, NoCopies, Kinds
<1>3. pc'[h] = "add_create" /\ ctx'[h] = c
  BY <1>1 DEF Begin, Goto, IInv, TypeOK
<1>4. HasSpec(h)' /\ CarriesRow(h)' /\ WritesLiveRow(h)' /\ HasStored(h)' /\ HasSeen(h)'
  BY <1>2, <1>3 DEF HasSpec, CarriesRow, WritesLiveRow, HasStored, HasSeen, IdleCtx,
                    Sweeping, Recording, Applying
<1>5. QED
  BY <1>1, <1>2, <1>4, BeginOK DEF Labels

LEMMA PutResourceOK ==
  ASSUME IInv, NEW h \in Handlers, NEW s \in SpecId, PutResource(h, s)
  PROVE  IInv'
<1> DEFINE r == UpdatedRow(resources[s.uuid], s.gen)
           c == [IdleCtx EXCEPT !.kind = "update", !.spec = s, !.row = r]
<1>1. Begin(h, "update", "update_save", c) /\ UNCHANGED <<db, vcluster, clock, acked>>
  BY DEF PutResource
<1>2. /\ s.uuid \in Uuids /\ s.gen \in Generations
      /\ resources[s.uuid] \in Row /\ ~resources[s.uuid].deleted
      /\ resources[s.uuid] # Null
  BY DEF PutResource, IsLive, IInv, TypeOK, SpecId
<1>3. r \in Row /\ r.gen = s.gen /\ ~r.deleted /\ r.created = resources[s.uuid].created
  <2>1. s.gen >= resources[s.uuid].gen /\ s.gen \in Nat /\ resources[s.uuid].gen \in Nat
    BY <1>2, GenerationsAssumption DEF PutResource, PutAccepted, Row
  <2>2. CASE s.gen > resources[s.uuid].gen
    BY <1>2, <2>2 DEF UpdatedRow, Row
  <2>3. CASE ~(s.gen > resources[s.uuid].gen)
    <3>1. s.gen = resources[s.uuid].gen
      BY <2>1, <2>3
    <3>2. QED
      BY <1>2, <2>3, <3>1 DEF UpdatedRow
  <2>4. QED
    BY <2>2, <2>3
<1>4. c \in Ctx /\ c.olds = NoCopies /\ c.spec = s /\ c.row = r /\ c.kind = "update"
  BY <1>3 DEF Ctx, IdleCtx, NoCopies, Kinds
<1>5. pc'[h] = "update_save" /\ ctx'[h] = c /\ resources' = resources
  BY <1>1 DEF Begin, Goto, IInv, TypeOK, db
<1>6. HasSpec(h)' /\ CarriesRow(h)' /\ WritesLiveRow(h)' /\ HasStored(h)' /\ HasSeen(h)'
  <2> HIDE DEF c, r
  <2>1. QED
  BY <1>2, <1>3, <1>4, <1>5 DEF HasSpec, CarriesRow, WritesLiveRow, HasStored, HasSeen,
                                Sweeping, Recording, Applying
<1>7. clock' \in Nat
  BY <1>1 DEF IInv, TypeOK
<1>8. QED
  BY <1>1, <1>4, <1>6, <1>7, BeginOK DEF Labels

LEMMA TaskStatusOK ==
  ASSUME IInv, NEW h \in Handlers, NEW s \in issued, TaskStatus(h, s)
  PROVE  IInv'
<1> DEFINE r == [resources[s.uuid] EXCEPT !.state = s]
           c == [IdleCtx EXCEPT !.kind = "taskStatus", !.spec = s, !.row = r]
<1>1. Begin(h, "taskStatus", "status_save", c) /\ UNCHANGED <<db, vcluster, clock, acked>>
  BY DEF TaskStatus
<1>2. /\ s \in SpecId /\ s.uuid \in Uuids
      /\ resources[s.uuid] \in Row /\ ~resources[s.uuid].deleted
      /\ resources[s.uuid] # Null
  BY DEF TaskStatus, IsLive, IInv, TypeOK, SpecId
<1>3. r \in Row /\ ~r.deleted /\ r.created = resources[s.uuid].created
  BY <1>2 DEF Row
<1>4. c \in Ctx /\ c.olds = NoCopies /\ c.spec = s /\ c.row = r
  BY <1>2, <1>3 DEF Ctx, IdleCtx, NoCopies, Kinds
<1>5. pc'[h] = "status_save" /\ ctx'[h] = c /\ resources' = resources
  BY <1>1 DEF Begin, Goto, IInv, TypeOK, db
<1>6. HasSpec(h)' /\ CarriesRow(h)' /\ WritesLiveRow(h)' /\ HasStored(h)' /\ HasSeen(h)'
  <2> HIDE DEF c, r
  <2>1. QED
  BY <1>2, <1>3, <1>4, <1>5 DEF HasSpec, CarriesRow, WritesLiveRow, HasStored, HasSeen,
                                Sweeping, Recording, Applying
<1>7. clock' \in Nat
  BY <1>1 DEF IInv, TypeOK
<1>8. QED
  BY <1>1, <1>4, <1>6, <1>7, BeginOK DEF Labels

\* The Tf object a rerun or a status check reads is on record.
LEMMA ReadsRecordedTf ==
  ASSUME IInv, NEW k \in Keys, tfs[k] # Null
  PROVE  /\ tfs[k] \in Tf /\ SpecOf(tfs[k]) \in SpecId
         /\ KeyOf[SpecOf(tfs[k]).uuid] = k
         /\ resources[SpecOf(tfs[k]).uuid] # Null
         /\ specs[SpecOf(tfs[k]).uuid][SpecOf(tfs[k]).gen] > 0
         /\ secrets[k] # Null
BY DEF IInv, TypeOK, AppliedIsRecorded, Tf, SpecOf, SpecId

LEMMA RerunOK ==
  ASSUME IInv, NEW h \in Handlers, NEW k \in Keys, Rerun(h, k)
  PROVE  IInv'
<1> DEFINE c == [IdleCtx EXCEPT !.kind = "rerun", !.spec = SpecOf(tfs[k]), !.seen = tfs[k]]
<1>1. Begin(h, "rerun", "rerun_update", c) /\ UNCHANGED <<db, vcluster, clock, acked>>
      /\ tfs[k] # Null
  BY DEF Rerun
<1>2. c \in Ctx /\ c.olds = NoCopies /\ c.spec = SpecOf(tfs[k]) /\ c.seen = tfs[k]
  BY <1>1, ReadsRecordedTf DEF Ctx, IdleCtx, NoCopies, Kinds
<1>3. pc'[h] = "rerun_update" /\ ctx'[h] = c /\ UNCHANGED <<resources, specs, secrets>>
  BY <1>1 DEF Begin, Goto, IInv, TypeOK, db, vcluster
<1>4. HasSpec(h)' /\ CarriesRow(h)' /\ WritesLiveRow(h)' /\ HasStored(h)' /\ HasSeen(h)'
  <2> HIDE DEF c
  <2>1. QED
    BY <1>1, <1>2, <1>3, ReadsRecordedTf
    DEF HasSpec, CarriesRow, WritesLiveRow, HasStored, HasSeen, KeyFor, Sweeping,
        Recording, Applying
<1>5. clock' \in Nat
  BY <1>1 DEF IInv, TypeOK
<1>6. QED
  BY <1>1, <1>2, <1>4, <1>5, BeginOK DEF Labels

LEMMA StatusCheckOK ==
  ASSUME IInv, NEW h \in Handlers, NEW k \in Keys, StatusCheck(h, k)
  PROVE  IInv'
<1> DEFINE c == [IdleCtx EXCEPT !.kind = "statusCheck", !.spec = SpecOf(tfs[k]), !.seen = tfs[k]]
<1>1. Begin(h, "statusCheck", "status_find", c) /\ UNCHANGED <<db, vcluster, clock, acked>>
      /\ tfs[k] # Null
  BY DEF StatusCheck
<1>2. c \in Ctx /\ c.olds = NoCopies /\ c.spec = SpecOf(tfs[k]) /\ c.seen = tfs[k]
  BY <1>1, ReadsRecordedTf DEF Ctx, IdleCtx, NoCopies, Kinds
<1>3. pc'[h] = "status_find" /\ ctx'[h] = c
  BY <1>1 DEF Begin, Goto, IInv, TypeOK
<1>4. HasSpec(h)' /\ CarriesRow(h)' /\ WritesLiveRow(h)' /\ HasStored(h)' /\ HasSeen(h)'
  <2> HIDE DEF c
  <2>1. QED
    BY <1>1, <1>2, <1>3, ReadsRecordedTf
    DEF HasSpec, CarriesRow, WritesLiveRow, HasStored, HasSeen, Sweeping, Recording, Applying
<1>5. clock' \in Nat
  BY <1>1 DEF IInv, TypeOK
<1>6. QED
  BY <1>1, <1>2, <1>4, <1>5, BeginOK DEF Labels

LEMMA TokenPatchOK ==
  ASSUME IInv, NEW h \in Handlers, NEW u \in Uuids, TokenPatch(h, u)
  PROVE  IInv'
<1> DEFINE s == [uuid |-> u, gen |-> resources[u].gen]
           c == [IdleCtx EXCEPT !.kind = "tokenPatch", !.spec = s]
<1>1. Begin(h, "tokenPatch", "token", c) /\ UNCHANGED <<db, vcluster, clock, acked>>
  BY DEF TokenPatch
<1>2. s \in SpecId /\ resources[u] # Null /\ specs[u][resources[u].gen] > 0
  BY DEF TokenPatch, IInv, TypeOK, Row, SpecId
<1>3. c \in Ctx /\ c.olds = NoCopies /\ c.spec = s
  BY <1>2 DEF Ctx, IdleCtx, NoCopies, Kinds
<1>4. pc'[h] = "token" /\ ctx'[h] = c /\ UNCHANGED <<resources, specs>>
  BY <1>1 DEF Begin, Goto, IInv, TypeOK, db
<1>5. HasSpec(h)' /\ CarriesRow(h)' /\ WritesLiveRow(h)' /\ HasStored(h)' /\ HasSeen(h)'
  <2> HIDE DEF c
  <2>1. QED
    BY <1>2, <1>3, <1>4
    DEF HasSpec, CarriesRow, WritesLiveRow, HasStored, HasSeen, Sweeping, Recording, Applying
<1>6. clock' \in Nat
  BY <1>1 DEF IInv, TypeOK
<1>7. QED
  BY <1>1, <1>3, <1>5, <1>6, BeginOK DEF Labels

LEMMA ExchangeOK ==
  ASSUME IInv, NEW h \in Handlers, NEW s \in issued, Exchange(h, s)
  PROVE  IInv'
<1> DEFINE c == [IdleCtx EXCEPT !.kind = "exchange", !.spec = s]
<1>1. Begin(h, "exchange", "token", c) /\ UNCHANGED <<db, vcluster, clock, acked>>
  BY DEF Exchange
<1>2. s \in SpecId /\ resources[s.uuid] # Null /\ specs[s.uuid][s.gen] > 0
  BY DEF Exchange, IInv, TypeOK
<1>3. c \in Ctx /\ c.olds = NoCopies /\ c.spec = s
  BY <1>2 DEF Ctx, IdleCtx, NoCopies, Kinds
<1>4. pc'[h] = "token" /\ ctx'[h] = c /\ UNCHANGED <<resources, specs>>
  BY <1>1 DEF Begin, Goto, IInv, TypeOK, db
<1>5. HasSpec(h)' /\ CarriesRow(h)' /\ WritesLiveRow(h)' /\ HasStored(h)' /\ HasSeen(h)'
  <2> HIDE DEF c
  <2>1. QED
    BY <1>2, <1>3, <1>4
    DEF HasSpec, CarriesRow, WritesLiveRow, HasStored, HasSeen, Sweeping, Recording, Applying
<1>6. clock' \in Nat
  BY <1>1 DEF IInv, TypeOK
<1>7. QED
  BY <1>1, <1>3, <1>5, <1>6, BeginOK DEF Labels

LEMMA AddCreateOK ==
  ASSUME IInv, NEW h \in Handlers, AddCreate(h)
  PROVE  IInv'
<1> DEFINE u == ctx[h].spec.uuid
<1>1. pc[h] = "add_create" /\ UNCHANGED <<specs, vcluster, clock, accepted, acked>>
  BY DEF AddCreate
<1>2. /\ ctx[h].spec \in SpecId /\ u \in Uuids
      /\ ctx[h].row \in Row /\ ~ctx[h].row.deleted
      /\ ctx[h].kind \in {"add", "update"} /\ ctx[h].row.gen = ctx[h].spec.gen
  BY <1>1 DEF IInv, HandlerOK, HasSpec, CarriesRow, WritesLiveRow, SpecId
<1>3. CASE resources[u] = Null /\ resources' = Saved(u, ctx[h].row)
           /\ Goto(h, "add_create", "sweep_find") /\ UNCHANGED ctx
  <2>1. /\ pc'[h] = "sweep_find" /\ ctx' = ctx
        /\ \A i \in Handlers \ {h} : pc'[i] = pc[i] /\ ctx'[i] = ctx[i]
    BY <1>3 DEF Goto, IInv, TypeOK
  <2>2. /\ resources' \in [Uuids -> Row \cup {Null}]
        /\ resources'[u] = ctx[h].row /\ resources'[u] # Null
        /\ \A v \in Uuids \ {u} : resources'[v] = resources[v]
    BY <1>2, <1>3, NullAssumption DEF Saved, IInv, TypeOK
  <2>3. TypeOK'
    BY <1>1, <1>3, <2>2 DEF IInv, TypeOK, Goto, Labels, vcluster
  <2>4. Kept
    BY <1>1, <1>3, <2>2 DEF Kept, RowsKept, SpecsKept, SecretsKept, vcluster
  <2>5. DeletesSuperseded
    BY <1>2, <2>2 DEF DeletesSuperseded
  <2>6. AppliedIsRecorded'
    BY <1>1, <2>4, RecordStays DEF IInv, vcluster
  <2>7. HandlerOK(h)'
    <3>1. SweepsSuperseded(h)'
      BY <2>1, <2>4 DEF IInv, HandlerOK, SweepsSuperseded, Kept, RowsKept
    <3>2. QED
      BY <1>2, <2>1, <2>2, <3>1
      DEF HandlerOK, HasSpec, CarriesRow, WritesLiveRow, HasStored, HasSeen,
          Sweeping, Recording, Applying
  <2>8. QED
    BY <2>1, <2>3, <2>4, <2>5, <2>6, <2>7, StepOK
<1>4. CASE Return(h, "add_create") /\ UNCHANGED resources
  <2>1. TypeOK'
    BY <1>1, <1>4, ReturnTypes DEF IInv, TypeOK, vcluster
  <2>2. Kept /\ DeletesSuperseded
    BY <1>1, <1>4, TablesUnchanged DEF Kept, SecretsKept, vcluster, db
  <2>3. AppliedIsRecorded'
    BY <1>1, <2>2, RecordStays DEF IInv, vcluster
  <2>4. QED
    BY <1>4, <2>1, <2>2, <2>3, ReturnOK
<1>5. QED
  BY <1>3, <1>4 DEF AddCreate

\* Storing a copy that is undeleted and of the stored creation time is safe.
LEMMA SavedCopy ==
  ASSUME IInv, NEW h \in Handlers, pc[h] \in {"update_save", "status_save"},
         resources' = Saved(ctx[h].spec.uuid, ctx[h].row)
  PROVE  /\ resources' \in [Uuids -> Row \cup {Null}]
         /\ RowsKept /\ DeletesSuperseded
         /\ resources'[ctx[h].spec.uuid] # Null
<1> DEFINE u == ctx[h].spec.uuid
<1>1. /\ u \in Uuids /\ ctx[h].row \in Row /\ ~ctx[h].row.deleted
      /\ ctx[h].row.created = resources[u].created
  BY DEF IInv, HandlerOK, HasSpec, WritesLiveRow, SpecId
<1>2. /\ resources' \in [Uuids -> Row \cup {Null}]
      /\ resources'[u] = ctx[h].row /\ resources'[u] # Null
      /\ \A v \in Uuids \ {u} : resources'[v] = resources[v]
  BY <1>1, NullAssumption DEF Saved, IInv, TypeOK
<1>3. QED
  BY <1>1, <1>2 DEF RowsKept, DeletesSuperseded

LEMMA UpdateSaveOK ==
  ASSUME IInv, NEW h \in Handlers, UpdateSave(h)
  PROVE  IInv'
<1>1. /\ pc[h] = "update_save" /\ pc' = [pc EXCEPT ![h] = "sweep_find"]
      /\ UNCHANGED <<specs, vcluster, clock, accepted, acked, ctx>>
      /\ resources' = Saved(ctx[h].spec.uuid, ctx[h].row)
  BY DEF UpdateSave, Goto
<1>2. /\ resources' \in [Uuids -> Row \cup {Null}]
      /\ RowsKept /\ DeletesSuperseded
      /\ resources'[ctx[h].spec.uuid] # Null
  BY <1>1, SavedCopy
<1>3. TypeOK'
  BY <1>1, <1>2 DEF IInv, TypeOK, Labels, vcluster
<1>4. Kept
  BY <1>1, <1>2 DEF Kept, SpecsKept, SecretsKept, vcluster
<1>5. AppliedIsRecorded'
  BY <1>1, <1>4, RecordStays DEF IInv, vcluster
<1>6. pc'[h] = "sweep_find" /\ \A i \in Handlers \ {h} : pc'[i] = pc[i] /\ ctx'[i] = ctx[i]
  BY <1>1 DEF IInv, TypeOK
<1>7. HandlerOK(h)'
  <2>1. SweepsSuperseded(h)'
    BY <1>1, <1>4 DEF IInv, HandlerOK, SweepsSuperseded, Kept, RowsKept
  <2>2. HandlerOK(h)
    BY DEF IInv
  <2>3. QED
    BY <1>1, <1>2, <1>6, <2>1, <2>2
    DEF HandlerOK, HasSpec, CarriesRow, WritesLiveRow, HasStored, HasSeen,
        Sweeping, Recording, Applying
<1>8. QED
  BY <1>2, <1>3, <1>4, <1>5, <1>6, <1>7, StepOK

LEMMA StatusSaveOK ==
  ASSUME IInv, NEW h \in Handlers, StatusSave(h)
  PROVE  IInv'
<1>1. /\ pc[h] = "status_save" /\ Return(h, "status_save")
      /\ UNCHANGED <<specs, vcluster, clock, accepted, acked>>
      /\ resources' = Saved(ctx[h].spec.uuid, ctx[h].row)
  BY DEF StatusSave, Return, Goto
<1>2. resources' \in [Uuids -> Row \cup {Null}] /\ RowsKept /\ DeletesSuperseded
  BY <1>1, SavedCopy
<1>3. TypeOK'
  BY <1>1, <1>2, ReturnTypes DEF IInv, TypeOK, vcluster
<1>4. Kept
  BY <1>1, <1>2 DEF Kept, SpecsKept, SecretsKept, vcluster
<1>5. AppliedIsRecorded'
  BY <1>1, <1>4, RecordStays DEF IInv, vcluster
<1>6. QED
  BY <1>1, <1>2, <1>3, <1>4, <1>5, ReturnOK

LEMMA SweepFindOK ==
  ASSUME IInv, NEW h \in Handlers, SweepFind(h)
  PROVE  IInv'
<1> DEFINE olds == Superseded(KeyFor(h))
           copies == [u \in Uuids |-> IF u \in olds THEN resources[u] ELSE Null]
           to == IF olds = {} THEN AfterSweep(h) ELSE "sweep_save"
<1>1. /\ pc[h] = "sweep_find" /\ pc' = [pc EXCEPT ![h] = to]
      /\ ctx' = [ctx EXCEPT ![h].olds = copies]
      /\ UNCHANGED <<db, vcluster, clock, accepted, acked>>
  BY DEF SweepFind, Goto
<1>2. to \in {"spec_create", "spec_find", "sweep_save"}
  BY DEF AfterSweep
<1>3. \A u \in olds : /\ u \in Uuids /\ resources[u] # Null /\ ~resources[u].deleted
                      /\ \E v \in Uuids : /\ KeyOf[v] = KeyOf[u] /\ resources[v] # Null
                                          /\ resources[v].created > resources[u].created
  BY DEF Superseded, LiveOf, IsLive
<1>4. copies \in [Uuids -> Row \cup {Null}]
  BY DEF IInv, TypeOK
<1> HIDE DEF olds, copies, to
<1>5. ctx[h] \in Ctx
  BY DEF IInv, TypeOK
<1>6. /\ pc'[h] = to
      /\ ctx'[h] = [ctx[h] EXCEPT !.olds = copies]
      /\ \A i \in Handlers \ {h} : pc'[i] = pc[i] /\ ctx'[i] = ctx[i]
  BY <1>1 DEF IInv, TypeOK
<1>7. /\ ctx'[h] \in Ctx /\ ctx'[h].olds = copies
      /\ ctx'[h].spec = ctx[h].spec /\ ctx'[h].row = ctx[h].row /\ ctx'[h].kind = ctx[h].kind
  BY <1>4, <1>5, <1>6 DEF Ctx
<1>8. TypeOK'
  <2>1. ctx' \in [Handlers -> Ctx]
    BY <1>1, <1>6, <1>7 DEF IInv, TypeOK
  <2>2. pc' \in [Handlers -> Labels]
    BY <1>1, <1>2 DEF IInv, TypeOK, Labels
  <2>3. QED
    BY <1>1, <2>1, <2>2 DEF IInv, TypeOK, db, vcluster
<1>9. Kept /\ DeletesSuperseded
  BY <1>1, TablesUnchanged DEF Kept, SecretsKept, vcluster
<1>10. AppliedIsRecorded'
  BY <1>1, <1>9, RecordStays DEF IInv, vcluster
<1>11. HandlerOK(h)'
  <2>1. SweepsSuperseded(h)'
    <3> SUFFICES ASSUME NEW u \in Uuids, copies[u] # Null
                 PROVE  /\ resources[u] # Null
                        /\ ~copies[u].deleted
                        /\ copies[u].created = resources[u].created
                        /\ \E v \in Uuids : /\ KeyOf[v] = KeyOf[u]
                                            /\ resources[v] # Null
                                            /\ resources[v].created > resources[u].created
      BY <1>1, <1>7 DEF SweepsSuperseded, db
    <3>1. u \in olds /\ copies[u] = resources[u]
      BY DEF copies
    <3>2. QED
      BY <1>3, <3>1
  <2>2. HandlerOK(h)
    BY DEF IInv
  <2>3. QED
    BY <1>1, <1>2, <1>6, <1>7, <2>1, <2>2
    DEF HandlerOK, HasSpec, CarriesRow, WritesLiveRow, HasStored, HasSeen, db,
        Sweeping, Recording, Applying
<1>12. QED
  BY <1>6, <1>8, <1>9, <1>10, <1>11, StepOK

\* Steps that only move a POST or PUT on, between the sweep and its spec row.
LEMMA MoveOK ==
  ASSUME IInv, NEW h \in Handlers, NEW from, NEW to,
         from \in Sweeping, to \in Recording, Goto(h, from, to),
         UNCHANGED <<db, vcluster, clock, accepted, acked, ctx>>
  PROVE  IInv'
<1>1. pc[h] = from /\ pc' = [pc EXCEPT ![h] = to]
  BY DEF Goto
<1>2. pc'[h] = to /\ \A i \in Handlers \ {h} : pc'[i] = pc[i] /\ ctx'[i] = ctx[i]
  BY <1>1 DEF IInv, TypeOK
<1>3. TypeOK'
  BY <1>1 DEF IInv, TypeOK, Labels, Recording, db, vcluster
<1>4. Kept /\ DeletesSuperseded
  BY TablesUnchanged DEF Kept, SecretsKept, vcluster
<1>5. AppliedIsRecorded'
  BY <1>4, RecordStays DEF IInv, vcluster
<1>6. HandlerOK(h)'
  <2>1. HandlerOK(h)
    BY DEF IInv
  <2>2. QED
    BY <1>1, <1>2, <2>1
    DEF HandlerOK, HasSpec, CarriesRow, WritesLiveRow, HasStored, HasSeen, SweepsSuperseded,
        db, Sweeping, Recording, Applying
<1>7. QED
  BY <1>2, <1>3, <1>4, <1>5, <1>6, StepOK

LEMMA SweepFindFailsOK ==
  ASSUME IInv, NEW h \in Handlers, SweepFindFails(h)
  PROVE  IInv'
<1>1. AfterSweep(h) \in Recording /\ "sweep_find" \in Sweeping
  BY DEF AfterSweep, Recording, Sweeping
<1>2. QED
  BY <1>1, MoveOK DEF SweepFindFails

LEMMA SweepSaveOK ==
  ASSUME IInv, NEW h \in Handlers, SweepSave(h)
  PROVE  IInv'
<1> DEFINE olds == ctx[h].olds
<1>1. /\ pc[h] = "sweep_save" /\ pc' = [pc EXCEPT ![h] = "sweep_delete"]
      /\ UNCHANGED <<specs, vcluster, clock, accepted, acked, ctx>>
      /\ resources' = [u \in Uuids |-> IF olds[u] # Null THEN olds[u] ELSE resources[u]]
  BY DEF SweepSave, Goto
<1>2. /\ olds \in [Uuids -> Row \cup {Null}]
      /\ \A u \in Uuids : olds[u] # Null => /\ resources[u] # Null /\ ~olds[u].deleted
                                            /\ olds[u].created = resources[u].created
  BY DEF IInv, TypeOK, Ctx, HandlerOK, SweepsSuperseded
<1> HIDE DEF olds
<1>3. TypeOK'
  BY <1>1, <1>2 DEF IInv, TypeOK, Labels, vcluster
<1>4. Kept /\ DeletesSuperseded
  BY <1>1, <1>2 DEF Kept, RowsKept, SpecsKept, SecretsKept, DeletesSuperseded, vcluster
<1>5. AppliedIsRecorded'
  BY <1>1, <1>4, RecordStays DEF IInv, vcluster
<1>6. pc'[h] = "sweep_delete" /\ \A i \in Handlers \ {h} : pc'[i] = pc[i] /\ ctx'[i] = ctx[i]
  BY <1>1 DEF IInv, TypeOK
<1>7. HandlerOK(h)'
  <2>1. HandlerOK(h) /\ ctx[h].spec.uuid \in Uuids
    BY <1>1 DEF IInv, HandlerOK, HasSpec, SpecId
  <2>2. SweepsSuperseded(h)'
    BY <1>1, <1>4, <2>1 DEF HandlerOK, SweepsSuperseded, Kept, RowsKept
  <2>3. QED
    BY <1>1, <1>4, <1>6, <2>1, <2>2
    DEF HandlerOK, HasSpec, CarriesRow, WritesLiveRow, HasStored, HasSeen, Kept, RowsKept,
        Sweeping, Recording, Applying
<1>8. QED
  BY <1>3, <1>4, <1>5, <1>6, <1>7, StepOK

LEMMA SweepDeleteOK ==
  ASSUME IInv, NEW h \in Handlers, SweepDelete(h)
  PROVE  IInv'
<1> DEFINE olds == ctx[h].olds
<1>1. /\ pc[h] = "sweep_delete" /\ pc' = [pc EXCEPT ![h] = AfterSweep(h)]
      /\ UNCHANGED <<specs, vcluster, clock, accepted, acked, ctx>>
      /\ resources' = [u \in Uuids |->
                         IF olds[u] # Null THEN [resources[u] EXCEPT !.deleted = TRUE]
                                           ELSE resources[u]]
  BY DEF SweepDelete, Goto
<1>2. AfterSweep(h) \in Recording
  BY DEF AfterSweep, Recording
<1>3. \A u \in Uuids : olds[u] # Null =>
        /\ resources[u] # Null
        /\ \E v \in Uuids : /\ KeyOf[v] = KeyOf[u] /\ resources[v] # Null
                            /\ resources[v].created > resources[u].created
  BY DEF IInv, HandlerOK, SweepsSuperseded
<1> HIDE DEF olds
<1>4. \A u \in Uuids : resources[u] # Null =>
        /\ resources'[u] \in Row
        /\ resources'[u].created = resources[u].created
        /\ olds[u] = Null => resources'[u] = resources[u]
  BY <1>1 DEF IInv, TypeOK, Row
<1>5. \A u \in Uuids : resources[u] = Null => resources'[u] = Null
  BY <1>1, <1>3
<1>6. TypeOK'
  <2>1. resources' \in [Uuids -> Row \cup {Null}]
    BY <1>1, <1>4, <1>5
  <2>2. QED
    BY <1>1, <1>2, <2>1 DEF IInv, TypeOK, Labels, Recording, vcluster
<1>7. Kept
  BY <1>1, <1>4, NullAssumption DEF Kept, RowsKept, SpecsKept, SecretsKept, vcluster
<1>8. DeletesSuperseded
  BY <1>3, <1>4, <1>5 DEF DeletesSuperseded
<1>9. AppliedIsRecorded'
  BY <1>1, <1>7, RecordStays DEF IInv, vcluster
<1>10. pc'[h] = AfterSweep(h) /\ \A i \in Handlers \ {h} : pc'[i] = pc[i] /\ ctx'[i] = ctx[i]
  BY <1>1 DEF IInv, TypeOK
<1>11. HandlerOK(h)'
  <2>1. HandlerOK(h) /\ ctx[h].spec.uuid \in Uuids
    BY <1>1 DEF IInv, HandlerOK, HasSpec, SpecId
  <2>2. SweepsSuperseded(h)'
    BY <1>1, <1>7, <2>1 DEF HandlerOK, SweepsSuperseded, Kept, RowsKept
  <2>3. QED
    BY <1>1, <1>2, <1>7, <1>10, <2>1, <2>2
    DEF HandlerOK, HasSpec, CarriesRow, WritesLiveRow, HasStored, HasSeen, Kept, RowsKept,
        Sweeping, Recording, Applying
<1>12. QED
  BY <1>6, <1>7, <1>8, <1>9, <1>10, <1>11, StepOK

LEMMA SpecFindOK ==
  ASSUME IInv, NEW h \in Handlers, SpecFind(h)
  PROVE  IInv'
<1> DEFINE s == ctx[h].spec
           to == IF specs[s.uuid][ctx[h].row.gen] = 0 THEN "spec_create" ELSE "token"
<1>1. /\ pc[h] = "spec_find" /\ pc' = [pc EXCEPT ![h] = to]
      /\ UNCHANGED <<db, vcluster, clock, accepted, acked, ctx>>
  BY DEF SpecFind, Goto
<1>2. /\ s \in SpecId /\ s.uuid \in Uuids /\ s.gen \in Generations
      /\ ctx[h].row.gen = s.gen /\ specs[s.uuid][s.gen] \in Nat
  BY <1>1 DEF IInv, HandlerOK, HasSpec, CarriesRow, SpecId, TypeOK, Recording
<1>3. to = "spec_create" \/ (to = "token" /\ specs[s.uuid][s.gen] > 0)
  BY <1>2
<1> HIDE DEF to
<1>4. pc'[h] = to /\ \A i \in Handlers \ {h} : pc'[i] = pc[i] /\ ctx'[i] = ctx[i]
  BY <1>1 DEF IInv, TypeOK
<1>5. TypeOK'
  BY <1>1, <1>3 DEF IInv, TypeOK, Labels, db, vcluster
<1>6. Kept /\ DeletesSuperseded
  BY <1>1, TablesUnchanged DEF Kept, SecretsKept, vcluster
<1>7. AppliedIsRecorded'
  BY <1>1, <1>6, RecordStays DEF IInv, vcluster
<1>8. HandlerOK(h)'
  <2>1. HandlerOK(h)
    BY DEF IInv
  <2>2. QED
    BY <1>1, <1>3, <1>4, <2>1
    DEF HandlerOK, HasSpec, CarriesRow, WritesLiveRow, HasStored, HasSeen, SweepsSuperseded,
        db, Sweeping, Recording, Applying
<1>9. QED
  BY <1>4, <1>5, <1>6, <1>7, <1>8, StepOK

LEMMA SpecCreateOK ==
  ASSUME IInv, NEW h \in Handlers, SpecCreate(h)
  PROVE  IInv'
<1> DEFINE s == ctx[h].spec
<1>1. /\ pc[h] = "spec_create" /\ pc' = [pc EXCEPT ![h] = "token"]
      /\ UNCHANGED <<resources, vcluster, clock, accepted, acked, ctx>>
      /\ specs' = [specs EXCEPT ![s.uuid][s.gen] = @ + 1]
  BY DEF SpecCreate, Goto
<1>2. s \in SpecId /\ s.uuid \in Uuids /\ s.gen \in Generations
  BY <1>1 DEF IInv, HandlerOK, HasSpec, SpecId
<1>3. /\ specs' \in [Uuids -> [Generations -> Nat]]
      /\ specs'[s.uuid][s.gen] > 0
      /\ \A u \in Uuids, g \in Generations : specs[u][g] > 0 => specs'[u][g] > 0
  <2>1. specs \in [Uuids -> [Generations -> Nat]]
    BY DEF IInv, TypeOK
  <2>2. /\ specs' \in [Uuids -> [Generations -> Nat]]
        /\ specs'[s.uuid][s.gen] = specs[s.uuid][s.gen] + 1
        /\ \A u \in Uuids, g \in Generations :
             specs'[u][g] = specs[u][g] \/ specs'[u][g] = specs[u][g] + 1
    BY <1>1, <1>2, <2>1
  <2>3. \A u \in Uuids, g \in Generations : specs[u][g] \in Nat
    BY <2>1
  <2>4. QED
    BY <1>2, <2>2, <2>3
<1>4. pc'[h] = "token" /\ \A i \in Handlers \ {h} : pc'[i] = pc[i] /\ ctx'[i] = ctx[i]
  BY <1>1 DEF IInv, TypeOK
<1>5. TypeOK'
  BY <1>1, <1>3 DEF IInv, TypeOK, Labels, vcluster
<1>6. Kept /\ DeletesSuperseded
  BY <1>1, <1>3 DEF Kept, RowsKept, SpecsKept, SecretsKept, DeletesSuperseded, SpecId, vcluster
<1>7. AppliedIsRecorded'
  BY <1>1, <1>6, RecordStays DEF IInv, vcluster
<1>8. HandlerOK(h)'
  <2>1. HandlerOK(h)
    BY DEF IInv
  <2>2. QED
    BY <1>1, <1>3, <1>4, <2>1
    DEF HandlerOK, HasSpec, CarriesRow, WritesLiveRow, HasStored, HasSeen, SweepsSuperseded,
        Sweeping, Recording, Applying
<1>9. QED
  BY <1>4, <1>5, <1>6, <1>7, <1>8, StepOK

LEMMA IssueTokenOK ==
  ASSUME IInv, NEW h \in Handlers, IssueToken(h)
  PROVE  IInv'
<1> DEFINE s == ctx[h].spec
           k == KeyOf[s.uuid]
<1>1. /\ pc[h] = "token" /\ UNCHANGED <<db, tfs, clock, accepted, acked>>
      /\ secrets' = [secrets EXCEPT ![k] = s] /\ issued' = issued \cup {s}
  BY DEF IssueToken, KeyFor, PatchedSecret
<1>2. /\ s \in SpecId /\ k \in Keys /\ s.uuid \in Uuids
      /\ specs[s.uuid][s.gen] > 0 /\ resources[s.uuid] # Null
  BY <1>1, KeysAssumption DEF IInv, HandlerOK, HasSpec, HasStored, SpecId
<1>3. /\ secrets' \in [Keys -> SpecId \cup {Null}] /\ secrets'[k] = s /\ s # Null
      /\ \A j \in Keys \ {k} : secrets'[j] = secrets[j]
      /\ issued' \subseteq SpecId
  BY <1>1, <1>2, NullAssumption DEF IInv, TypeOK
<1>3a. outdated' \subseteq Keys
  BY <1>2 DEF IssueToken, KeyFor, IInv, TypeOK
<1> HIDE DEF s
<1>4. Kept /\ DeletesSuperseded
  BY <1>1, <1>3, TablesUnchanged DEF Kept, SecretsKept
<1>5. AppliedIsRecorded'
  BY <1>1, <1>2, <1>3 DEF IInv, AppliedIsRecorded, db
<1>6. CASE ctx[h].kind \in {"tokenPatch", "exchange"}
  <2>1. Return(h, "token")
    BY <1>6 DEF IssueToken
  <2>2. TypeOK'
    BY <1>1, <1>3, <1>3a, <2>1, ReturnTypes DEF IInv, TypeOK, db
  <2>3. QED
    BY <1>4, <1>5, <2>1, <2>2, ReturnOK
<1>7. CASE ctx[h].kind \notin {"tokenPatch", "exchange"}
  <2>1. pc' = [pc EXCEPT ![h] = "tf_list"] /\ UNCHANGED ctx
    BY <1>7 DEF IssueToken, Goto
  <2>2. pc'[h] = "tf_list" /\ \A i \in Handlers \ {h} : pc'[i] = pc[i] /\ ctx'[i] = ctx[i]
    BY <2>1 DEF IInv, TypeOK
  <2>3. TypeOK'
    BY <1>1, <1>3, <1>3a, <2>1 DEF IInv, TypeOK, Labels, db
  <2>4. HandlerOK(h)'
    <3>1. HandlerOK(h)
      BY DEF IInv
    <3>2. secrets'[KeyFor(h)'] # Null
      BY <1>3, <2>1 DEF KeyFor, s
    <3>3. QED
      BY <1>1, <1>2, <2>1, <2>2, <3>1, <3>2
      DEF HandlerOK, HasSpec, CarriesRow, WritesLiveRow, HasStored, HasSeen, SweepsSuperseded,
          db, s, KeyFor, Sweeping, Recording, Applying
  <2>5. QED
    BY <1>4, <1>5, <2>2, <2>3, <2>4, StepOK
<1>8. QED
  BY <1>6, <1>7

LEMMA ListTfsOK ==
  ASSUME IInv, NEW h \in Handlers, ListTfs(h)
  PROVE  IInv'
<1> DEFINE t == tfs[KeyFor(h)]
<1>1. /\ pc[h] = "tf_list" /\ pc' = [pc EXCEPT ![h] = "tf_write"]
      /\ ctx' = [ctx EXCEPT ![h].seen = t]
      /\ UNCHANGED <<db, vcluster, clock, accepted, acked>>
  BY DEF ListTfs, Goto
<1>2. t \in Tf \cup {Null}
  BY <1>1, KeysAssumption DEF IInv, TypeOK, KeyFor, HandlerOK, HasSpec, SpecId
<1> HIDE DEF t
<1>3. /\ ctx' \in [Handlers -> Ctx] /\ pc'[h] = "tf_write"
      /\ ctx'[h].spec = ctx[h].spec /\ ctx'[h].row = ctx[h].row
      /\ ctx'[h].olds = ctx[h].olds /\ ctx'[h].kind = ctx[h].kind
      /\ \A i \in Handlers \ {h} : pc'[i] = pc[i] /\ ctx'[i] = ctx[i]
  <2>1. ctx[h] \in Ctx /\ ctx'[h] = [ctx[h] EXCEPT !.seen = t]
    BY <1>1 DEF IInv, TypeOK
  <2>2. ctx'[h] \in Ctx
    BY <1>2, <2>1 DEF Ctx
  <2>3. QED
    BY <1>1, <2>1, <2>2 DEF IInv, TypeOK, Ctx
<1>4. TypeOK'
  BY <1>1, <1>3 DEF IInv, TypeOK, Labels, db, vcluster
<1>5. Kept /\ DeletesSuperseded
  BY <1>1, TablesUnchanged DEF Kept, SecretsKept, vcluster
<1>6. AppliedIsRecorded'
  BY <1>1, <1>5, RecordStays DEF IInv, vcluster
<1>7. HandlerOK(h)'
  <2>1. HandlerOK(h)
    BY DEF IInv
  <2>2. QED
    BY <1>1, <1>3, <2>1
    DEF HandlerOK, HasSpec, CarriesRow, WritesLiveRow, HasStored, HasSeen, SweepsSuperseded,
        KeyFor, db, vcluster, Sweeping, Recording, Applying
<1>8. QED
  BY <1>3, <1>4, <1>5, <1>6, <1>7, StepOK

\* Writing a Tf object that names what its writer has stored.
LEMMA RecordWritten ==
  ASSUME IInv, NEW k \in Keys, NEW t \in Tf, NEW u \in Uuids, u = t.uuid,
         tfs' = [tfs EXCEPT ![k] = t], UNCHANGED <<db, secrets>>,
         KeyOf[u] = k, resources[u] # Null, specs[u][t.gen] > 0, secrets[k] # Null
  PROVE  AppliedIsRecorded' /\ tfs' \in [Keys -> Tf \cup {Null}]
<1>1. /\ tfs' \in [Keys -> Tf \cup {Null}] /\ tfs'[k] = t
      /\ \A j \in Keys \ {k} : tfs'[j] = tfs[j]
  BY DEF IInv, TypeOK
<1>2. QED
  BY <1>1 DEF IInv, AppliedIsRecorded, db

LEMMA WriteTfOK ==
  ASSUME IInv, NEW h \in Handlers, WriteTf(h)
  PROVE  IInv'
<1> DEFINE s == ctx[h].spec
           k == KeyOf[s.uuid]
           t == Applied(ctx[h].seen, s)
<1>1. /\ pc[h] = "tf_write" /\ Return(h, "tf_write")
      /\ UNCHANGED <<db, secrets, issued, outdated, clock, accepted>>
  BY DEF WriteTf, Return, Goto
<1>2. /\ s \in SpecId /\ k \in Keys /\ s.uuid \in Uuids /\ s.gen \in Generations
      /\ resources[s.uuid] # Null /\ specs[s.uuid][s.gen] > 0 /\ secrets[k] # Null
  BY <1>1, KeysAssumption DEF IInv, HandlerOK, HasSpec, HasStored, SpecId, KeyFor, Applying
<1>3. Kept /\ DeletesSuperseded
  BY <1>1, TablesUnchanged DEF Kept, SecretsKept
<1>4. CASE /\ tfs' = [tfs EXCEPT ![k] = t]
           /\ acked' = acked \cup {s}
  <2>1. t \in Tf /\ t.uuid = s.uuid /\ t.gen = s.gen
    <3>1. ctx[h].seen \in Tf \cup {Null}
      BY DEF IInv, TypeOK, Ctx
    <3>2. QED
      BY <1>2, <3>1 DEF Applied, Tf
  <2>2. AppliedIsRecorded' /\ tfs' \in [Keys -> Tf \cup {Null}]
    <3> HIDE DEF t
    <3>1. QED
      BY <1>1, <1>2, <1>4, <2>1, RecordWritten
  <2>3. TypeOK'
    BY <1>1, <1>2, <1>4, <2>2, ReturnTypes DEF IInv, TypeOK, db
  <2>4. QED
    BY <1>1, <1>3, <2>2, <2>3, ReturnOK
<1>5. CASE UNCHANGED <<tfs, acked>>
  <2>1. TypeOK'
    BY <1>1, <1>5, ReturnTypes DEF IInv, TypeOK, db
  <2>2. AppliedIsRecorded'
    BY <1>1, <1>3, <1>5, RecordStays DEF IInv
  <2>3. QED
    BY <1>1, <1>3, <2>1, <2>2, ReturnOK
<1>6. QED
  BY <1>4, <1>5 DEF WriteTf, KeyFor

LEMMA RerunUpdateOK ==
  ASSUME IInv, NEW h \in Handlers, RerunUpdate(h)
  PROVE  IInv'
<1> DEFINE s == ctx[h].spec
           k == KeyOf[s.uuid]
           t == [ctx[h].seen EXCEPT !.rv = @ + 1]
<1>1. /\ pc[h] = "rerun_update" /\ Return(h, "rerun_update")
      /\ UNCHANGED <<db, secrets, issued, outdated, clock, accepted, acked>>
  BY DEF RerunUpdate, Return, Goto
<1>2. /\ s \in SpecId /\ k \in Keys /\ s.uuid \in Uuids
      /\ resources[s.uuid] # Null /\ specs[s.uuid][s.gen] > 0 /\ secrets[k] # Null
      /\ ctx[h].seen \in Tf /\ SpecOf(ctx[h].seen) = s
  BY <1>1, KeysAssumption DEF IInv, HandlerOK, HasSpec, HasStored, HasSeen, SpecId, KeyFor, Applying
<1>3. Kept /\ DeletesSuperseded
  BY <1>1, TablesUnchanged DEF Kept, SecretsKept
<1>4. CASE tfs' = [tfs EXCEPT ![k] = t]
  <2>1. t \in Tf /\ t.uuid = s.uuid /\ t.gen = s.gen
    BY <1>2 DEF Tf, SpecOf
  <2>2. AppliedIsRecorded' /\ tfs' \in [Keys -> Tf \cup {Null}]
    <3> HIDE DEF t
    <3>1. QED
      BY <1>1, <1>2, <1>4, <2>1, RecordWritten
  <2>3. TypeOK'
    BY <1>1, <2>2, ReturnTypes DEF IInv, TypeOK, db
  <2>4. QED
    BY <1>1, <1>3, <2>2, <2>3, ReturnOK
<1>5. CASE UNCHANGED tfs
  <2>1. TypeOK'
    BY <1>1, <1>5, ReturnTypes DEF IInv, TypeOK, db
  <2>2. AppliedIsRecorded'
    BY <1>1, <1>3, <1>5, RecordStays DEF IInv
  <2>3. QED
    BY <1>1, <1>3, <2>1, <2>2, ReturnOK
<1>6. QED
  BY <1>4, <1>5 DEF RerunUpdate, KeyFor

\* A request that ends without writing anything.
LEMMA ReturnOnlyOK ==
  ASSUME IInv, NEW h \in Handlers, NEW from, Return(h, from),
         UNCHANGED <<db, vcluster, clock, accepted, acked>>
  PROVE  IInv'
<1>1. TypeOK'
  BY ReturnTypes DEF IInv, TypeOK, db, vcluster
<1>2. Kept /\ DeletesSuperseded
  BY TablesUnchanged DEF Kept, SecretsKept, vcluster
<1>3. AppliedIsRecorded'
  BY <1>2, RecordStays DEF IInv, vcluster
<1>4. QED
  BY <1>1, <1>2, <1>3, ReturnOK

LEMMA StatusFindOK ==
  ASSUME IInv, NEW h \in Handlers, StatusFind(h)
  PROVE  IInv'
<1> DEFINE u == ctx[h].spec.uuid
           r == [resources[u] EXCEPT !.state = ctx[h].seen.status]
<1>1. pc[h] = "status_find" /\ UNCHANGED <<db, vcluster, clock, accepted, acked>>
  BY DEF StatusFind
<1>2. CASE ~IsLive(u) /\ Return(h, "status_find")
  BY <1>1, <1>2, ReturnOnlyOK
<1>3. CASE /\ IsLive(u) /\ Goto(h, "status_find", "status_save")
           /\ ctx' = [ctx EXCEPT ![h].row = r]
  <2>1. /\ ctx[h].spec \in SpecId /\ u \in Uuids /\ ctx[h].seen \in Tf /\ ctx[h] \in Ctx
        /\ resources[u] \in Row /\ ~resources[u].deleted /\ resources[u] # Null
    BY <1>1, <1>3 DEF IInv, HandlerOK, HasSpec, HasSeen, TypeOK, SpecId, IsLive
  <2>2. r \in Row /\ ~r.deleted /\ r.created = resources[u].created
    BY <2>1 DEF Row, Tf
  <2> HIDE DEF r
  <2>3. /\ pc'[h] = "status_save" /\ ctx'[h] = [ctx[h] EXCEPT !.row = r]
        /\ \A i \in Handlers \ {h} : pc'[i] = pc[i] /\ ctx'[i] = ctx[i]
    BY <1>3 DEF IInv, TypeOK, Goto
  <2>4. /\ ctx'[h] \in Ctx /\ ctx'[h].row = r /\ ctx'[h].spec = ctx[h].spec
        /\ ctx'[h].olds = ctx[h].olds
    BY <2>1, <2>2, <2>3 DEF Ctx
  <2>5. TypeOK'
    <3>1. ctx' \in [Handlers -> Ctx] /\ pc' \in [Handlers -> Labels]
      BY <1>3, <2>3, <2>4 DEF IInv, TypeOK, Goto, Labels
    <3>2. QED
      BY <1>1, <3>1 DEF IInv, TypeOK, db, vcluster
  <2>6. Kept /\ DeletesSuperseded
    BY <1>1, TablesUnchanged DEF Kept, SecretsKept, vcluster
  <2>7. AppliedIsRecorded'
    BY <1>1, <2>6, RecordStays DEF IInv, vcluster
  <2>8. HandlerOK(h)'
    <3>1. SweepsSuperseded(h)'
      BY <1>1, <2>4 DEF IInv, HandlerOK, SweepsSuperseded, db
    <3>2. QED
      BY <1>1, <2>1, <2>2, <2>3, <2>4, <3>1
      DEF HandlerOK, HasSpec, CarriesRow, WritesLiveRow, HasStored, HasSeen, db,
          Sweeping, Recording, Applying
  <2>9. QED
    BY <2>3, <2>5, <2>6, <2>7, <2>8, StepOK
<1>4. QED
  BY <1>2, <1>3 DEF StatusFind

LEMMA FailOK ==
  ASSUME IInv, NEW h \in Handlers, Fail(h)
  PROVE  IInv'
BY ReturnOnlyOK DEF Fail

\* The controller's write keeps the spec of the object and moves its version on.
LEMMA ControllerWrites ==
  ASSUME IInv, NEW k \in Keys, ControllerReports(k)
  PROVE  /\ tfs'[k] \in Tf
         /\ tfs'[k].uuid = tfs[k].uuid /\ tfs'[k].gen = tfs[k].gen
         /\ tfs'[k].rv > tfs[k].rv
         /\ tfs' = [tfs EXCEPT ![k] = tfs'[k]]
<1> DEFINE f == tfs[k]
           s == SpecOf(tfs[k])
<1>1. f \in Tf /\ s \in SpecId
  BY ReadsRecordedTf DEF ControllerReports
<1>2. tfs' = [tfs EXCEPT ![k] = [f EXCEPT !.status = s, !.rv = f.rv + 1]]
  BY <1>1 DEF ControllerReports, IInv, TypeOK
<1>3. tfs'[k] = [f EXCEPT !.status = s, !.rv = f.rv + 1]
  BY <1>2 DEF IInv, TypeOK
<1> HIDE DEF s, f
<1>4. f.rv \in Nat /\ tfs'[k] = [uuid |-> f.uuid, gen |-> f.gen, status |-> s, rv |-> f.rv + 1]
  BY <1>1, <1>3 DEF Tf
<1>5. tfs'[k] \in Tf /\ tfs'[k].uuid = f.uuid /\ tfs'[k].gen = f.gen /\ tfs'[k].rv > f.rv
  BY <1>1, <1>4 DEF Tf
<1>6. tfs' = [tfs EXCEPT ![k] = tfs'[k]]
  BY <1>2, <1>3
<1>7. QED
  BY <1>5, <1>6 DEF f

LEMMA ControllerReportsOK ==
  ASSUME IInv, NEW k \in Keys, ControllerReports(k)
  PROVE  IInv'
<1>1. tfs[k] # Null /\ UNCHANGED <<db, secrets, issued, outdated, clock, accepted, acked, pc, ctx>>
  BY DEF ControllerReports
<1>2. AppliedIsRecorded' /\ tfs' \in [Keys -> Tf \cup {Null}]
  <2> DEFINE t == tfs'[k]
  <2>1. /\ t \in Tf /\ t.uuid = tfs[k].uuid /\ t.gen = tfs[k].gen
        /\ tfs' = [tfs EXCEPT ![k] = t]
    BY ControllerWrites
  <2> HIDE DEF t
  <2>2. t.uuid \in Uuids
    BY <2>1 DEF Tf
  <2>3. /\ KeyOf[t.uuid] = k /\ resources[t.uuid] # Null
        /\ specs[t.uuid][t.gen] > 0 /\ secrets[k] # Null
    BY <1>1, <2>1 DEF IInv, AppliedIsRecorded
  <2>4. QED
    BY <1>1, <2>1, <2>2, <2>3, RecordWritten
<1>3. Kept /\ DeletesSuperseded
  BY <1>1, TablesUnchanged DEF Kept, SecretsKept
<1>4. TypeOK'
  BY <1>1, <1>2 DEF IInv, TypeOK, db
<1>5. NewestIsLive'
  BY <1>3, NewestStaysLive DEF IInv, Kept
<1>6. \A i \in Handlers : HandlerOK(i)'
  BY <1>1, <1>3, BystanderOK DEF IInv
<1>7. QED
  BY <1>2, <1>4, <1>5, <1>6 DEF IInv

LEMMA StutterOK == IInv /\ UNCHANGED vars => IInv'
<1> SUFFICES ASSUME IInv, UNCHANGED vars PROVE IInv'
  OBVIOUS
<1>1. TypeOK'
  BY DEF IInv, TypeOK, vars
<1>2. Kept /\ DeletesSuperseded
  BY TablesUnchanged DEF Kept, SecretsKept, vars, db
<1>3. AppliedIsRecorded' /\ NewestIsLive'
  BY <1>2, RecordStays, NewestStaysLive DEF IInv, Kept, vars
<1>4. \A i \in Handlers : HandlerOK(i)'
  BY <1>2, BystanderOK DEF IInv, vars
<1>5. QED
  BY <1>1, <1>3, <1>4 DEF IInv

-----------------------------------------------------------------------------
\* The strengthened invariant is inductive: one step per action of Next.
LEMMA NextOK == IInv /\ [Next]_vars => IInv'
<1> SUFFICES ASSUME IInv, [Next]_vars PROVE IInv'
  OBVIOUS
<1>1. ASSUME NEW h \in Handlers, NEW s \in SpecId, PostResource(h, s) PROVE IInv'
  BY <1>1, PostResourceOK
<1>2. ASSUME NEW h \in Handlers, NEW s \in SpecId, PutResource(h, s) PROVE IInv'
  BY <1>2, PutResourceOK
<1>3. ASSUME NEW h \in Handlers, NEW s \in issued, TaskStatus(h, s) PROVE IInv'
  BY <1>3, TaskStatusOK
<1>4. ASSUME NEW h \in Handlers, NEW k \in Keys, Rerun(h, k) PROVE IInv'
  BY <1>4, RerunOK
<1>5. ASSUME NEW h \in Handlers, NEW k \in Keys, StatusCheck(h, k) PROVE IInv'
  BY <1>5, StatusCheckOK
<1>6. ASSUME NEW h \in Handlers, NEW u \in Uuids, TokenPatch(h, u) PROVE IInv'
  BY <1>6, TokenPatchOK
<1>6a. ASSUME NEW h \in Handlers, NEW s \in issued, Exchange(h, s) PROVE IInv'
  BY <1>6a, ExchangeOK
<1>7. ASSUME NEW h \in Handlers, Step(h) PROVE IInv'
  BY <1>7, AddCreateOK, UpdateSaveOK, SweepFindOK, SweepFindFailsOK, SweepSaveOK,
     SweepDeleteOK, SpecFindOK, SpecCreateOK, IssueTokenOK, ListTfsOK, WriteTfOK,
     RerunUpdateOK, StatusFindOK, StatusSaveOK DEF Step
<1>8. ASSUME NEW h \in Handlers, Fail(h) PROVE IInv'
  BY <1>8, FailOK
<1>9. ASSUME NEW k \in Keys, ControllerReports(k) PROVE IInv'
  BY <1>9, ControllerReportsOK
<1>10. CASE Waiting \/ UNCHANGED vars
  BY <1>10, StutterOK DEF Waiting
<1>11. QED
  BY <1>1, <1>2, <1>3, <1>4, <1>5, <1>6, <1>6a, <1>7, <1>8, <1>9, <1>10 DEF Next, Request

\* What every handler's locals are worth when it uses them, in every behaviour:
\* the inductive invariant that the theorems below draw on.
THEOREM Invariance == Spec => []IInv
<1>1. QED
  BY InitOK, NextOK, PTL DEF Spec

-----------------------------------------------------------------------------
\* Every variable stays within its type, in every behaviour, with faults and
\* any number of handlers: no request ever saves, signs or applies a missing row,
\* claim or object.
THEOREM TypeCorrect == Spec => []TypeOK
<1>1. IInv => TypeOK
  BY DEF IInv
<1>2. QED
  BY Invariance, <1>1, PTL

\* The newest resource of a cluster/namespace/name is never soft-deleted by
\* deleteInfra3ResourcesExceptNewest, whatever requests interleave and fail.
THEOREM NewestNeverDeleted == Spec => []NewestIsLive
<1>1. IInv => NewestIsLive
  BY DEF IInv
<1>2. QED
  BY Invariance, <1>1, PTL

\* Every Tf object and task secret of a vcluster is backed by a resource row
\* and a spec row, because addResource and updateResource apply last.
THEOREM AppliedAlwaysRecorded == Spec => []AppliedIsRecorded
<1>1. IInv => AppliedIsRecorded
  BY DEF IInv
<1>2. QED
  BY Invariance, <1>1, PTL

-----------------------------------------------------------------------------
(***************************************************************************)
(* Tf objects: the resourceVersion identifies what a handler has read.     *)
(***************************************************************************)
Holding == {"tf_write", "rerun_update"}

\* An object read and not yet written is the stored one or an older version.
SeenIsOld(h) ==
  pc[h] \in Holding /\ ctx[h].seen # Null =>
    /\ tfs[KeyFor(h)] # Null
    /\ ctx[h].seen.rv <= tfs[KeyFor(h)].rv
    /\ ctx[h].seen.rv = tfs[KeyFor(h)].rv => ctx[h].seen = tfs[KeyFor(h)]

VersionInv == IInv /\ \A h \in Handlers : SeenIsOld(h)

\* A Tf object stays, and changes only with its version.
TfsMove ==
  \A k \in Keys : tfs[k] # Null =>
    tfs'[k] # Null /\ (tfs'[k] = tfs[k] \/ tfs'[k].rv > tfs[k].rv)

\* A handler holds what it held, or has just read the stored object.
ReadsCurrent(h) ==
  pc'[h] \in Holding =>
    \/ pc'[h] = pc[h] /\ ctx'[h] = ctx[h]
    \/ ctx'[h].seen = tfs[KeyOf[ctx'[h].spec.uuid]] /\ UNCHANGED tfs

LEMMA SeenStaysOld ==
  ASSUME IInv, IInv', NEW h \in Handlers, SeenIsOld(h), TfsMove, ReadsCurrent(h)
  PROVE  SeenIsOld(h)'
<1> DEFINE k == KeyFor(h)'
<1> SUFFICES ASSUME pc'[h] \in Holding, ctx'[h].seen # Null
             PROVE  /\ tfs'[k] # Null
                    /\ ctx'[h].seen.rv <= tfs'[k].rv
                    /\ ctx'[h].seen.rv = tfs'[k].rv => ctx'[h].seen = tfs'[k]
  BY DEF SeenIsOld
<1>1. k \in Keys /\ k = KeyOf[ctx'[h].spec.uuid] /\ ctx'[h].seen \in Tf
  BY KeysAssumption DEF IInv, TypeOK, HandlerOK, HasSpec, SpecId, KeyFor, Holding, Ctx
<1>2. CASE pc'[h] = pc[h] /\ ctx'[h] = ctx[h]
  <2>1. /\ k = KeyFor(h) /\ tfs[k] # Null /\ ctx'[h].seen.rv <= tfs[k].rv
        /\ ctx'[h].seen.rv = tfs[k].rv => ctx'[h].seen = tfs[k]
    BY <1>2 DEF SeenIsOld, KeyFor
  <2>2. tfs'[k] # Null /\ (tfs'[k] = tfs[k] \/ tfs'[k].rv > tfs[k].rv)
    BY <1>1, <2>1 DEF TfsMove
  <2>3. tfs[k].rv \in Nat /\ tfs'[k].rv \in Nat /\ ctx'[h].seen.rv \in Nat
    BY <1>1, <2>1, <2>2 DEF IInv, TypeOK, Tf
  <2> HIDE DEF k
  <2>4. QED
    BY <2>1, <2>2, <2>3
<1>3. CASE ctx'[h].seen = tfs[k] /\ UNCHANGED tfs
  <2>1. ctx'[h].seen.rv \in Nat
    BY <1>1 DEF Tf
  <2> HIDE DEF k
  <2>2. QED
    BY <1>3, <2>1
<1>4. QED
  BY <1>1, <1>2, <1>3 DEF ReadsCurrent

\* A write that is accepted is of the next version of what it read.
LEMMA AcceptedMoves ==
  ASSUME IInv, NEW k \in Keys, NEW seen \in Tf \cup {Null}, NEW t \in Tf,
         WriteAccepted(seen, tfs[k]), seen # Null => t.rv = seen.rv + 1,
         tfs' = [tfs EXCEPT ![k] = t]
  PROVE  TfsMove
<1>1. tfs'[k] = t /\ \A j \in Keys \ {k} : tfs'[j] = tfs[j]
  BY DEF IInv, TypeOK
<1>2. ASSUME tfs[k] # Null PROVE t.rv > tfs[k].rv /\ t # Null
  <2>1. seen # Null /\ tfs[k].rv = seen.rv
    BY <1>2 DEF WriteAccepted
  <2>2. seen.rv \in Nat /\ t.rv = seen.rv + 1
    BY <2>1 DEF Tf
  <2>3. QED
    BY <2>1, <2>2, NullAssumption
<1>3. QED
  BY <1>1, <1>2 DEF TfsMove

LEMMA WriteTfMoves ==
  ASSUME IInv, NEW h \in Handlers, WriteTf(h)
  PROVE  TfsMove
<1> DEFINE s == ctx[h].spec
           k == KeyOf[s.uuid]
           t == Applied(ctx[h].seen, s)
<1>1. s \in SpecId /\ k \in Keys /\ ctx[h].seen \in Tf \cup {Null}
  BY KeysAssumption DEF WriteTf, Return, Goto, IInv, TypeOK, Ctx, HandlerOK, HasSpec, SpecId
<1>2. t \in Tf /\ (ctx[h].seen # Null => t.rv = ctx[h].seen.rv + 1)
  BY <1>1 DEF Applied, Tf, SpecId
<1>3. \/ WriteAccepted(ctx[h].seen, tfs[k]) /\ tfs' = [tfs EXCEPT ![k] = t]
      \/ tfs' = tfs
  BY DEF WriteTf, KeyFor
<1> HIDE DEF t
<1>4. CASE WriteAccepted(ctx[h].seen, tfs[k]) /\ tfs' = [tfs EXCEPT ![k] = t]
  BY <1>1, <1>2, <1>4, AcceptedMoves
<1>5. QED
  BY <1>3, <1>4 DEF TfsMove

LEMMA RerunUpdateMoves ==
  ASSUME IInv, NEW h \in Handlers, RerunUpdate(h)
  PROVE  TfsMove
<1> DEFINE k == KeyOf[ctx[h].spec.uuid]
           t == [ctx[h].seen EXCEPT !.rv = @ + 1]
<1>1. ctx[h].spec \in SpecId /\ k \in Keys /\ ctx[h].seen \in Tf
  BY KeysAssumption DEF RerunUpdate, Return, Goto, IInv, HandlerOK, HasSpec, HasSeen, SpecId
<1>2. t \in Tf /\ t.rv = ctx[h].seen.rv + 1
  BY <1>1 DEF Tf
<1>3. \/ WriteAccepted(ctx[h].seen, tfs[k]) /\ tfs' = [tfs EXCEPT ![k] = t]
      \/ tfs' = tfs
  BY DEF RerunUpdate, KeyFor
<1> HIDE DEF t
<1>4. CASE WriteAccepted(ctx[h].seen, tfs[k]) /\ tfs' = [tfs EXCEPT ![k] = t]
  BY <1>1, <1>2, <1>4, AcceptedMoves
<1>5. QED
  BY <1>3, <1>4 DEF TfsMove

LEMMA ControllerMoves ==
  ASSUME IInv, NEW k \in Keys, ControllerReports(k)
  PROVE  TfsMove
<1>1. \A j \in Keys \ {k} : tfs'[j] = tfs[j]
  BY DEF ControllerReports, IInv, TypeOK
<1>2. tfs'[k] \in Tf /\ tfs'[k].rv > tfs[k].rv
  BY ControllerWrites
<1>3. QED
  BY <1>1, <1>2, NullAssumption DEF TfsMove

\* Steps that leave Tf objects alone.
LEMMA OthersMove ==
  ASSUME UNCHANGED tfs
  PROVE  TfsMove
BY DEF TfsMove

LEMMA NextMoves ==
  ASSUME IInv, [Next]_vars
  PROVE  TfsMove /\ \A h \in Handlers : ReadsCurrent(h)
<1> USE DEF IInv, TypeOK
<1>1. ASSUME NEW h \in Handlers, Request(h) PROVE TfsMove /\ \A i \in Handlers : ReadsCurrent(i)
  <2>1. UNCHANGED tfs
    BY <1>1 DEF Request, PostResource, PutResource, TaskStatus, Rerun, StatusCheck,
                TokenPatch, Exchange, vcluster
  <2>2. \A i \in Handlers \ {h} : pc'[i] = pc[i] /\ ctx'[i] = ctx[i]
    BY <1>1 DEF Request, PostResource, PutResource, TaskStatus, Rerun, StatusCheck,
                TokenPatch, Exchange, Begin, Goto
  <2>3. ReadsCurrent(h)
    <3>1. ASSUME NEW k \in Keys, Rerun(h, k) PROVE ReadsCurrent(h)
      <4>1. ctx'[h].spec = SpecOf(tfs[k]) /\ ctx'[h].seen = tfs[k] /\ tfs[k] # Null
        BY <3>1 DEF Rerun, Begin, IdleCtx
      <4>2. QED
        BY <2>1, <4>1, ReadsRecordedTf DEF ReadsCurrent
    <3>2. ASSUME NEW s \in SpecId, PostResource(h, s) \/ PutResource(h, s) PROVE ReadsCurrent(h)
      BY <3>2 DEF PostResource, PutResource, Begin, Goto, ReadsCurrent, Holding
    <3>3. ASSUME NEW s \in issued, TaskStatus(h, s) PROVE ReadsCurrent(h)
      BY <3>3 DEF TaskStatus, Begin, Goto, ReadsCurrent, Holding
    <3>4. ASSUME NEW k \in Keys, StatusCheck(h, k) PROVE ReadsCurrent(h)
      BY <3>4 DEF StatusCheck, Begin, Goto, ReadsCurrent, Holding
    <3>5. ASSUME NEW u \in Uuids, TokenPatch(h, u) PROVE ReadsCurrent(h)
      BY <3>5 DEF TokenPatch, Begin, Goto, ReadsCurrent, Holding
    <3>6. ASSUME NEW s \in issued, Exchange(h, s) PROVE ReadsCurrent(h)
      BY <3>6 DEF Exchange, Begin, Goto, ReadsCurrent, Holding
    <3>7. QED
      BY <1>1, <3>1, <3>2, <3>3, <3>4, <3>5, <3>6 DEF Request
  <2>4. QED
    BY <2>1, <2>2, <2>3, OthersMove DEF ReadsCurrent
<1>2. ASSUME NEW h \in Handlers, Step(h) PROVE TfsMove /\ \A i \in Handlers : ReadsCurrent(i)
  <2>1. CASE ListTfs(h)
    <3>1. /\ pc'[h] = "tf_write" /\ UNCHANGED tfs
          /\ ctx'[h].seen = tfs[KeyFor(h)] /\ ctx'[h].spec = ctx[h].spec
          /\ \A i \in Handlers \ {h} : pc'[i] = pc[i] /\ ctx'[i] = ctx[i]
      BY <2>1 DEF ListTfs, Goto, vcluster, Ctx
    <3>2. QED
      BY <3>1, OthersMove DEF ReadsCurrent, KeyFor
  <2>2. CASE WriteTf(h)
    BY <2>2, WriteTfMoves DEF WriteTf, Return, Goto, ReadsCurrent, Holding
  <2>3. CASE RerunUpdate(h)
    BY <2>3, RerunUpdateMoves DEF RerunUpdate, Return, Goto, ReadsCurrent, Holding
  <2>4. CASE AddCreate(h) \/ UpdateSave(h) \/ SweepFind(h) \/ SweepFindFails(h)
             \/ SweepSave(h) \/ SweepDelete(h)
    <3>1. UNCHANGED tfs
      BY <2>4 DEF AddCreate, UpdateSave, SweepFind, SweepFindFails, SweepSave, SweepDelete, vcluster
    <3>2. /\ pc'[h] \notin Holding
          /\ \A i \in Handlers \ {h} : pc'[i] = pc[i] /\ ctx'[i] = ctx[i]
      BY <2>4 DEF AddCreate, UpdateSave, SweepFind, SweepFindFails, SweepSave, SweepDelete,
                  Return, Goto, AfterSweep, Holding
    <3>3. QED
      BY <3>1, <3>2, OthersMove DEF ReadsCurrent
  <2>5. CASE SpecFind(h) \/ SpecCreate(h) \/ IssueToken(h) \/ StatusFind(h) \/ StatusSave(h)
    <3>1. UNCHANGED tfs
      BY <2>5 DEF SpecFind, SpecCreate, IssueToken, StatusFind, StatusSave, vcluster
    <3>2. /\ pc'[h] \notin Holding
          /\ \A i \in Handlers \ {h} : pc'[i] = pc[i] /\ ctx'[i] = ctx[i]
      BY <2>5 DEF SpecFind, SpecCreate, IssueToken, StatusFind, StatusSave, Return, Goto, Holding
    <3>3. QED
      BY <3>1, <3>2, OthersMove DEF ReadsCurrent
  <2>6. QED
    BY <1>2, <2>1, <2>2, <2>3, <2>4, <2>5 DEF Step
<1>3. ASSUME NEW h \in Handlers, Fail(h) PROVE TfsMove /\ \A i \in Handlers : ReadsCurrent(i)
  BY <1>3, OthersMove DEF Fail, Return, Goto, vcluster, ReadsCurrent, Holding
<1>4. ASSUME NEW k \in Keys, ControllerReports(k) PROVE TfsMove /\ \A i \in Handlers : ReadsCurrent(i)
  BY <1>4, ControllerMoves DEF ControllerReports, ReadsCurrent
<1>5. CASE Waiting \/ UNCHANGED vars
  BY <1>5, OthersMove DEF Waiting, vars, ReadsCurrent
<1>6. QED
  BY <1>1, <1>2, <1>3, <1>4, <1>5 DEF Next

LEMMA VersionInvariance == Spec => []VersionInv
<1>1. Init => VersionInv
  BY InitOK DEF Init, VersionInv, SeenIsOld, Holding
<1>2. VersionInv /\ [Next]_vars => VersionInv'
  BY NextOK, NextMoves, SeenStaysOld DEF VersionInv
<1>3. QED
  BY <1>1, <1>2, PTL DEF Spec

\* What a step writes over a Tf object: a new spec with the stored status, the
\* object itself, or a new status.
LEMMA WritesOneSide ==
  ASSUME VersionInv, Next, NEW k \in Keys, tfs[k] # Null
  PROVE  tfs'[k].status = tfs[k].status \/ SpecOf(tfs'[k]) = SpecOf(tfs[k])
<1> USE DEF VersionInv, IInv, TypeOK
<1>1. ASSUME NEW h \in Handlers, Request(h) PROVE tfs'[k] = tfs[k]
  BY <1>1 DEF Request, PostResource, PutResource, TaskStatus, Rerun, StatusCheck,
              TokenPatch, Exchange, vcluster
<1>2. ASSUME NEW h \in Handlers, WriteTf(h), k = KeyFor(h), WriteAccepted(ctx[h].seen, tfs[k])
      PROVE  tfs'[k].status = tfs[k].status
  <2>1. /\ pc[h] \in Holding /\ ctx[h].seen # Null /\ ctx[h].seen.rv = tfs[k].rv
        /\ tfs'[k] = Applied(ctx[h].seen, ctx[h].spec)
    BY <1>2 DEF WriteTf, Return, Goto, WriteAccepted, Holding
  <2>2. ctx[h].seen = tfs[k]
    BY <1>2, <2>1 DEF SeenIsOld
  <2>3. QED
    BY <2>1, <2>2 DEF Applied
<1>3. ASSUME NEW h \in Handlers, RerunUpdate(h), k = KeyFor(h), WriteAccepted(ctx[h].seen, tfs[k])
      PROVE  tfs'[k].status = tfs[k].status
  <2>1. /\ pc[h] \in Holding /\ ctx[h].seen # Null /\ ctx[h].seen.rv = tfs[k].rv
        /\ tfs'[k] = [ctx[h].seen EXCEPT !.rv = @ + 1]
    BY <1>3 DEF RerunUpdate, Return, Goto, WriteAccepted, Holding
  <2>2. ctx[h].seen = tfs[k] /\ tfs[k] \in Tf
    BY <1>3, <2>1 DEF SeenIsOld
  <2>3. QED
    BY <2>1, <2>2 DEF Tf
<1>4. ASSUME NEW h \in Handlers, WriteTf(h) \/ RerunUpdate(h),
             ~(k = KeyFor(h) /\ WriteAccepted(ctx[h].seen, tfs[k]))
      PROVE  tfs'[k] = tfs[k]
  BY <1>4 DEF WriteTf, RerunUpdate
<1>5. ASSUME NEW h \in Handlers, Step(h), ~WriteTf(h), ~RerunUpdate(h) PROVE tfs'[k] = tfs[k]
  BY <1>5 DEF Step, AddCreate, UpdateSave, SweepFind, SweepFindFails, SweepSave, SweepDelete,
              SpecFind, SpecCreate, IssueToken, ListTfs, StatusFind, StatusSave, vcluster
<1>6. ASSUME NEW h \in Handlers, Step(h)
      PROVE  tfs'[k].status = tfs[k].status \/ SpecOf(tfs'[k]) = SpecOf(tfs[k])
  BY <1>2, <1>3, <1>4, <1>5, <1>6
<1>7. ASSUME NEW h \in Handlers, Fail(h) PROVE tfs'[k] = tfs[k]
  BY <1>7 DEF Fail, vcluster
<1>8. ASSUME NEW j \in Keys, ControllerReports(j) PROVE SpecOf(tfs'[k]) = SpecOf(tfs[k])
  <2>1. CASE j = k
    BY <1>8, <2>1, ControllerWrites DEF SpecOf
  <2>2. CASE j # k
    BY <1>8, <2>2 DEF ControllerReports
  <2>3. QED
    BY <2>1, <2>2
<1>9. CASE Waiting
  BY <1>9 DEF Waiting, vars
<1>10. QED
  BY <1>1, <1>6, <1>7, <1>8, <1>9 DEF Next

\* doPatch, rerun and the controller never undo one another's half of a Tf
\* object: optimistic concurrency on resourceVersion is enough, because every
\* writer sends back a version it has read whole.
THEOREM TfWritesNeverClobber == Spec => TfWritesDoNotClobber
<1> DEFINE OneSide == \A k \in Keys : tfs[k] # Null /\ tfs'[k] # Null =>
                        \/ tfs'[k].status = tfs[k].status
                        \/ SpecOf(tfs'[k]) = SpecOf(tfs[k])
<1>1. VersionInv /\ [Next]_vars => [OneSide]_vars
  BY WritesOneSide
<1>2. QED
  BY <1>1, VersionInvariance, PTL DEF Spec, TfWritesDoNotClobber

-----------------------------------------------------------------------------
(***************************************************************************)
(* The spec row of a stored generation, as long as nothing fails: it is on *)
(* record, or a request that is past the write of its row will create it.  *)
(* So it is for the generation of every copy that may be written back.     *)
(***************************************************************************)
Promising == Sweeping \cup Recording

Promised(u, g) ==
  \/ specs[u][g] > 0
  \/ \E h \in Handlers : pc[h] \in Promising /\ ctx[h].spec = [uuid |-> u, gen |-> g]

RowsPromised ==
  \A u \in Uuids, g \in Generations :
    resources[u] # Null /\ resources[u].gen = g => Promised(u, g)
StatusPromised(h) ==
  \A s \in SpecId :
    pc[h] = "status_save" /\ ctx[h].spec.uuid = s.uuid /\ ctx[h].row.gen = s.gen =>
      Promised(s.uuid, s.gen)
SweepPromised(h) ==
  \A u \in Uuids, g \in Generations :
    pc[h] = "sweep_save" /\ ctx[h].olds[u] # Null /\ ctx[h].olds[u].gen = g => Promised(u, g)

SpecInv ==
  /\ IInv
  /\ RowsPromised
  /\ \A h \in Handlers : StatusPromised(h) /\ SweepPromised(h)

\* A step of one handler leaves the others where they stand.
LEMMA OnlyOneMoves ==
  ASSUME TypeOK, NEW h \in Handlers, Request(h) \/ Step(h)
  PROVE  \A i \in Handlers \ {h} : pc'[i] = pc[i] /\ ctx'[i] = ctx[i]
<1> USE DEF TypeOK
<1>1. CASE Request(h)
  BY <1>1 DEF Request, PostResource, PutResource, TaskStatus, Rerun, StatusCheck,
              TokenPatch, Exchange, Begin, Goto
<1>2. CASE AddCreate(h) \/ UpdateSave(h) \/ SweepFind(h) \/ SweepFindFails(h)
           \/ SweepSave(h) \/ SweepDelete(h) \/ SpecFind(h) \/ SpecCreate(h)
  BY <1>2 DEF AddCreate, UpdateSave, SweepFind, SweepFindFails, SweepSave, SweepDelete,
              SpecFind, SpecCreate, Return, Goto
<1>3. CASE IssueToken(h) \/ ListTfs(h) \/ WriteTf(h) \/ RerunUpdate(h) \/ StatusFind(h)
           \/ StatusSave(h)
  BY <1>3 DEF IssueToken, ListTfs, WriteTf, RerunUpdate, StatusFind, StatusSave, Return, Goto
<1>4. QED
  BY <1>1, <1>2, <1>3 DEF Step

\* Spec rows are only added.
LEMMA SpecsGrow ==
  ASSUME TypeOK, [Next]_vars, NEW u \in Uuids, NEW g \in Generations, specs[u][g] > 0
  PROVE  specs'[u][g] > 0
<1>1. CASE UNCHANGED specs
  BY <1>1
<1>2. ASSUME NEW h \in Handlers, SpecCreate(h) PROVE specs'[u][g] > 0
  BY <1>2 DEF SpecCreate, TypeOK
<1>3. ASSUME NEW h \in Handlers, Request(h) \/ Fail(h) PROVE UNCHANGED specs
  BY <1>3 DEF Request, PostResource, PutResource, TaskStatus, Rerun, StatusCheck,
              TokenPatch, Exchange, Fail, db
<1>4. ASSUME NEW h \in Handlers, Step(h), ~SpecCreate(h) PROVE UNCHANGED specs
  BY <1>4 DEF Step, AddCreate, UpdateSave, SweepFind, SweepFindFails, SweepSave, SweepDelete,
              SpecFind, IssueToken, ListTfs, WriteTf, RerunUpdate, StatusFind, StatusSave, db
<1>5. ASSUME NEW k \in Keys, ControllerReports(k) PROVE UNCHANGED specs
  BY <1>5 DEF ControllerReports, db
<1>6. CASE Waiting \/ UNCHANGED vars
  BY <1>6 DEF Waiting, vars
<1>7. QED
  BY <1>1, <1>2, <1>3, <1>4, <1>5, <1>6 DEF Next

\* A handler that has promised a spec row goes on, or has created it.
LEMMA PromiserGoesOn ==
  ASSUME IInv, ~Faults, [Next]_vars, NEW h \in Handlers, NEW u \in Uuids, NEW g \in Generations,
         pc[h] \in Promising, ctx[h].spec = [uuid |-> u, gen |-> g]
  PROVE  Promised(u, g)'
<1> USE DEF Promising, Sweeping, Recording
<1>1. CASE pc'[h] = pc[h] /\ ctx'[h] = ctx[h]
  BY <1>1 DEF Promised
<1>2. CASE Request(h)
  BY <1>2 DEF Request, PostResource, PutResource, TaskStatus, Rerun, StatusCheck,
              TokenPatch, Exchange, Begin, Goto
<1>3. CASE SweepFind(h)
  <2>1. pc'[h] \in Promising /\ ctx'[h].spec = ctx[h].spec
    BY <1>3 DEF SweepFind, Goto, AfterSweep, IInv, TypeOK, Ctx
  <2>2. QED
    BY <2>1 DEF Promised
<1>4. CASE SweepFindFails(h) \/ SweepSave(h) \/ SweepDelete(h)
  <2>1. pc'[h] \in Promising /\ ctx'[h].spec = ctx[h].spec
    BY <1>4 DEF SweepFindFails, SweepSave, SweepDelete, Goto, AfterSweep, IInv, TypeOK
  <2>2. QED
    BY <2>1 DEF Promised
<1>5. CASE SpecFind(h)
  <2>1. ctx[h].row.gen = g /\ ctx[h].spec.uuid = u /\ specs[u][g] \in Nat
    BY DEF IInv, TypeOK, HandlerOK, CarriesRow
  <2>2. CASE specs[u][g] = 0
    <3>1. pc'[h] = "spec_create" /\ ctx'[h] = ctx[h]
      BY <1>5, <2>1, <2>2 DEF SpecFind, Goto, IInv, TypeOK
    <3>2. QED
      BY <3>1 DEF Promised
  <2>3. CASE specs[u][g] > 0
    BY <2>3, SpecsGrow DEF Promised, IInv
  <2>4. QED
    BY <2>1, <2>2, <2>3
<1>6. CASE SpecCreate(h)
  <2>1. specs'[u][g] > 0
    BY <1>6 DEF SpecCreate, IInv, TypeOK
  <2>2. QED
    BY <2>1 DEF Promised
<1>7. CASE Step(h)
  BY <1>3, <1>4, <1>5, <1>6, <1>7
     DEF Step, AddCreate, UpdateSave, IssueToken, ListTfs, WriteTf, RerunUpdate, StatusFind,
         StatusSave, Return, Goto
<1>8. CASE \E i \in Handlers \ {h} : Request(i) \/ Step(i)
  BY <1>1, <1>8, OnlyOneMoves DEF IInv
<1>9. CASE (\E k \in Keys : ControllerReports(k)) \/ Waiting \/ UNCHANGED vars
  BY <1>1, <1>9 DEF ControllerReports, Waiting, vars
<1>10. QED
  BY <1>2, <1>7, <1>8, <1>9 DEF Next, Fail

LEMMA PromiseKept ==
  ASSUME IInv, ~Faults, [Next]_vars, NEW u \in Uuids, NEW g \in Generations, Promised(u, g)
  PROVE  Promised(u, g)'
<1>1. CASE specs[u][g] > 0
  BY <1>1, SpecsGrow DEF Promised, IInv
<1>2. QED
  BY <1>1, PromiserGoesOn DEF Promised

\* What is promised of the rows before a step that writes none is promised after.
LEMMA RowsStayPromised ==
  ASSUME SpecInv, ~Faults, [Next]_vars, UNCHANGED resources
  PROVE  RowsPromised'
BY PromiseKept DEF SpecInv, RowsPromised

\* A copy that is only carried on stays promised.
LEMMA CopiesStayPromised ==
  ASSUME SpecInv, ~Faults, [Next]_vars, NEW h \in Handlers,
         pc'[h] = pc[h] /\ ctx'[h] = ctx[h]
  PROVE  StatusPromised(h)' /\ SweepPromised(h)'
<1>1. StatusPromised(h)'
  BY PromiseKept DEF SpecInv, StatusPromised, SpecId
<1>2. SweepPromised(h)'
  BY PromiseKept DEF SpecInv, SweepPromised
<1>3. QED
  BY <1>1, <1>2

\* A status report, and the update of the status check, carry the generation of
\* the row they read.
LEMMA StatusReadPromised ==
  ASSUME SpecInv, ~Faults, [Next]_vars, NEW h \in Handlers, NEW u \in Uuids,
         resources[u] # Null, UNCHANGED resources, ctx'[h].spec.uuid = u,
         ctx'[h].row.gen = resources[u].gen, pc'[h] # "sweep_save"
  PROVE  StatusPromised(h)' /\ SweepPromised(h)'
<1>1. RowsPromised'
  BY RowsStayPromised
<1>2. QED
  BY <1>1 DEF StatusPromised, SweepPromised, RowsPromised, SpecId

LEMMA TaskStatusPromised ==
  ASSUME SpecInv, ~Faults, NEW h \in Handlers, NEW s \in issued, TaskStatus(h, s), [Next]_vars
  PROVE  StatusPromised(h)' /\ SweepPromised(h)'
<1> USE DEF SpecInv, IInv, TypeOK
<1>1. /\ s \in SpecId /\ s.uuid \in Uuids
      /\ resources[s.uuid] \in Row /\ resources[s.uuid] # Null
      /\ ctx'[h].spec = s /\ ctx'[h].row = [resources[s.uuid] EXCEPT !.state = s]
      /\ pc'[h] = "status_save" /\ UNCHANGED resources
  BY DEF TaskStatus, IsLive, Begin, Goto, IdleCtx, SpecId, db
<1>2. ctx'[h].row.gen = resources[s.uuid].gen
  BY <1>1 DEF Row
<1>3. QED
  BY <1>1, <1>2, StatusReadPromised

LEMMA StatusFindPromised ==
  ASSUME SpecInv, ~Faults, NEW h \in Handlers, StatusFind(h), [Next]_vars
  PROVE  StatusPromised(h)' /\ SweepPromised(h)'
<1> USE DEF SpecInv, IInv, TypeOK
<1> DEFINE u == ctx[h].spec.uuid
<1>1. UNCHANGED resources /\ u \in Uuids
  BY DEF StatusFind, Goto, Return, db, HandlerOK, HasSpec, SpecId
<1>2. CASE IsLive(u) /\ pc'[h] = "status_save"
           /\ ctx' = [ctx EXCEPT ![h].row = [resources[u] EXCEPT !.state = ctx[h].seen.status]]
  <2>1. resources[u] \in Row /\ resources[u] # Null
    BY <1>1, <1>2 DEF IsLive
  <2>2. ctx[h] \in Ctx /\ ctx'[h] = [ctx[h] EXCEPT !.row = [resources[u] EXCEPT !.state = ctx[h].seen.status]]
    BY <1>2
  <2>3. ctx'[h].spec = ctx[h].spec /\ ctx'[h].row.gen = resources[u].gen
    BY <2>1, <2>2 DEF Ctx, Row
  <2>4. QED
    BY <1>1, <1>2, <2>1, <2>3, StatusReadPromised
<1>3. CASE pc'[h] = "idle"
  BY <1>3 DEF StatusPromised, SweepPromised
<1>4. QED
  BY <1>2, <1>3 DEF StatusFind, Goto, Return

\* The sweep reads its batch from stored rows.
LEMMA SweepFindPromised ==
  ASSUME SpecInv, ~Faults, NEW h \in Handlers, SweepFind(h), [Next]_vars
  PROVE  StatusPromised(h)' /\ SweepPromised(h)'
<1> USE DEF SpecInv, IInv, TypeOK
<1> DEFINE olds == Superseded(KeyFor(h))
<1>1. ctx'[h].olds = [u \in Uuids |-> IF u \in olds THEN resources[u] ELSE Null]
  BY DEF SweepFind, Ctx
<1>2. pc'[h] # "status_save"
  BY DEF SweepFind, Goto, AfterSweep
<1>3. RowsPromised'
  BY RowsStayPromised DEF SweepFind, db
<1>4. resources' = resources
  BY DEF SweepFind, db
<1> HIDE DEF olds
<1>5. QED
  BY <1>1, <1>2, <1>3, <1>4 DEF StatusPromised, SweepPromised, RowsPromised

\* No other step reads a copy that is written back later.
LEMMA OthersCarryNoCopy ==
  ASSUME TypeOK, NEW h \in Handlers, Request(h) \/ Step(h),
         ~(\E s \in issued : TaskStatus(h, s)), ~StatusFind(h), ~SweepFind(h)
  PROVE  pc'[h] \notin {"status_save", "sweep_save"}
<1> USE DEF TypeOK, Goto, Return
<1>1. CASE Request(h)
  BY <1>1 DEF Request, PostResource, PutResource, Rerun, StatusCheck,
              TokenPatch, Exchange, Begin
<1>2. CASE Step(h)
  BY <1>2 DEF Step, AddCreate, UpdateSave, SweepFindFails, SweepSave, SweepDelete, AfterSweep,
              SpecFind, SpecCreate, IssueToken, ListTfs, WriteTf, RerunUpdate, StatusSave
<1>3. QED
  BY <1>1, <1>2

LEMMA CopiesPromised ==
  ASSUME SpecInv, ~Faults, [Next]_vars, NEW i \in Handlers
  PROVE  StatusPromised(i)' /\ SweepPromised(i)'
<1>1. CASE Request(i) \/ Step(i)
  BY <1>1, TaskStatusPromised, StatusFindPromised, SweepFindPromised, OthersCarryNoCopy
     DEF StatusPromised, SweepPromised, SpecInv, IInv
<1>2. ASSUME NEW h \in Handlers \ {i}, Request(h) \/ Step(h)
      PROVE  pc'[i] = pc[i] /\ ctx'[i] = ctx[i]
  BY <1>2, OnlyOneMoves DEF SpecInv, IInv
<1>3. CASE (\E k \in Keys : ControllerReports(k)) \/ Waiting \/ UNCHANGED vars
  BY <1>3, CopiesStayPromised DEF ControllerReports, Waiting, vars
<1>4. QED
  BY <1>1, <1>2, <1>3, CopiesStayPromised DEF Next, Fail

\* Writing the row u of a promised generation leaves all rows promised.
LEMMA WritePromised ==
  ASSUME SpecInv, ~Faults, [Next]_vars, NEW u \in Uuids, NEW row \in Row,
         resources' = [resources EXCEPT ![u] = row],
         \A g \in Generations : row.gen = g => Promised(u, g)'
  PROVE  RowsPromised'
<1> SUFFICES ASSUME NEW v \in Uuids, NEW g \in Generations, resources'[v] # Null,
                    resources'[v].gen = g
             PROVE  Promised(v, g)'
  BY DEF RowsPromised
<1>1. CASE v = u
  <2>1. resources'[v] = row
    BY <1>1 DEF SpecInv, IInv, TypeOK
  <2>2. Promised(u, g)'
    BY <2>1
  <2>3. QED
    BY <1>1, <2>2
<1>2. CASE v # u
  <2>1. resources'[v] = resources[v]
    BY <1>2 DEF SpecInv, IInv, TypeOK
  <2>2. QED
    BY <2>1, PromiseKept DEF SpecInv, RowsPromised
<1>3. QED
  BY <1>1, <1>2

\* A POST or PUT stores the row whose spec row it will create itself.
LEMMA OwnRowPromised ==
  ASSUME SpecInv, ~Faults, NEW h \in Handlers, AddCreate(h) \/ UpdateSave(h), [Next]_vars
  PROVE  RowsPromised'
<1> USE DEF SpecInv, IInv, TypeOK
<1>1. /\ ctx[h].spec \in SpecId /\ ctx[h].spec.uuid \in Uuids
      /\ ctx[h].row \in Row /\ ctx[h].row.gen = ctx[h].spec.gen
  BY DEF AddCreate, UpdateSave, Goto, Return, HandlerOK, HasSpec, CarriesRow, SpecId
<1> PICK u \in Uuids : u = ctx[h].spec.uuid
  BY <1>1
<1>2. CASE UNCHANGED resources
  BY <1>2, RowsStayPromised
<1>3. CASE /\ pc'[h] = "sweep_find" /\ UNCHANGED ctx
           /\ resources' = [resources EXCEPT ![u] = ctx[h].row]
  <2>1. \A g \in Generations : ctx[h].row.gen = g => Promised(u, g)'
    <3> SUFFICES ASSUME NEW g \in Generations, ctx[h].row.gen = g PROVE Promised(u, g)'
      OBVIOUS
    <3>1. ctx'[h].spec = [uuid |-> u, gen |-> g] /\ pc'[h] \in Promising
      BY <1>1, <1>3 DEF SpecId, Promising, Sweeping
    <3>2. QED
      BY <1>3, <3>1 DEF Promised
  <2>2. QED
    BY <1>1, <1>3, <2>1, WritePromised
<1>4. QED
  BY <1>2, <1>3 DEF AddCreate, UpdateSave, Goto, Saved

LEMMA StatusSavePromised ==
  ASSUME SpecInv, ~Faults, NEW h \in Handlers, StatusSave(h), [Next]_vars
  PROVE  RowsPromised'
<1> USE DEF SpecInv, IInv, TypeOK
<1> DEFINE u == ctx[h].spec.uuid
<1>1. /\ pc[h] = "status_save" /\ u \in Uuids /\ ctx[h].row \in Row
      /\ resources' = [resources EXCEPT ![u] = ctx[h].row]
  BY DEF StatusSave, Return, Goto, Saved, HandlerOK, HasSpec, WritesLiveRow, SpecId
<1>2. ASSUME NEW g \in Generations, ctx[h].row.gen = g PROVE Promised(u, g)
  <2> DEFINE s == [uuid |-> u, gen |-> g]
  <2>1. s \in SpecId /\ s.uuid = u /\ s.gen = g
    BY <1>1 DEF SpecId
  <2> HIDE DEF s
  <2>2. Promised(s.uuid, s.gen)
    BY <1>1, <1>2, <2>1 DEF StatusPromised
  <2>3. QED
    BY <2>1, <2>2
<1>3. ASSUME NEW v \in Uuids, NEW g \in Generations, resources'[v] # Null, resources'[v].gen = g
      PROVE  Promised(v, g)
  <2>1. CASE v = u
    BY <1>1, <1>2, <1>3, <2>1
  <2>2. CASE v # u
    BY <1>1, <1>3, <2>2 DEF RowsPromised
  <2>3. QED
    BY <2>1, <2>2
<1>4. QED
  BY <1>3, PromiseKept DEF RowsPromised

\* The sweep writes back what it read, and then only sets deleted_at.
LEMMA SweepPromisesRows ==
  ASSUME SpecInv, ~Faults, NEW h \in Handlers, SweepSave(h) \/ SweepDelete(h), [Next]_vars
  PROVE  RowsPromised'
<1> USE DEF SpecInv, IInv, TypeOK
<1>1. ASSUME NEW v \in Uuids, NEW g \in Generations, resources'[v] # Null, resources'[v].gen = g
      PROVE  Promised(v, g)
  <2>1. CASE SweepSave(h)
    <3>1. pc[h] = "sweep_save"
          /\ resources'[v] = IF ctx[h].olds[v] # Null THEN ctx[h].olds[v] ELSE resources[v]
      BY <2>1 DEF SweepSave, Goto
    <3>2. QED
      BY <1>1, <3>1 DEF SweepPromised, RowsPromised
  <2>2. CASE SweepDelete(h)
    <3>1. resources'[v] = IF ctx[h].olds[v] # Null THEN [resources[v] EXCEPT !.deleted = TRUE]
                                                   ELSE resources[v]
      BY <2>2 DEF SweepDelete
    <3>2. resources[v] # Null /\ resources'[v].gen = resources[v].gen
      BY <1>1, <3>1 DEF HandlerOK, SweepsSuperseded, Row
    <3>3. QED
      BY <1>1, <3>2 DEF RowsPromised
  <2>3. QED
    BY <2>1, <2>2
<1>2. QED
  BY <1>1, PromiseKept DEF RowsPromised

LEMMA SpecNextOK == SpecInv /\ ~Faults /\ [Next]_vars => SpecInv'
<1> SUFFICES ASSUME SpecInv, ~Faults, [Next]_vars PROVE SpecInv'
  OBVIOUS
<1>1. IInv'
  BY NextOK DEF SpecInv
<1>2. \A h \in Handlers : StatusPromised(h)' /\ SweepPromised(h)'
  BY CopiesPromised
<1>3. RowsPromised'
  <2>1. CASE UNCHANGED resources
    BY <2>1, RowsStayPromised
  <2>2. ASSUME NEW h \in Handlers,
               AddCreate(h) \/ UpdateSave(h) \/ StatusSave(h) \/ SweepSave(h) \/ SweepDelete(h)
        PROVE  RowsPromised'
    BY <2>2, OwnRowPromised, StatusSavePromised, SweepPromisesRows
  <2>3. ASSUME NEW h \in Handlers, Request(h) PROVE UNCHANGED resources
    BY <2>3 DEF Request, PostResource, PutResource, TaskStatus, Rerun, StatusCheck,
                TokenPatch, Exchange, db
  <2>4. ASSUME NEW h \in Handlers, Step(h),
               ~(AddCreate(h) \/ UpdateSave(h) \/ StatusSave(h) \/ SweepSave(h) \/ SweepDelete(h))
        PROVE  UNCHANGED resources
    BY <2>4 DEF Step, SweepFind, SweepFindFails, SpecFind, SpecCreate, IssueToken, ListTfs,
                WriteTf, RerunUpdate, StatusFind, db
  <2>5. CASE (\E k \in Keys : ControllerReports(k)) \/ Waiting \/ UNCHANGED vars
    BY <2>1, <2>5 DEF ControllerReports, Waiting, vars, db
  <2>6. QED
    BY <2>1, <2>2, <2>3, <2>4, <2>5 DEF Next, Fail
<1>4. QED
  BY <1>1, <1>2, <1>3 DEF SpecInv

\* Unless a statement fails, the generation that a resource ends on has its spec
\* row, for any number of overlapping requests and whatever stale copies they
\* write back.
THEOREM CurrentSpecsExist == ~Faults /\ Spec => []CurrentSpecExists
<1>1. Init => SpecInv
  BY InitOK DEF Init, SpecInv, RowsPromised, StatusPromised, SweepPromised
<1>2. SpecInv => CurrentSpecExists
  <2> SUFFICES ASSUME SpecInv, AllIdle, NEW u \in Uuids, resources[u] # Null
               PROVE  specs[u][resources[u].gen] > 0
    BY DEF CurrentSpecExists
  <2>1. Promised(u, resources[u].gen)
    BY DEF SpecInv, IInv, TypeOK, Row, RowsPromised
  <2>2. QED
    BY <2>1 DEF Promised, AllIdle, Promising, Sweeping, Recording
<1>3. SUFFICES ASSUME ~Faults PROVE Spec => []CurrentSpecExists
  OBVIOUS
<1>4. SpecInv /\ [Next]_vars => SpecInv'
  BY <1>3, SpecNextOK
<1>5. QED
  BY <1>1, <1>2, <1>4, PTL DEF Spec

-----------------------------------------------------------------------------
(***************************************************************************)
(* One live resource per key, for any number of overlapping POSTs and PUTs *)
(* that do not fail: a superseded row is live only while a handler is on   *)
(* its way to delete it.  A status report saves a copy of the row with no  *)
(* sweep after it, so both kinds of them are left out.                     *)
(***************************************************************************)
NoStatusSaves == Endpoints \cap {"taskStatus", "statusCheck"} = {}

NoStatusHandler(h) == pc[h] \notin {"status_find", "status_save"}

\* No two rows, stored or about to be, were created at the same time.
Stamped ==
  /\ \A u \in Uuids : resources[u] # Null => resources[u].created <= clock
  /\ \A h \in Handlers : pc[h] = "add_create" => ctx[h].row.created <= clock
  /\ \A u, v \in Uuids : /\ resources[u] # Null /\ resources[v] # Null
                         /\ resources[u].created = resources[v].created
                     => u = v
  /\ \A h \in Handlers, u \in Uuids :
       pc[h] = "add_create" /\ resources[u] # Null => ctx[h].row.created # resources[u].created
  /\ \A g, h \in Handlers : /\ pc[g] = "add_create" /\ pc[h] = "add_create"
                            /\ ctx[g].row.created = ctx[h].row.created
                        => g = h

\* The sweep of h has still to read u, or has read it to delete it.
Cleans(h, u) ==
  \/ pc[h] = "sweep_find" /\ KeyFor(h) = KeyOf[u]
  \/ pc[h] \in {"sweep_save", "sweep_delete"} /\ ctx[h].olds[u] # Null

Supersedes(v, u) ==
  /\ resources[v] # Null /\ KeyOf[v] = KeyOf[u]
  /\ resources[v].created > resources[u].created

Swept ==
  \A u, v \in Uuids : IsLive(u) /\ Supersedes(v, u) => \E h \in Handlers : Cleans(h, u)

SoleInv ==
  /\ IInv
  /\ Stamped
  /\ Swept
  /\ \A h \in Handlers : NoStatusHandler(h)

\* Only addResource stores a row under a new uuid or with a new creation time.
OldRowsOnly ==
  \A u \in Uuids : resources'[u] # Null =>
    resources[u] # Null /\ resources'[u].created = resources[u].created

LEMMA StepsKeepOldRows ==
  ASSUME IInv, NEW h \in Handlers, Step(h), ~AddCreate(h)
  PROVE  OldRowsOnly
<1> USE DEF IInv, TypeOK
<1>1. CASE UpdateSave(h) \/ StatusSave(h)
  <2>1. /\ ctx[h].spec \in SpecId /\ ctx[h].spec.uuid \in Uuids
        /\ resources[ctx[h].spec.uuid] # Null
        /\ ctx[h].row.created = resources[ctx[h].spec.uuid].created
        /\ resources' = [resources EXCEPT ![ctx[h].spec.uuid] = ctx[h].row]
    BY <1>1 DEF UpdateSave, StatusSave, Return, Goto, Saved, HandlerOK, HasSpec,
                WritesLiveRow, SpecId
  <2>2. QED
    BY <2>1 DEF OldRowsOnly
<1>2. CASE SweepSave(h)
  <2>1. \A u \in Uuids : resources'[u] = IF ctx[h].olds[u] # Null THEN ctx[h].olds[u]
                                                                   ELSE resources[u]
    BY <1>2 DEF SweepSave
  <2>2. \A u \in Uuids : ctx[h].olds[u] # Null =>
          resources[u] # Null /\ ctx[h].olds[u].created = resources[u].created
    BY DEF HandlerOK, SweepsSuperseded
  <2>3. QED
    BY <2>1, <2>2 DEF OldRowsOnly
<1>3. CASE SweepDelete(h)
  <2>1. \A u \in Uuids : resources'[u] = IF ctx[h].olds[u] # Null
                                         THEN [resources[u] EXCEPT !.deleted = TRUE]
                                         ELSE resources[u]
    BY <1>3 DEF SweepDelete
  <2>2. \A u \in Uuids : ctx[h].olds[u] # Null => resources[u] # Null
    BY DEF HandlerOK, SweepsSuperseded
  <2>3. \A u \in Uuids : resources[u] # Null =>
          [resources[u] EXCEPT !.deleted = TRUE].created = resources[u].created
    BY DEF Row
  <2>4. QED
    BY <2>1, <2>2, <2>3 DEF OldRowsOnly
<1>4. CASE UNCHANGED resources
  BY <1>4 DEF OldRowsOnly
<1>5. QED
  BY <1>1, <1>2, <1>3, <1>4
     DEF Step, SweepFind, SweepFindFails, SpecFind, SpecCreate, IssueToken, ListTfs, WriteTf,
         RerunUpdate, StatusFind, db

\* Steps that take no stamp and store no new row.
LEMMA StampsStay ==
  ASSUME Stamped, OldRowsOnly, clock' = clock,
         \A i \in Handlers : pc'[i] = "add_create" => pc[i] = "add_create" /\ ctx'[i] = ctx[i]
  PROVE  Stamped'
<1>1. \A u \in Uuids : resources'[u] # Null => resources'[u].created <= clock'
  BY DEF Stamped, OldRowsOnly
<1>2. \A h \in Handlers : pc'[h] = "add_create" => ctx'[h].row.created <= clock'
  BY DEF Stamped
<1>3. \A u, v \in Uuids : /\ resources'[u] # Null /\ resources'[v] # Null
                          /\ resources'[u].created = resources'[v].created
                      => u = v
  BY DEF Stamped, OldRowsOnly
<1>4. \A h \in Handlers, u \in Uuids :
        pc'[h] = "add_create" /\ resources'[u] # Null
          => ctx'[h].row.created # resources'[u].created
  BY DEF Stamped, OldRowsOnly
<1>5. \A g, h \in Handlers : /\ pc'[g] = "add_create" /\ pc'[h] = "add_create"
                             /\ ctx'[g].row.created = ctx'[h].row.created
                         => g = h
  BY DEF Stamped
<1>6. QED
  BY <1>1, <1>2, <1>3, <1>4, <1>5 DEF Stamped

\* A POST takes a stamp of its own.
LEMMA PostStamped ==
  ASSUME IInv, Stamped, NEW h \in Handlers, NEW s \in SpecId, PostResource(h, s)
  PROVE  Stamped'
<1> USE DEF IInv, TypeOK
<1>1. /\ clock' = clock + 1 /\ clock \in Nat /\ resources' = resources
      /\ pc'[h] = "add_create" /\ ctx'[h].row.created = clock + 1
      /\ \A i \in Handlers \ {h} : pc'[i] = pc[i] /\ ctx'[i] = ctx[i]
  BY DEF PostResource, Begin, Goto, IdleCtx, db
<1>2. \A u \in Uuids : resources[u] # Null =>
        resources[u].created \in Nat /\ resources[u].created <= clock
  BY DEF Stamped, Row
<1>3. \A i \in Handlers : pc[i] = "add_create" =>
        ctx[i].row.created \in Nat /\ ctx[i].row.created <= clock
  BY DEF Stamped, HandlerOK, CarriesRow, Row
<1>4. \A u \in Uuids : resources'[u] # Null => resources'[u].created <= clock'
  BY <1>1, <1>2
<1>5. \A i \in Handlers : pc'[i] = "add_create" => ctx'[i].row.created <= clock'
  BY <1>1, <1>3
<1>6. \A u, v \in Uuids : /\ resources'[u] # Null /\ resources'[v] # Null
                          /\ resources'[u].created = resources'[v].created
                      => u = v
  BY <1>1 DEF Stamped
<1>7. \A i \in Handlers, u \in Uuids :
        pc'[i] = "add_create" /\ resources'[u] # Null
          => ctx'[i].row.created # resources'[u].created
  <2>1. \A u \in Uuids : resources[u] # Null => clock + 1 # resources[u].created
    BY <1>1, <1>2
  <2>2. QED
    BY <1>1, <2>1 DEF Stamped
<1>8. \A g, i \in Handlers : /\ pc'[g] = "add_create" /\ pc'[i] = "add_create"
                             /\ ctx'[g].row.created = ctx'[i].row.created
                         => g = i
  <2>1. \A i \in Handlers : pc[i] = "add_create" => ctx[i].row.created # clock + 1
    BY <1>1, <1>3
  <2>2. QED
    BY <1>1, <2>1 DEF Stamped
<1>9. QED
  BY <1>4, <1>5, <1>6, <1>7, <1>8 DEF Stamped

\* ... and stores it.
LEMMA AddCreateStamped ==
  ASSUME IInv, Stamped, NEW h \in Handlers, AddCreate(h)
  PROVE  Stamped'
<1> USE DEF IInv, TypeOK
<1> PICK u \in Uuids : u = ctx[h].spec.uuid
  BY DEF AddCreate, HandlerOK, HasSpec, SpecId
<1>1. /\ pc[h] = "add_create" /\ clock' = clock
      /\ \A i \in Handlers \ {h} : pc'[i] = pc[i] /\ ctx'[i] = ctx[i]
      /\ pc'[h] # "add_create"
  BY DEF AddCreate, Return, Goto
<1>2. CASE UNCHANGED resources
  BY <1>1, <1>2, StampsStay DEF OldRowsOnly
<1>3. CASE resources' = [resources EXCEPT ![u] = ctx[h].row]
  <2>1. /\ resources'[u] = ctx[h].row
        /\ \A v \in Uuids \ {u} : resources'[v] = resources[v]
    BY <1>3
  <2>2. \A v \in Uuids : resources'[v] # Null => resources'[v].created <= clock'
    BY <1>1, <2>1 DEF Stamped
  <2>3. \A i \in Handlers : pc'[i] = "add_create" => ctx'[i].row.created <= clock'
    BY <1>1 DEF Stamped
  <2>4. \A v, w \in Uuids : /\ resources'[v] # Null /\ resources'[w] # Null
                            /\ resources'[v].created = resources'[w].created
                        => v = w
    BY <1>1, <2>1 DEF Stamped
  <2>5. \A i \in Handlers, v \in Uuids :
          pc'[i] = "add_create" /\ resources'[v] # Null
            => ctx'[i].row.created # resources'[v].created
    BY <1>1, <2>1 DEF Stamped
  <2>6. \A g, i \in Handlers : /\ pc'[g] = "add_create" /\ pc'[i] = "add_create"
                               /\ ctx'[g].row.created = ctx'[i].row.created
                           => g = i
    BY <1>1 DEF Stamped
  <2>7. QED
    BY <2>2, <2>3, <2>4, <2>5, <2>6 DEF Stamped
<1>4. QED
  BY <1>2, <1>3 DEF AddCreate, Saved

LEMMA NextStamped ==
  ASSUME IInv, Stamped, [Next]_vars
  PROVE  Stamped'
<1> USE DEF IInv, TypeOK
<1>1. ASSUME NEW h \in Handlers, NEW s \in SpecId, PostResource(h, s) PROVE Stamped'
  BY <1>1, PostStamped
<1>2. ASSUME NEW h \in Handlers, Request(h), ~(\E s \in SpecId : PostResource(h, s))
      PROVE  Stamped'
  <2>1. UNCHANGED <<resources, clock>> /\ pc'[h] # "add_create"
    BY <1>2 DEF Request, PutResource, TaskStatus, Rerun, StatusCheck,
                TokenPatch, Exchange, Begin, Goto, db
  <2>2. QED
    BY <1>2, <2>1, OnlyOneMoves, StampsStay DEF OldRowsOnly
<1>3. ASSUME NEW h \in Handlers, Step(h), ~AddCreate(h) PROVE Stamped'
  <2>1. clock' = clock /\ pc'[h] # "add_create"
    BY <1>3 DEF Step, UpdateSave, SweepFind, SweepFindFails, SweepSave, SweepDelete, AfterSweep,
                SpecFind, SpecCreate, IssueToken, ListTfs, WriteTf, RerunUpdate, StatusFind,
                StatusSave, Return, Goto
  <2>2. QED
    BY <1>3, <2>1, OnlyOneMoves, StepsKeepOldRows, StampsStay
<1>4. ASSUME NEW h \in Handlers, Fail(h) PROVE Stamped'
  <2>1. /\ UNCHANGED <<resources, clock>> /\ pc'[h] # "add_create"
        /\ \A i \in Handlers \ {h} : pc'[i] = pc[i] /\ ctx'[i] = ctx[i]
    BY <1>4 DEF Fail, Return, Goto, db
  <2>2. QED
    BY <2>1, StampsStay DEF OldRowsOnly
<1>5. CASE (\E k \in Keys : ControllerReports(k)) \/ Waiting \/ UNCHANGED vars
  <2>1. UNCHANGED <<resources, clock, pc, ctx>>
    BY <1>5 DEF ControllerReports, Waiting, vars, db
  <2>2. QED
    BY <2>1, StampsStay DEF OldRowsOnly
<1>6. QED
  BY <1>1, <1>2, <1>3, <1>4, <1>5, AddCreateStamped DEF Next

\* A superseded row has a live row above it: the newest of its key.
LEMMA NewestAbove ==
  ASSUME IInv, Stamped, NEW u \in Uuids, resources[u] # Null,
         NEW v \in Uuids, Supersedes(v, u)
  PROVE  \E w \in Uuids : IsLive(w) /\ Supersedes(w, u)
<1> DEFINE OfKey == {w \in Uuids : resources[w] # Null /\ KeyOf[w] = KeyOf[u]}
           Stamps == {resources[w].created : w \in OfKey}
<1>1. \A w \in OfKey : resources[w].created \in Nat /\ resources[w].created <= clock
  BY DEF IInv, TypeOK, Row, Stamped
<1>2. Stamps \in SUBSET Nat /\ clock \in Nat /\ \A n \in Stamps : n <= clock
  BY <1>1 DEF IInv, TypeOK
<1>3. v \in OfKey /\ u \in OfKey
  BY DEF Supersedes
<1>4. Stamps # {}
  BY <1>3
<1>5. PICK n \in Stamps : \A m \in Stamps : m <= n
  <2> HIDE DEF Stamps
  <2>1. QED
    BY <1>2, <1>4, LargestNat
<1>6. PICK w \in OfKey : n = resources[w].created
  BY <1>5
<1>7. \A x \in OfKey : resources[x].created <= resources[w].created
  BY <1>5, <1>6
<1>8. IsLive(w)
  <2>1. \A x \in Uuids : resources[x] # Null /\ KeyOf[x] = KeyOf[w]
                           => resources[x].created <= resources[w].created
    BY <1>6, <1>7
  <2>2. QED
    BY <1>6, <2>1 DEF IInv, NewestIsLive, IsLive
<1>9. Supersedes(w, u)
  <2>1. /\ resources[w].created \in Nat /\ resources[v].created \in Nat
        /\ resources[u].created \in Nat
        /\ resources[v].created <= resources[w].created
        /\ resources[v].created > resources[u].created
    BY <1>1, <1>3, <1>6, <1>7 DEF Supersedes
  <2>2. resources[w].created > resources[u].created
    BY <2>1
  <2>3. QED
    BY <1>6, <2>2 DEF Supersedes
<1>10. QED
  BY <1>8, <1>9

\* What another handler will clean, it still will.
LEMMA CleanersGoOn ==
  ASSUME TypeOK, NEW h \in Handlers, Request(h) \/ Step(h), NEW u \in Uuids, ~Cleans(h, u),
         \E g \in Handlers : Cleans(g, u)
  PROVE  \E g \in Handlers : Cleans(g, u)'
<1>1. PICK g \in Handlers : Cleans(g, u)
  OBVIOUS
<1>2. pc'[g] = pc[g] /\ ctx'[g] = ctx[g]
  BY <1>1, OnlyOneMoves
<1>3. Cleans(g, u)'
  BY <1>1, <1>2 DEF Cleans, KeyFor
<1>4. QED
  BY <1>3

\* A POST or PUT that stores a row is going to sweep its key.
LEMMA StoreSwept ==
  ASSUME SoleInv, NEW h \in Handlers, AddCreate(h) \/ UpdateSave(h),
         NEW u \in Uuids, NEW v \in Uuids, IsLive(u)', Supersedes(v, u)'
  PROVE  \E g \in Handlers : Cleans(g, u)'
<1> USE DEF SoleInv, IInv, TypeOK
<1> PICK w \in Uuids : w = ctx[h].spec.uuid
  BY DEF AddCreate, UpdateSave, Goto, HandlerOK, HasSpec, SpecId
<1>1. \A x \in Uuids : ~Cleans(h, x)
  BY DEF AddCreate, UpdateSave, Goto, Cleans
<1>2. Step(h)
  BY DEF Step
<1>3. CASE UNCHANGED resources
  <2>1. IsLive(u) /\ Supersedes(v, u)
    BY <1>3 DEF IsLive, Supersedes
  <2>2. QED
    BY <1>1, <1>2, <2>1, CleanersGoOn DEF Swept
<1>4. CASE /\ resources' = [resources EXCEPT ![w] = ctx[h].row]
           /\ pc'[h] = "sweep_find" /\ UNCHANGED ctx
  <2>1. CASE KeyOf[u] = KeyOf[w]
    <3>1. Cleans(h, u)'
      BY <1>4, <2>1 DEF Cleans, KeyFor
    <3>2. QED
      BY <3>1
  <2>2. CASE KeyOf[u] # KeyOf[w]
    <3>1. u # w /\ v # w
      BY <2>2 DEF Supersedes
    <3>2. resources'[u] = resources[u] /\ resources'[v] = resources[v]
      BY <1>4, <3>1
    <3>3. IsLive(u) /\ Supersedes(v, u)
      BY <3>2 DEF IsLive, Supersedes
    <3>4. QED
      BY <1>1, <1>2, <3>3, CleanersGoOn DEF Swept
  <2>3. QED
    BY <2>1, <2>2
<1>5. QED
  BY <1>3, <1>4 DEF AddCreate, UpdateSave, Saved, Goto

\* The sweep reads every superseded row of its key, for each has a live one above it.
LEMMA SweepFindSwept ==
  ASSUME SoleInv, NEW h \in Handlers, SweepFind(h),
         NEW u \in Uuids, NEW v \in Uuids, IsLive(u)', Supersedes(v, u)'
  PROVE  \E g \in Handlers : Cleans(g, u)'
<1> USE DEF SoleInv, IInv, TypeOK
<1>1. IsLive(u) /\ Supersedes(v, u) /\ pc[h] = "sweep_find"
  BY DEF SweepFind, Goto, IsLive, Supersedes, db
<1>2. CASE KeyFor(h) = KeyOf[u]
  <2> DEFINE olds == Superseded(KeyFor(h))
             copies == [x \in Uuids |-> IF x \in olds THEN resources[x] ELSE Null]
  <2>1. u \in olds
    BY <1>1, <1>2, NewestAbove DEF IsLive, LiveOf, Superseded, Supersedes
  <2>2. copies[u] # Null
    BY <1>1, <2>1 DEF IsLive
  <2>3. pc'[h] = "sweep_save"
    BY <2>1 DEF SweepFind, Goto
  <2>4. ctx'[h].olds = copies
    <3>1. ctx[h] \in Ctx /\ ctx' = [ctx EXCEPT ![h].olds = copies]
      BY DEF SweepFind
    <3> HIDE DEF copies
    <3>2. QED
      BY <3>1 DEF Ctx
  <2>5. Cleans(h, u)'
    BY <2>2, <2>3, <2>4 DEF Cleans
  <2>6. QED
    BY <2>5
<1>3. CASE KeyFor(h) # KeyOf[u]
  <2>1. ~Cleans(h, u) /\ Step(h)
    BY <1>1, <1>3 DEF Cleans, Step
  <2>2. QED
    BY <1>1, <2>1, CleanersGoOn DEF Swept
<1>4. QED
  BY <1>2, <1>3

\* What it brings back it deletes next, and nothing that it deletes stays live.
LEMMA SweepWritesSwept ==
  ASSUME SoleInv, NEW h \in Handlers, SweepSave(h) \/ SweepDelete(h),
         NEW u \in Uuids, NEW v \in Uuids, IsLive(u)', Supersedes(v, u)'
  PROVE  \E g \in Handlers : Cleans(g, u)'
<1> USE DEF SoleInv, IInv, TypeOK
<1>1. /\ pc[h] \in {"sweep_save", "sweep_delete"} /\ Step(h)
      /\ UNCHANGED ctx
      /\ ctx[h].olds[u] = Null => resources'[u] = resources[u]
  BY DEF SweepSave, SweepDelete, Goto, Step
<1>2. CASE ctx[h].olds[u] # Null
  <2>1. CASE SweepSave(h)
    <3>1. Cleans(h, u)'
      BY <1>1, <1>2, <2>1 DEF SweepSave, Goto, Cleans
    <3>2. QED
      BY <3>1
  <2>2. CASE SweepDelete(h)
    <3>1. resources[u] # Null /\ resources'[u] = [resources[u] EXCEPT !.deleted = TRUE]
      BY <1>2, <2>2 DEF SweepDelete, HandlerOK, SweepsSuperseded
    <3>2. resources'[u].deleted
      BY <3>1 DEF Row
    <3>3. QED
      BY <3>2 DEF IsLive
  <2>3. QED
    BY <2>1, <2>2
<1>3. CASE ctx[h].olds[u] = Null
  <2>1. OldRowsOnly
    BY <1>1, StepsKeepOldRows DEF SweepSave, SweepDelete, AddCreate, Goto
  <2>2. IsLive(u) /\ Supersedes(v, u)
    BY <1>1, <1>3, <2>1 DEF IsLive, Supersedes, OldRowsOnly
  <2>3. ~Cleans(h, u)
    BY <1>1, <1>3 DEF Cleans
  <2>4. QED
    BY <1>1, <2>2, <2>3, CleanersGoOn DEF Swept
<1>4. QED
  BY <1>2, <1>3

LEMMA NextSwept ==
  ASSUME SoleInv, ~Faults, [Next]_vars
  PROVE  Swept'
<1> USE DEF SoleInv, IInv
<1> SUFFICES ASSUME NEW u \in Uuids, NEW v \in Uuids, IsLive(u)', Supersedes(v, u)'
             PROVE  \E g \in Handlers : Cleans(g, u)'
  BY DEF Swept
<1>1. ASSUME NEW h \in Handlers, Request(h) PROVE \E g \in Handlers : Cleans(g, u)'
  <2>1. UNCHANGED resources /\ pc[h] = "idle"
    BY <1>1 DEF Request, PostResource, PutResource, TaskStatus, Rerun, StatusCheck,
                TokenPatch, Exchange, Begin, Goto, db
  <2>2. IsLive(u) /\ Supersedes(v, u) /\ ~Cleans(h, u)
    BY <2>1 DEF IsLive, Supersedes, Cleans
  <2>3. QED
    BY <1>1, <2>2, CleanersGoOn DEF Swept
<1>2. ASSUME NEW h \in Handlers,
             SpecFind(h) \/ SpecCreate(h) \/ IssueToken(h) \/ ListTfs(h) \/ WriteTf(h)
               \/ RerunUpdate(h)
      PROVE  \E g \in Handlers : Cleans(g, u)'
  <2>1. UNCHANGED resources /\ pc[h] \notin Sweeping /\ Step(h)
    BY <1>2 DEF Step, SpecFind, SpecCreate, IssueToken, ListTfs, WriteTf, RerunUpdate, Return,
                Goto, db, Sweeping
  <2>2. IsLive(u) /\ Supersedes(v, u) /\ ~Cleans(h, u)
    BY <2>1 DEF IsLive, Supersedes, Cleans, Sweeping
  <2>3. QED
    BY <2>1, <2>2, CleanersGoOn DEF Swept
<1>3. ASSUME NEW h \in Handlers, Step(h) PROVE \E g \in Handlers : Cleans(g, u)'
  <2>1. ~SweepFindFails(h) /\ ~StatusFind(h) /\ ~StatusSave(h)
    BY DEF SweepFindFails, StatusFind, StatusSave, Return, Goto, NoStatusHandler
  <2>2. QED
    BY <1>2, <1>3, <2>1, StoreSwept, SweepFindSwept, SweepWritesSwept DEF Step
<1>4. CASE (\E k \in Keys : ControllerReports(k)) \/ Waiting \/ UNCHANGED vars
  <2>1. UNCHANGED <<resources, pc, ctx>>
    BY <1>4 DEF ControllerReports, Waiting, vars, db
  <2>2. IsLive(u) /\ Supersedes(v, u)
    BY <2>1 DEF IsLive, Supersedes
  <2>3. QED
    BY <2>1, <2>2 DEF Swept, Cleans, KeyFor
<1>5. QED
  BY <1>1, <1>3, <1>4 DEF Next, Fail

LEMMA NoStatusBegins ==
  ASSUME TypeOK, NoStatusSaves, [Next]_vars, NEW i \in Handlers, NoStatusHandler(i)
  PROVE  NoStatusHandler(i)'
<1> USE DEF TypeOK, NoStatusHandler
<1>1. CASE Request(i)
  BY <1>1 DEF Request, PostResource, PutResource, TaskStatus, Rerun, StatusCheck,
              TokenPatch, Exchange, Begin, Goto, NoStatusSaves
<1>2. CASE Step(i)
  BY <1>2 DEF Step, AddCreate, UpdateSave, SweepFind, SweepFindFails, SweepSave, SweepDelete,
              AfterSweep, SpecFind, SpecCreate, IssueToken, ListTfs, WriteTf, RerunUpdate,
              StatusFind, StatusSave, Return, Goto
<1>3. ASSUME NEW h \in Handlers \ {i}, Request(h) \/ Step(h) PROVE NoStatusHandler(i)'
  BY <1>3, OnlyOneMoves
<1>4. ASSUME NEW h \in Handlers, Fail(h) PROVE NoStatusHandler(i)'
  BY <1>4 DEF Fail, Return, Goto
<1>5. CASE (\E k \in Keys : ControllerReports(k)) \/ Waiting \/ UNCHANGED vars
  BY <1>5 DEF ControllerReports, Waiting, vars
<1>6. QED
  BY <1>1, <1>2, <1>3, <1>4, <1>5 DEF Next

\* Whatever POSTs, PUTs, reruns and token patches overlap, once they are answered
\* a cluster/namespace/name has one live resource: every handler that stores a
\* row sweeps after it, and a sweep that brings back a row deletes it next.
THEOREM OneLiveResource == ~Faults /\ NoStatusSaves /\ Spec => []SoleLive
<1>1. Init => SoleInv
  <2> SUFFICES ASSUME Init PROVE SoleInv
    OBVIOUS
  <2>1. Stamped /\ Swept /\ \A h \in Handlers : NoStatusHandler(h)
    BY DEF Init, Stamped, Swept, IsLive, NoStatusHandler
  <2>2. QED
    BY <2>1, InitOK DEF SoleInv
<1>2. SoleInv => SoleLive
  <2> SUFFICES ASSUME SoleInv, AllIdle, NEW u \in Uuids, NEW v \in Uuids,
                      IsLive(u), IsLive(v), KeyOf[u] = KeyOf[v], u # v
               PROVE  FALSE
    BY DEF SoleLive
  <2>1. \A h \in Handlers, w \in Uuids : ~Cleans(h, w)
    BY DEF AllIdle, Cleans
  <2>2. /\ resources[u].created \in Nat /\ resources[v].created \in Nat
        /\ resources[u].created # resources[v].created
    BY DEF SoleInv, IInv, TypeOK, IsLive, Row, Stamped
  <2>3. Supersedes(v, u) \/ Supersedes(u, v)
    BY <2>2 DEF IsLive, Supersedes
  <2>4. QED
    BY <2>1, <2>3 DEF SoleInv, Swept
<1>3. SUFFICES ASSUME ~Faults, NoStatusSaves PROVE Spec => []SoleLive
  OBVIOUS
<1>4. SoleInv /\ [Next]_vars => SoleInv'
  BY <1>3, NextOK, NextStamped, NextSwept, NoStatusBegins DEF SoleInv, IInv
<1>5. QED
  BY <1>1, <1>2, <1>4, PTL DEF Spec

-----------------------------------------------------------------------------
(***************************************************************************)
(* Requests that do not overlap.  What the code promises to one request at *)
(* a time it promises to any number of them, as long as no two in flight   *)
(* are about the same cluster/namespace/name: a request touches the rows   *)
(* of its own key only, so what it has read there is what is stored.       *)
(***************************************************************************)
Busy(h) == pc[h] # "idle"

NoOverlap == \A g, h \in Handlers : g # h /\ Busy(g) /\ Busy(h) => KeyFor(g) # KeyFor(h)

\* The copies a handler is about to write back are of live rows of its key and
\* of the stored generation, or, for a PUT, of a later one.
Fresh(h) ==
  LET u == ctx[h].spec.uuid IN
  /\ pc[h] = "update_save" => IsLive(u) /\ ctx[h].row.gen >= resources[u].gen
  /\ pc[h] = "status_save" => IsLive(u) /\ ctx[h].row.gen = resources[u].gen
  /\ \A v \in Uuids :
       /\ pc[h] \in {"sweep_save", "sweep_delete"} /\ ctx[h].olds[v] # Null
            => KeyOf[v] = KeyFor(h)
       /\ pc[h] = "sweep_save" /\ ctx[h].olds[v] # Null
            => IsLive(v) /\ ctx[h].olds[v].gen = resources[v].gen

FreshInv == IInv /\ \A h \in Handlers : Fresh(h)

\* No stored generation goes back.
GensGrow == \A v \in Uuids : resources[v] # Null => resources'[v].gen >= resources[v].gen

\* Fresh copies stay so while the rows of the key do.
LEMMA FreshStays ==
  ASSUME IInv, NEW i \in Handlers, Fresh(i), pc'[i] = pc[i], ctx'[i] = ctx[i],
         Busy(i) => \A v \in Uuids : KeyOf[v] = KeyFor(i) => resources'[v] = resources[v]
  PROVE  Fresh(i)'
<1>1. CASE pc[i] = "idle"
  BY <1>1 DEF Fresh
<1>2. CASE pc[i] # "idle"
  <2>1. /\ ctx[i].spec.uuid \in Uuids /\ KeyFor(i) = KeyOf[ctx[i].spec.uuid]
        /\ KeyFor(i)' = KeyFor(i)
        /\ \A v \in Uuids : KeyOf[v] = KeyFor(i) => resources'[v] = resources[v]
    BY <1>2 DEF IInv, HandlerOK, HasSpec, SpecId, KeyFor, Busy
  <2>2. \A v \in Uuids : KeyOf[v] = KeyFor(i) => (IsLive(v)' <=> IsLive(v))
    BY <2>1 DEF IsLive
  <2>3. QED
    BY <2>1, <2>2 DEF Fresh, IsLive
<1>3. QED
  BY <1>1, <1>2

\* What a step of h writes, and over what.
LEMMA StepWrites ==
  ASSUME FreshInv, NEW h \in Handlers, Step(h), NEW v \in Uuids
  PROVE  /\ KeyOf[v] # KeyFor(h) => resources'[v] = resources[v]
         /\ resources[v] # Null => resources'[v] # Null /\ resources'[v].gen >= resources[v].gen
<1> USE DEF FreshInv, IInv, TypeOK
<1>1. resources[v] # Null => resources[v].gen \in Nat /\ resources[v] \in Row
  BY GenerationsAssumption DEF Row
<1>2. CASE AddCreate(h)
  <2>1. ctx[h].spec.uuid \in Uuids /\ pc[h] = "add_create"
    BY <1>2 DEF AddCreate, HandlerOK, HasSpec, SpecId
  <2>2. \/ resources' = resources
        \/ /\ resources[ctx[h].spec.uuid] = Null
           /\ resources' = [resources EXCEPT ![ctx[h].spec.uuid] = ctx[h].row]
    BY <1>2 DEF AddCreate, Saved
  <2>3. QED
    BY <1>1, <2>1, <2>2 DEF KeyFor
<1>3. CASE UpdateSave(h) \/ StatusSave(h)
  <2>1. /\ ctx[h].spec.uuid \in Uuids
        /\ pc[h] \in {"update_save", "status_save"}
        /\ resources' = [resources EXCEPT ![ctx[h].spec.uuid] = ctx[h].row]
    BY <1>3 DEF UpdateSave, StatusSave, Return, Goto, Saved, HandlerOK, HasSpec, SpecId
  <2>2. ctx[h].row \in Row /\ resources[ctx[h].spec.uuid] \in Row /\ ctx[h].row # Null
    BY <2>1, NullAssumption DEF HandlerOK, WritesLiveRow
  <2>3. ctx[h].row.gen \in Nat /\ resources[ctx[h].spec.uuid].gen \in Nat
    BY <2>2, GenerationsAssumption DEF Row
  <2>4. \/ ctx[h].row.gen >= resources[ctx[h].spec.uuid].gen
        \/ ctx[h].row.gen = resources[ctx[h].spec.uuid].gen
    BY <2>1 DEF Fresh
  <2>5. QED
    BY <1>1, <2>1, <2>2, <2>3, <2>4 DEF KeyFor
<1>4. CASE SweepSave(h)
  <2>1. /\ pc[h] = "sweep_save"
        /\ resources'[v] = IF ctx[h].olds[v] # Null THEN ctx[h].olds[v] ELSE resources[v]
    BY <1>4 DEF SweepSave, Goto
  <2>2. QED
    BY <1>1, <2>1 DEF Fresh
<1>5. CASE SweepDelete(h)
  <2>1. /\ pc[h] = "sweep_delete"
        /\ resources'[v] = IF ctx[h].olds[v] # Null THEN [resources[v] EXCEPT !.deleted = TRUE]
                                                    ELSE resources[v]
    BY <1>5 DEF SweepDelete, Goto
  <2>2. resources[v] # Null =>
          /\ [resources[v] EXCEPT !.deleted = TRUE].gen = resources[v].gen
          /\ [resources[v] EXCEPT !.deleted = TRUE] # Null
    <3>1. resources[v] # Null => [resources[v] EXCEPT !.deleted = TRUE] \in Row
      BY <1>1 DEF Row
    <3>2. QED
      BY <1>1, <3>1, NullAssumption DEF Row
  <2>3. QED
    BY <1>1, <2>1, <2>2 DEF Fresh
<1>6. CASE UNCHANGED resources
  BY <1>1, <1>6
<1>7. QED
  BY <1>2, <1>3, <1>4, <1>5, <1>6
     DEF Step, SweepFind, SweepFindFails, SpecFind, SpecCreate, IssueToken, ListTfs, WriteTf,
         RerunUpdate, StatusFind, db

\* What a handler has just read is fresh.
LEMMA RequestFresh ==
  ASSUME FreshInv, NEW h \in Handlers, Request(h)
  PROVE  Fresh(h)'
<1> USE DEF FreshInv, IInv, TypeOK
<1>1. ASSUME NEW s \in SpecId, PutResource(h, s) PROVE Fresh(h)'
  <2>1. /\ s.uuid \in Uuids /\ IsLive(s.uuid) /\ resources' = resources
        /\ pc'[h] = "update_save" /\ ctx'[h].spec = s
        /\ ctx'[h].row = UpdatedRow(resources[s.uuid], s.gen)
    BY <1>1 DEF PutResource, Begin, Goto, IdleCtx, SpecId, db
  <2>2. /\ resources[s.uuid] \in Row /\ resources[s.uuid].gen \in Nat /\ s.gen \in Nat
        /\ s.gen \in Generations
    BY <2>1, GenerationsAssumption DEF IsLive, Row, SpecId
  <2>3. UpdatedRow(resources[s.uuid], s.gen).gen >= resources[s.uuid].gen
    BY <2>2 DEF UpdatedRow, Row
  <2>4. QED
    BY <2>1, <2>3 DEF Fresh, IsLive
<1>2. ASSUME NEW s \in issued, TaskStatus(h, s) PROVE Fresh(h)'
  <2>1. /\ s.uuid \in Uuids /\ IsLive(s.uuid) /\ resources' = resources
        /\ pc'[h] = "status_save" /\ ctx'[h].spec = s
        /\ ctx'[h].row = [resources[s.uuid] EXCEPT !.state = s]
    BY <1>2 DEF TaskStatus, Begin, Goto, IdleCtx, SpecId, db
  <2>2. [resources[s.uuid] EXCEPT !.state = s].gen = resources[s.uuid].gen
    BY <2>1 DEF IsLive, Row
  <2>3. QED
    BY <2>1, <2>2 DEF Fresh, IsLive
<1>3. ASSUME ~(\E s \in SpecId : PutResource(h, s)), ~(\E s \in issued : TaskStatus(h, s))
      PROVE  Fresh(h)'
  <2>1. pc'[h] \notin {"update_save", "status_save", "sweep_save", "sweep_delete"}
    BY <1>3 DEF Request, PostResource, Rerun, StatusCheck, TokenPatch, Exchange, Begin, Goto
  <2>2. QED
    BY <2>1 DEF Fresh
<1>4. QED
  BY <1>1, <1>2, <1>3

LEMMA StepFresh ==
  ASSUME FreshInv, NEW h \in Handlers, Step(h)
  PROVE  Fresh(h)'
<1> USE DEF FreshInv, IInv, TypeOK
<1>1. CASE SweepFind(h)
  <2> DEFINE olds == Superseded(KeyFor(h))
             copies == [u \in Uuids |-> IF u \in olds THEN resources[u] ELSE Null]
  <2>1. /\ pc'[h] \notin {"update_save", "status_save"} /\ resources' = resources
        /\ ctx[h] \in Ctx /\ ctx' = [ctx EXCEPT ![h].olds = copies]
    BY <1>1 DEF SweepFind, Goto, AfterSweep, db
  <2>2. \A v \in Uuids : copies[v] # Null =>
          KeyOf[v] = KeyFor(h) /\ IsLive(v) /\ copies[v] = resources[v]
    BY DEF Superseded, LiveOf
  <2> HIDE DEF copies
  <2>3. ctx'[h].olds = copies /\ ctx'[h].spec = ctx[h].spec
    BY <2>1 DEF Ctx
  <2>4. \A v \in Uuids : IsLive(v)' <=> IsLive(v)
    BY <2>1 DEF IsLive
  <2>5. QED
    BY <2>1, <2>2, <2>3, <2>4 DEF Fresh, KeyFor
<1>2. CASE SweepSave(h)
  <2>1. /\ pc'[h] = "sweep_delete" /\ pc[h] = "sweep_save" /\ ctx' = ctx
    BY <1>2 DEF SweepSave, Goto
  <2>2. QED
    BY <2>1 DEF Fresh, KeyFor
<1>3. CASE StatusFind(h)
  <2> PICK u \in Uuids : u = ctx[h].spec.uuid
    BY <1>3 DEF StatusFind, HandlerOK, HasSpec, SpecId
  <2>1. CASE pc'[h] = "idle"
    BY <2>1 DEF Fresh
  <2>2. CASE /\ IsLive(u) /\ pc'[h] = "status_save" /\ UNCHANGED resources
             /\ ctx' = [ctx EXCEPT ![h].row = [resources[u] EXCEPT !.state = ctx[h].seen.status]]
    <3>1. PICK r : r = [resources[u] EXCEPT !.state = ctx[h].seen.status]
      OBVIOUS
    <3>2. r.gen = resources[u].gen
      BY <2>2, <3>1 DEF IsLive, Row
    <3>3. ctx[h] \in Ctx /\ ctx'[h] = [ctx[h] EXCEPT !.row = r]
      BY <2>2, <3>1
    <3>4. ctx'[h].row = r /\ ctx'[h].spec.uuid = u
      BY <3>3 DEF Ctx
    <3>5. QED
      BY <2>2, <3>2, <3>4 DEF Fresh, IsLive
  <2>3. QED
    BY <1>3, <2>1, <2>2 DEF StatusFind, Goto, Return, db
<1>4. ASSUME ~SweepFind(h), ~SweepSave(h), ~StatusFind(h) PROVE Fresh(h)'
  <2>1. pc'[h] \notin {"update_save", "status_save", "sweep_save", "sweep_delete"}
    BY <1>4 DEF Step, AddCreate, UpdateSave, SweepFindFails, SweepDelete, AfterSweep, SpecFind,
                SpecCreate, IssueToken, ListTfs, WriteTf, RerunUpdate, StatusSave, Return, Goto
  <2>2. QED
    BY <2>1 DEF Fresh
<1>5. QED
  BY <1>1, <1>2, <1>3, <1>4

LEMMA RequestOnlyReads ==
  ASSUME NEW h \in Handlers, Request(h)
  PROVE  /\ UNCHANGED <<resources, specs, tfs, secrets, issued, outdated, acked>>
         /\ pc[h] = "idle"
BY DEF Request, PostResource, PutResource, TaskStatus, Rerun, StatusCheck,
       TokenPatch, Exchange, Begin, Goto, db, vcluster

LEMMA StepIsBusy ==
  ASSUME NEW h \in Handlers, Step(h)
  PROVE  Busy(h)
BY DEF Step, AddCreate, UpdateSave, SweepFind, SweepFindFails, SweepSave, SweepDelete, SpecFind,
       SpecCreate, IssueToken, ListTfs, WriteTf, RerunUpdate, StatusFind, StatusSave, Return,
       Goto, Busy

LEMMA NextFresh ==
  ASSUME FreshInv, NoOverlap, [Next]_vars
  PROVE  FreshInv' /\ GensGrow
<1> USE DEF FreshInv
<1>1. IInv'
  BY NextOK
<1>2. UNCHANGED resources => GensGrow
  <2>1. \A v \in Uuids : resources[v] # Null => resources[v].gen \in Nat
    BY GenerationsAssumption DEF IInv, TypeOK, Row
  <2>2. QED
    BY <2>1 DEF GensGrow
<1>3. ASSUME NEW h \in Handlers, Request(h) PROVE FreshInv' /\ GensGrow
  <2>1. \A i \in Handlers \ {h} : Fresh(i)'
    BY <1>3, RequestOnlyReads, OnlyOneMoves, FreshStays DEF IInv
  <2>2. QED
    BY <1>1, <1>2, <1>3, <2>1, RequestFresh, RequestOnlyReads
<1>4. ASSUME NEW h \in Handlers, Step(h) PROVE FreshInv' /\ GensGrow
  <2>1. ASSUME NEW i \in Handlers \ {h} PROVE Fresh(i)'
    <3>1. Busy(i) => KeyFor(i) # KeyFor(h)
      BY <1>4, StepIsBusy DEF NoOverlap
    <3>2. Busy(i) => \A v \in Uuids : KeyOf[v] = KeyFor(i) => resources'[v] = resources[v]
      BY <1>4, <3>1, StepWrites
    <3>3. QED
      BY <1>4, <3>2, OnlyOneMoves, FreshStays DEF IInv
  <2>2. QED
    BY <1>1, <1>4, <2>1, StepFresh, StepWrites DEF GensGrow
<1>5. ASSUME NEW h \in Handlers, Fail(h) PROVE FreshInv' /\ GensGrow
  <2>1. /\ pc'[h] = "idle" /\ UNCHANGED resources
        /\ \A i \in Handlers \ {h} : pc'[i] = pc[i] /\ ctx'[i] = ctx[i]
    BY <1>5 DEF Fail, Return, Goto, db, IInv, TypeOK
  <2>2. Fresh(h)'
    BY <2>1 DEF Fresh
  <2>3. \A i \in Handlers \ {h} : Fresh(i)'
    BY <2>1, FreshStays
  <2>4. QED
    BY <1>1, <1>2, <2>1, <2>2, <2>3
<1>6. CASE (\E k \in Keys : ControllerReports(k)) \/ Waiting \/ UNCHANGED vars
  <2>1. UNCHANGED <<resources, pc, ctx>>
    BY <1>6 DEF ControllerReports, Waiting, vars, db
  <2>2. QED
    BY <1>1, <1>2, <2>1, FreshStays
<1>7. QED
  BY <1>3, <1>4, <1>5, <1>6 DEF Next

\* The generation of a stored row never decreases, even when statements fail, as
\* long as no two requests about one cluster/namespace/name overlap.
THEOREM GenerationsNeverRegress == Spec /\ []NoOverlap => GenerationNeverRegresses
<1> DEFINE Grow == \A u \in Uuids : resources[u] # Null => resources'[u].gen >= resources[u].gen
<1>1. Init => FreshInv
  BY InitOK DEF Init, FreshInv, Fresh
<1>2. FreshInv /\ NoOverlap /\ [Next]_vars => FreshInv'
  BY NextFresh
<1>3. FreshInv /\ NoOverlap /\ [Next]_vars => [Grow]_vars
  BY NextFresh DEF GensGrow
<1> HIDE DEF Grow
<1>4. Spec /\ []NoOverlap => [][Grow]_vars
  BY <1>1, <1>2, <1>3, PTL DEF Spec
<1>5. QED
  BY <1>4 DEF Grow, GenerationNeverRegresses

-----------------------------------------------------------------------------
(***************************************************************************)
(* Rows, Tf objects and 204 answers of such requests, if nothing fails.    *)
(***************************************************************************)
CurrentSpec(u) == [uuid |-> u, gen |-> resources[u].gen]

\* What was answered 204 is stored, in that generation or a later one.
AckedStored ==
  \A s \in acked : resources[s.uuid] # Null /\ s.gen <= resources[s.uuid].gen

SweepDone(k) == \A h \in Handlers : pc[h] \in Sweeping => KeyFor(h) # k

\* Outside a sweep a key has one live row.
OnlyLive(k) == SweepDone(k) => \A u, v \in LiveOf(k) : u = v

\* If the generation of a live row was answered 204, then that is what the Tf
\* object of its key is of.
TfCurrent(k) ==
  \A u \in LiveOf(k) :
    CurrentSpec(u) \in acked => tfs[k] # Null /\ SpecOf(tfs[k]) = CurrentSpec(u)

\* A POST or PUT works for the newest row of its key, from the write of the row on.
Works(h) ==
  \/ pc[h] \in Sweeping \cup Recording \cup Applying
  \/ pc[h] = "token" /\ ctx[h].kind \notin {"tokenPatch", "exchange"}

HandlerSync(h) ==
  LET u == ctx[h].spec.uuid IN
  /\ pc[h] = "add_create" =>
       \A v \in Uuids : resources[v] # Null /\ KeyOf[v] = KeyFor(h)
                          => ctx[h].row.created > resources[v].created
  /\ Works(h) => /\ IsLive(u) /\ resources[u].gen = ctx[h].spec.gen
                 /\ \A v \in Uuids : ~Supersedes(v, u)
  /\ pc[h] \in {"sweep_save", "sweep_delete"} =>
       \A v \in LiveOf(KeyFor(h)) \ {u} : ctx[h].olds[v] # Null

SyncInv ==
  /\ VersionInv
  /\ Stamped
  /\ AckedStored
  /\ \A h \in Handlers : Fresh(h) /\ HandlerSync(h)
  /\ \A k \in Keys : OnlyLive(k) /\ TfCurrent(k)

\* What a handler knows of its rows stays so while the rows of the key do.
LEMMA HandlerSyncStays ==
  ASSUME IInv, NEW i \in Handlers, HandlerSync(i), pc'[i] = pc[i], ctx'[i] = ctx[i],
         Busy(i) => \A v \in Uuids : KeyOf[v] = KeyFor(i) => resources'[v] = resources[v]
  PROVE  HandlerSync(i)'
<1>1. CASE pc[i] = "idle"
  BY <1>1 DEF HandlerSync, Works, Sweeping, Recording, Applying
<1>2. CASE pc[i] # "idle"
  <2> PICK u \in Uuids : u = ctx[i].spec.uuid
    BY <1>2 DEF IInv, HandlerOK, HasSpec, SpecId
  <2>1. /\ KeyFor(i) = KeyOf[u] /\ KeyFor(i)' = KeyFor(i)
        /\ \A v \in Uuids : KeyOf[v] = KeyFor(i) => resources'[v] = resources[v]
    BY <1>2 DEF KeyFor, Busy
  <2>2. /\ IsLive(u)' <=> IsLive(u)
        /\ \A v \in Uuids : Supersedes(v, u)' => Supersedes(v, u)
        /\ \A v \in LiveOf(KeyFor(i))' : v \in LiveOf(KeyFor(i))
        /\ Works(i)' <=> Works(i)
    BY <2>1 DEF IsLive, Supersedes, LiveOf, Works
  <2>3. pc'[i] = "add_create" =>
          \A v \in Uuids : resources'[v] # Null /\ KeyOf[v] = KeyFor(i)'
                             => ctx'[i].row.created > resources'[v].created
    BY <2>1 DEF HandlerSync
  <2>4. Works(i)' => /\ IsLive(u)' /\ resources'[u].gen = ctx'[i].spec.gen
                     /\ \A v \in Uuids : ~Supersedes(v, u)'
    BY <2>1, <2>2 DEF HandlerSync
  <2>5. pc'[i] \in {"sweep_save", "sweep_delete"} =>
          \A v \in LiveOf(KeyFor(i))' \ {u} : ctx'[i].olds[v] # Null
    BY <2>2 DEF HandlerSync
  <2>6. QED
    BY <2>3, <2>4, <2>5 DEF HandlerSync
<1>3. QED
  BY <1>1, <1>2

-----------------------------------------------------------------------------
\* The rows of a key that are live after a step were before it, as they are.
RowsCalm(k) ==
  \A v \in Uuids : KeyOf[v] = k /\ IsLive(v)' =>
    IsLive(v) /\ resources'[v].gen = resources[v].gen

TfSpecKept(k) ==
  tfs[k] # Null => tfs'[k] # Null /\ SpecOf(tfs'[k]) = SpecOf(tfs[k])

\* No 204 of this key is new.
AckedKept(k) == \A s \in acked' : s \in acked \/ KeyOf[s.uuid] # k

\* What is live and was answered 204 was so before the step.
AckedLiveKept(k) ==
  \A u \in Uuids : u \in LiveOf(k)' /\ CurrentSpec(u)' \in acked' =>
    u \in LiveOf(k) /\ CurrentSpec(u)' = CurrentSpec(u) /\ CurrentSpec(u) \in acked

LEMMA CalmKeepsAcked ==
  ASSUME NEW k \in Keys, RowsCalm(k), AckedKept(k)
  PROVE  AckedLiveKept(k)
<1> SUFFICES ASSUME NEW u \in Uuids, u \in LiveOf(k)', CurrentSpec(u)' \in acked'
             PROVE  /\ u \in LiveOf(k) /\ CurrentSpec(u)' = CurrentSpec(u)
                    /\ CurrentSpec(u) \in acked
  BY DEF AckedLiveKept
<1>1. KeyOf[u] = k /\ IsLive(u)'
  BY DEF LiveOf
<1>2. u \in LiveOf(k) /\ CurrentSpec(u)' = CurrentSpec(u)
  BY <1>1 DEF RowsCalm, LiveOf, CurrentSpec
<1>3. QED
  BY <1>1, <1>2 DEF AckedKept, CurrentSpec

LEMMA TfStaysCurrent ==
  ASSUME NEW k \in Keys, TfCurrent(k), AckedLiveKept(k), TfSpecKept(k)
  PROVE  TfCurrent(k)'
<1> SUFFICES ASSUME NEW u \in Uuids, u \in LiveOf(k)', CurrentSpec(u)' \in acked'
             PROVE  tfs'[k] # Null /\ SpecOf(tfs'[k]) = CurrentSpec(u)'
  BY DEF TfCurrent, LiveOf, SpecOf
<1>1. u \in LiveOf(k) /\ CurrentSpec(u)' = CurrentSpec(u) /\ CurrentSpec(u) \in acked
  BY DEF AckedLiveKept
<1>2. QED
  BY <1>1 DEF TfCurrent, TfSpecKept

LEMMA StaysOnlyLive ==
  ASSUME NEW k \in Keys, OnlyLive(k), RowsCalm(k), SweepDone(k)' => SweepDone(k)
  PROVE  OnlyLive(k)'
BY DEF OnlyLive, RowsCalm, LiveOf

\* A step of h ends no sweep of another key, nor one that h does not run.
LEMMA SweepDoneBefore ==
  ASSUME TypeOK, NEW h \in Handlers, Request(h) \/ Step(h), NEW k \in Keys,
         pc[h] \in Sweeping => KeyFor(h) # k, SweepDone(k)'
  PROVE  SweepDone(k)
<1>1. ASSUME NEW i \in Handlers \ {h}, pc[i] \in Sweeping PROVE KeyFor(i) # k
  BY <1>1, OnlyOneMoves DEF SweepDone, KeyFor
<1>2. QED
  BY <1>1 DEF SweepDone

\* A handler works for one resource until it returns.
LEMMA StepKeepsSpec ==
  ASSUME TypeOK, NEW h \in Handlers, Step(h)
  PROVE  \/ pc'[h] = "idle"
         \/ ctx'[h].spec = ctx[h].spec /\ ctx'[h].kind = ctx[h].kind
<1> USE DEF TypeOK
<1>1. ctx[h] \in Ctx
  OBVIOUS
<1>2. CASE SweepFind(h)
  <2>1. PICK c : ctx' = [ctx EXCEPT ![h].olds = c]
    BY <1>2 DEF SweepFind
  <2>2. QED
    BY <1>1, <2>1 DEF Ctx
<1>3. CASE StatusFind(h)
  <2>1. pc'[h] = "idle" \/ \E c : ctx' = [ctx EXCEPT ![h].row = c]
    BY <1>3 DEF StatusFind, Return, Goto
  <2>2. QED
    BY <1>1, <2>1 DEF Ctx
<1>4. CASE ListTfs(h)
  <2>1. PICK c : ctx' = [ctx EXCEPT ![h].seen = c]
    BY <1>4 DEF ListTfs
  <2>2. QED
    BY <1>1, <2>1 DEF Ctx
<1>5. ASSUME ~SweepFind(h), ~StatusFind(h), ~ListTfs(h)
      PROVE  pc'[h] = "idle" \/ UNCHANGED ctx
  BY <1>5 DEF Step, AddCreate, UpdateSave, SweepFindFails, SweepSave, SweepDelete, SpecFind,
              SpecCreate, IssueToken, WriteTf, RerunUpdate, StatusSave, Return, Goto
<1>6. QED
  BY <1>2, <1>3, <1>4, <1>5

\* Only a POST that stores a row and a PUT that saves one make a row live, or move
\* the generation of a live one.
LEMMA StepRowsCalm ==
  ASSUME FreshInv, NEW h \in Handlers, Step(h), NEW k \in Keys,
         AddCreate(h) \/ UpdateSave(h) => k # KeyFor(h)
  PROVE  RowsCalm(k)
<1> USE DEF FreshInv, IInv, TypeOK
<1>1. CASE k # KeyFor(h)
  BY <1>1, StepWrites DEF RowsCalm, IsLive
<1>2. CASE StatusSave(h)
  <2>1. /\ ctx[h].spec.uuid \in Uuids /\ pc[h] = "status_save"
        /\ resources' = [resources EXCEPT ![ctx[h].spec.uuid] = ctx[h].row]
    BY <1>2 DEF StatusSave, Return, Goto, Saved, HandlerOK, HasSpec, SpecId
  <2>2. IsLive(ctx[h].spec.uuid) /\ ctx[h].row.gen = resources[ctx[h].spec.uuid].gen
    BY <2>1 DEF Fresh
  <2>3. QED
    BY <2>1, <2>2 DEF RowsCalm, IsLive
<1>3. CASE SweepSave(h)
  <2>1. /\ pc[h] = "sweep_save"
        /\ \A v \in Uuids : resources'[v] = IF ctx[h].olds[v] # Null THEN ctx[h].olds[v]
                                                                     ELSE resources[v]
    BY <1>3 DEF SweepSave, Goto
  <2>2. QED
    BY <2>1 DEF RowsCalm, IsLive, Fresh
<1>4. CASE SweepDelete(h)
  <2>1. \A v \in Uuids : resources'[v] = IF ctx[h].olds[v] # Null
                                         THEN [resources[v] EXCEPT !.deleted = TRUE]
                                         ELSE resources[v]
    BY <1>4 DEF SweepDelete
  <2>2. \A v \in Uuids : ctx[h].olds[v] # Null => resources[v] # Null
    BY DEF HandlerOK, SweepsSuperseded
  <2>3. \A v \in Uuids : resources[v] # Null => [resources[v] EXCEPT !.deleted = TRUE].deleted
    BY DEF Row
  <2>4. QED
    BY <2>1, <2>2, <2>3 DEF RowsCalm, IsLive
<1>5. CASE UNCHANGED resources
  BY <1>5 DEF RowsCalm, IsLive
<1>6. QED
  BY <1>1, <1>2, <1>3, <1>4, <1>5
     DEF Step, SweepFind, SweepFindFails, SpecFind, SpecCreate, IssueToken, ListTfs, WriteTf,
         RerunUpdate, StatusFind, db

\* A rerun writes back the spec that is stored, or is refused.
LEMMA StepTfKept ==
  ASSUME VersionInv, NEW h \in Handlers, Step(h), ~WriteTf(h), NEW k \in Keys
  PROVE  TfSpecKept(k)
<1> USE DEF VersionInv, IInv, TypeOK
<1>1. CASE RerunUpdate(h) /\ k = KeyFor(h) /\ WriteAccepted(ctx[h].seen, tfs[k]) /\ tfs[k] # Null
  <2>1. /\ pc[h] \in Holding /\ ctx[h].seen # Null /\ ctx[h].seen.rv = tfs[k].rv
        /\ tfs'[k] = [ctx[h].seen EXCEPT !.rv = @ + 1]
    BY <1>1 DEF RerunUpdate, Return, Goto, WriteAccepted, Holding
  <2>2. ctx[h].seen = tfs[k] /\ tfs[k] \in Tf
    BY <1>1, <2>1 DEF SeenIsOld
  <2>3. SpecOf(tfs'[k]) = SpecOf(tfs[k]) /\ tfs'[k] \in Tf
    <3>1. PICK f \in Tf : f = tfs[k]
      BY <2>2
    <3>2. tfs'[k] = [uuid |-> f.uuid, gen |-> f.gen, status |-> f.status, rv |-> f.rv + 1]
      BY <2>1, <2>2, <3>1 DEF Tf
    <3>3. QED
      BY <3>1, <3>2 DEF Tf, SpecOf
  <2>4. QED
    BY <2>3, NullAssumption DEF TfSpecKept
<1>2. CASE RerunUpdate(h) /\ ~(k = KeyFor(h) /\ WriteAccepted(ctx[h].seen, tfs[k]))
  BY <1>2 DEF RerunUpdate, TfSpecKept
<1>3. CASE tfs[k] = Null
  BY <1>3 DEF TfSpecKept
<1>4. CASE UNCHANGED tfs
  BY <1>4 DEF TfSpecKept
<1>5. QED
  BY <1>1, <1>2, <1>3, <1>4
     DEF Step, AddCreate, UpdateSave, SweepFind, SweepFindFails, SweepSave, SweepDelete,
         SpecFind, SpecCreate, IssueToken, ListTfs, StatusFind, StatusSave, vcluster

LEMMA ControllerKeepsSpec ==
  ASSUME IInv, NEW j \in Keys, ControllerReports(j), NEW k \in Keys
  PROVE  TfSpecKept(k)
<1> USE DEF IInv, TypeOK
<1>1. CASE k = j
  BY <1>1, ControllerWrites, NullAssumption DEF SpecOf, TfSpecKept
<1>2. CASE k # j
  BY <1>2 DEF ControllerReports, TfSpecKept
<1>3. QED
  BY <1>1, <1>2

\* A row that is stored anew is of no generation that was answered 204, or of the
\* one that was stored before.
LEMMA StoreKeepsAcked ==
  ASSUME SyncInv, NEW h \in Handlers, AddCreate(h) \/ UpdateSave(h),
         NEW k \in Keys, k = KeyFor(h)
  PROVE  AckedLiveKept(k)
<1> USE DEF SyncInv, VersionInv, IInv, TypeOK
<1> PICK u \in Uuids : u = ctx[h].spec.uuid
  BY DEF AddCreate, UpdateSave, Goto, HandlerOK, HasSpec, SpecId
<1>1. UNCHANGED acked
  BY DEF AddCreate, UpdateSave
<1>2. CASE UNCHANGED resources
  <2>1. RowsCalm(k) /\ AckedKept(k)
    BY <1>1, <1>2 DEF RowsCalm, IsLive, AckedKept
  <2>2. QED
    BY <2>1, CalmKeepsAcked
<1>3. CASE /\ resources' = [resources EXCEPT ![u] = ctx[h].row]
           /\ resources[u] = Null \/ UpdateSave(h)
  <2> SUFFICES ASSUME NEW v \in Uuids, v \in LiveOf(k)', CurrentSpec(v)' \in acked'
               PROVE  /\ v \in LiveOf(k) /\ CurrentSpec(v)' = CurrentSpec(v)
                      /\ CurrentSpec(v) \in acked
    BY DEF AckedLiveKept
  <2>1. CurrentSpec(v)' \in acked /\ CurrentSpec(v)' = [uuid |-> v, gen |-> resources'[v].gen]
    BY <1>1 DEF CurrentSpec
  <2>2. resources[v] # Null /\ resources'[v].gen <= resources[v].gen
    BY <2>1 DEF AckedStored
  <2>3. IsLive(v) /\ resources'[v].gen = resources[v].gen
    <3>1. CASE v = u
      <4>1. /\ UpdateSave(h) /\ pc[h] = "update_save" /\ resources'[v] = ctx[h].row
        BY <1>3, <2>2, <3>1 DEF UpdateSave, Goto
      <4>2. /\ IsLive(u) /\ ctx[h].row.gen >= resources[u].gen
            /\ ctx[h].row \in Row /\ resources[u] \in Row
        BY <4>1 DEF Fresh, HandlerOK, WritesLiveRow
      <4>3. ctx[h].row.gen \in Nat /\ resources[u].gen \in Nat
        BY <4>2, GenerationsAssumption DEF Row
      <4>4. ctx[h].row.gen <= resources[u].gen
        BY <2>2, <3>1, <4>1
      <4>5. ctx[h].row.gen = resources[u].gen
        <5> HIDE DEF IInv, TypeOK
        <5>1. QED
          BY <4>2, <4>3, <4>4
      <4>6. QED
        BY <3>1, <4>1, <4>2, <4>5
    <3>2. CASE v # u
      BY <1>3, <3>2 DEF LiveOf, IsLive
    <3>3. QED
      BY <3>1, <3>2
  <2>4. v \in LiveOf(k) /\ CurrentSpec(v)' = CurrentSpec(v)
    BY <2>1, <2>3 DEF LiveOf, CurrentSpec
  <2>5. QED
    BY <2>1, <2>4
<1>4. QED
  BY <1>2, <1>3 DEF AddCreate, UpdateSave, Saved

\* In a request's own key there is no other.
LEMMA AloneInKey ==
  ASSUME TypeOK, NoOverlap, NEW h \in Handlers, Busy(h), NEW k, k = KeyFor(h)
  PROVE  pc[h] \notin Sweeping => SweepDone(k)
BY DEF NoOverlap, Busy, SweepDone, Sweeping

\* After its sweep a handler works for the one live row of its key.
LEMMA WorksForOnlyLive ==
  ASSUME SyncInv, NoOverlap, NEW h \in Handlers, Works(h), pc[h] \notin Sweeping,
         NEW k \in Keys, k = KeyFor(h)
  PROVE  \A v \in LiveOf(k) : CurrentSpec(v) = ctx[h].spec
<1> USE DEF SyncInv, VersionInv, IInv, TypeOK
<1>1. Busy(h) /\ ctx[h].spec \in SpecId
  BY DEF Works, Recording, Applying, Sweeping, Busy, HandlerOK, HasSpec
<1> PICK u \in Uuids : u = ctx[h].spec.uuid
  BY <1>1 DEF SpecId
<1>2. IsLive(u) /\ resources[u].gen = ctx[h].spec.gen /\ SweepDone(k)
  BY <1>1, AloneInKey DEF HandlerSync
<1>3. \A v \in LiveOf(k) : v = u
  BY <1>2 DEF OnlyLive, LiveOf, KeyFor
<1>4. CurrentSpec(u) = ctx[h].spec
  BY <1>1, <1>2 DEF CurrentSpec, SpecId
<1>5. QED
  BY <1>3, <1>4

LEMMA WriteTfCurrent ==
  ASSUME SyncInv, NoOverlap, NEW h \in Handlers, WriteTf(h), NEW k \in Keys
  PROVE  TfCurrent(k)'
<1> USE DEF SyncInv, VersionInv, IInv, TypeOK
<1>1. /\ pc[h] = "tf_write" /\ resources' = resources /\ KeyFor(h) \in Keys
      /\ ctx[h].spec \in SpecId /\ KeyFor(h) = KeyOf[ctx[h].spec.uuid]
  BY KeysAssumption DEF WriteTf, Return, Goto, KeyFor, HandlerOK, HasSpec, SpecId, db
<1>2. RowsCalm(k)
  BY <1>1 DEF RowsCalm, IsLive
<1>3. CASE UNCHANGED <<tfs, acked>>
  BY <1>2, <1>3, CalmKeepsAcked, TfStaysCurrent DEF TfSpecKept, AckedKept
<1>4. CASE /\ tfs' = [tfs EXCEPT ![KeyFor(h)] = Applied(ctx[h].seen, ctx[h].spec)]
           /\ acked' = acked \cup {ctx[h].spec}
  <2>1. CASE k # KeyFor(h)
    <3>1. TfSpecKept(k) /\ AckedKept(k)
      BY <1>1, <1>4, <2>1 DEF TfSpecKept, AckedKept
    <3>2. QED
      BY <1>2, <3>1, CalmKeepsAcked, TfStaysCurrent
  <2>2. CASE k = KeyFor(h)
    <3>1. tfs'[k] = Applied(ctx[h].seen, ctx[h].spec)
      BY <1>1, <1>4, <2>2
    <3>2. tfs'[k] \in Tf /\ SpecOf(tfs'[k]) = ctx[h].spec
      <4>1. ctx[h].seen \in Tf \cup {Null}
        BY DEF Ctx
      <4>2. QED
        BY <1>1, <3>1, <4>1 DEF Applied, Tf, SpecOf, SpecId
    <3>3. \A v \in LiveOf(k) : CurrentSpec(v) = ctx[h].spec
      BY <1>1, <2>2, WorksForOnlyLive DEF Works, Applying, Sweeping
    <3>4. LiveOf(k)' = LiveOf(k) /\ \A v \in Uuids : CurrentSpec(v)' = CurrentSpec(v)
      BY <1>1 DEF LiveOf, IsLive, CurrentSpec
    <3>5. tfs'[k] # Null
      BY <3>2, NullAssumption
    <3>6. \A v \in LiveOf(k)' : tfs'[k] # Null /\ SpecOf(tfs'[k]) = CurrentSpec(v)'
      BY <3>2, <3>3, <3>4, <3>5 DEF LiveOf
    <3>7. QED
      BY <3>6 DEF TfCurrent, SpecOf
  <2>3. QED
    BY <2>1, <2>2
<1>5. QED
  BY <1>3, <1>4 DEF WriteTf

\* What a step of h leaves live of what was answered 204.
LEMMA StepKeepsAcked ==
  ASSUME SyncInv, NEW h \in Handlers, Step(h), ~WriteTf(h), NEW k \in Keys
  PROVE  AckedLiveKept(k)
<1>1. CASE (AddCreate(h) \/ UpdateSave(h)) /\ k = KeyFor(h)
  BY <1>1, StoreKeepsAcked
<1>2. ASSUME AddCreate(h) \/ UpdateSave(h) => k # KeyFor(h) PROVE AckedLiveKept(k)
  <2>1. RowsCalm(k)
    BY <1>2, StepRowsCalm DEF SyncInv, FreshInv, VersionInv
  <2>2. acked' = acked
    BY DEF Step, AddCreate, UpdateSave, SweepFind, SweepFindFails, SweepSave, SweepDelete,
           SpecFind, SpecCreate, IssueToken, ListTfs, RerunUpdate, StatusFind, StatusSave
  <2>3. QED
    BY <2>1, <2>2, CalmKeepsAcked DEF AckedKept
<1>3. QED
  BY <1>1, <1>2

LEMMA StepTfCurrent ==
  ASSUME SyncInv, NoOverlap, NEW h \in Handlers, Step(h), NEW k \in Keys
  PROVE  TfCurrent(k)'
BY WriteTfCurrent, StepKeepsAcked, StepTfKept, TfStaysCurrent DEF SyncInv

\* Every other live row of the key is older than the row a handler works for.
LEMMA OwnSupersedes ==
  ASSUME SyncInv, NEW h \in Handlers, Works(h), NEW u \in Uuids, u = ctx[h].spec.uuid,
         NEW v \in LiveOf(KeyOf[u]), v # u
  PROVE  Supersedes(u, v)
<1> USE DEF SyncInv, VersionInv, IInv, TypeOK
<1>1. /\ IsLive(u) /\ IsLive(v) /\ KeyOf[v] = KeyOf[u] /\ ~Supersedes(v, u)
      /\ v \in Uuids
  BY DEF HandlerSync, LiveOf
<1>2. /\ resources[u].created \in Nat /\ resources[v].created \in Nat
      /\ resources[u].created # resources[v].created
  BY <1>1 DEF IsLive, Row, Stamped
<1>3. ~(resources[v].created > resources[u].created)
  BY <1>1 DEF Supersedes, IsLive
<1>4. resources[u].created > resources[v].created
  <2> HIDE DEF SyncInv, VersionInv, IInv, TypeOK
  <2>1. QED
    BY <1>2, <1>3
<1>5. QED
  BY <1>1, <1>4 DEF Supersedes, IsLive

\* The row a handler works for is not in the batch that it deletes.
LEMMA OwnNotSwept ==
  ASSUME SyncInv, NEW h \in Handlers, Works(h), NEW u \in Uuids, u = ctx[h].spec.uuid
  PROVE  ctx[h].olds[u] = Null
<1>1. \A v \in Uuids : ~Supersedes(v, u)
  BY DEF SyncInv, HandlerSync
<1>2. SweepsSuperseded(h)
  BY DEF SyncInv, VersionInv, IInv, HandlerOK
<1>3. QED
  BY <1>1, <1>2 DEF SweepsSuperseded, Supersedes

\* The sweep that finds nothing, and the one that has deleted its batch, leave
\* one live row.
LEMMA SweepEndsOnlyLive ==
  ASSUME SyncInv, NEW h \in Handlers,
         (SweepFind(h) /\ pc'[h] \notin Sweeping) \/ SweepDelete(h),
         NEW k \in Keys, k = KeyFor(h)
  PROVE  \A u, v \in LiveOf(k)' : u = v
<1> USE DEF SyncInv, VersionInv, IInv, TypeOK
<1> PICK u \in Uuids : u = ctx[h].spec.uuid
  BY DEF SweepFind, SweepDelete, Goto, HandlerOK, HasSpec, SpecId
<1>1. Works(h) /\ k = KeyOf[u]
  BY DEF SweepFind, SweepDelete, Goto, Works, Sweeping, KeyFor
<1>2. SUFFICES ASSUME NEW v \in LiveOf(k)', v # u PROVE FALSE
  OBVIOUS
<1>3. CASE SweepFind(h) /\ pc'[h] \notin Sweeping
  <2>1. /\ Superseded(KeyFor(h)) = {} /\ resources' = resources
    BY <1>3 DEF SweepFind, Goto, Sweeping, db
  <2>2. v \in LiveOf(k) /\ u \in LiveOf(k)
    BY <1>1, <2>1 DEF LiveOf, IsLive, HandlerSync
  <2>3. Supersedes(u, v)
    BY <1>1, <1>2, <2>2, OwnSupersedes
  <2>4. v \in Superseded(KeyFor(h))
    BY <2>2, <2>3 DEF Superseded, Supersedes
  <2>5. QED
    BY <2>1, <2>4
<1>4. CASE SweepDelete(h)
  <2>1. /\ pc[h] = "sweep_delete" /\ RowsCalm(k)
    BY <1>4, StepRowsCalm DEF SweepDelete, Goto, Step, FreshInv, AddCreate, UpdateSave
  <2>2. v \in LiveOf(KeyFor(h)) \ {u}
    BY <1>2, <2>1 DEF RowsCalm, LiveOf
  <2>3. ctx[h].olds[v] # Null
    BY <2>1, <2>2 DEF HandlerSync
  <2>4. resources[v] \in Row /\ resources'[v] = [resources[v] EXCEPT !.deleted = TRUE]
    BY <1>4, <2>2, <2>3 DEF SweepDelete, LiveOf, IsLive
  <2>5. resources'[v].deleted
    BY <2>4 DEF Row
  <2>6. QED
    BY <1>2, <2>5 DEF LiveOf, IsLive
<1>5. QED
  BY <1>3, <1>4

LEMMA StepOnlyLive ==
  ASSUME SyncInv, ~Faults, NEW h \in Handlers, Step(h), NEW k \in Keys
  PROVE  OnlyLive(k)'
<1> USE DEF SyncInv, VersionInv, IInv
<1>1. CASE k # KeyFor(h)
  <2>1. RowsCalm(k)
    BY <1>1, StepRowsCalm DEF FreshInv
  <2>2. SweepDone(k)' => SweepDone(k)
    BY <1>1, SweepDoneBefore
  <2>3. QED
    BY <2>1, <2>2, StaysOnlyLive
<1>2. CASE k = KeyFor(h) /\ pc'[h] \in Sweeping
  <2>1. KeyFor(h)' = k
    BY <1>2, StepKeepsSpec DEF KeyFor, Sweeping
  <2>2. ~SweepDone(k)'
    BY <1>2, <2>1 DEF SweepDone
  <2>3. QED
    BY <2>2 DEF OnlyLive
<1>3. CASE k = KeyFor(h) /\ pc'[h] \notin Sweeping /\ pc[h] \in Sweeping
  <2>1. SweepFind(h) \/ SweepDelete(h)
    BY <1>3 DEF Step, AddCreate, UpdateSave, SweepFindFails, SweepSave, SpecFind, SpecCreate,
                IssueToken, ListTfs, WriteTf, RerunUpdate, StatusFind, StatusSave, Return, Goto,
                Sweeping, TypeOK
  <2>2. QED
    BY <1>3, <2>1, SweepEndsOnlyLive DEF OnlyLive, LiveOf
<1>4. CASE k = KeyFor(h) /\ pc'[h] \notin Sweeping /\ pc[h] \notin Sweeping
  <2>1. SweepDone(k)' => SweepDone(k)
    BY <1>4, SweepDoneBefore
  <2>2. RowsCalm(k)
    <3>1. CASE UNCHANGED resources
      BY <3>1 DEF RowsCalm, IsLive
    <3>2. CASE ~UNCHANGED resources
      <4>1. ~UpdateSave(h)
        BY <1>4 DEF UpdateSave, Goto, Sweeping, TypeOK
      <4>2. ~AddCreate(h)
        BY <1>4, <3>2 DEF AddCreate, Goto, Sweeping, TypeOK
      <4>3. QED
        BY <4>1, <4>2, StepRowsCalm DEF FreshInv
    <3>3. QED
      BY <3>1, <3>2
  <2>3. QED
    BY <2>1, <2>2, StaysOnlyLive
<1>5. QED
  BY <1>1, <1>2, <1>3, <1>4

-----------------------------------------------------------------------------
\* A POST takes a stamp that is later than all stored ones.
LEMMA RequestSync ==
  ASSUME SyncInv, NEW h \in Handlers, Request(h)
  PROVE  HandlerSync(h)'
<1> USE DEF SyncInv, VersionInv, IInv, TypeOK
<1>1. ASSUME NEW s \in SpecId, PostResource(h, s) PROVE HandlerSync(h)'
  <2>1. /\ pc'[h] = "add_create" /\ ctx'[h].row.created = clock + 1 /\ resources' = resources
        /\ clock \in Nat
    BY <1>1 DEF PostResource, Begin, Goto, IdleCtx, db
  <2>2. \A v \in Uuids : resources[v] # Null =>
          resources[v].created \in Nat /\ resources[v].created <= clock
    BY DEF Stamped, Row
  <2>3. \A v \in Uuids : resources[v] # Null => clock + 1 > resources[v].created
    BY <2>1, <2>2
  <2>4. ~Works(h)'
    BY <2>1 DEF Works, Sweeping, Recording, Applying
  <2>5. QED
    BY <2>1, <2>3, <2>4 DEF HandlerSync
<1>2. ASSUME NEW u \in Uuids, TokenPatch(h, u) PROVE HandlerSync(h)'
  <2>1. pc'[h] = "token" /\ ctx'[h].kind = "tokenPatch"
    BY <1>2 DEF TokenPatch, Begin, Goto, IdleCtx
  <2>2. QED
    BY <2>1 DEF HandlerSync, Works, Sweeping, Recording, Applying
<1>3. ASSUME NEW s \in issued, Exchange(h, s) PROVE HandlerSync(h)'
  <2>1. pc'[h] = "token" /\ ctx'[h].kind = "exchange"
    BY <1>3 DEF Exchange, Begin, Goto, IdleCtx
  <2>2. QED
    BY <2>1 DEF HandlerSync, Works, Sweeping, Recording, Applying
<1>4. ASSUME ~(\E s \in SpecId : PostResource(h, s)), ~(\E u \in Uuids : TokenPatch(h, u)),
             ~(\E s \in issued : Exchange(h, s))
      PROVE  HandlerSync(h)'
  <2>1. pc'[h] \in {"update_save", "status_save", "rerun_update", "status_find"}
    BY <1>4 DEF Request, PutResource, TaskStatus, Rerun, StatusCheck, Begin, Goto
  <2>2. QED
    BY <2>1 DEF HandlerSync, Works, Sweeping, Recording, Applying
<1>5. QED
  BY <1>1, <1>2, <1>3, <1>4

\* The row a POST stores is the newest of its key.
LEMMA AddCreateSync ==
  ASSUME SyncInv, NEW h \in Handlers, AddCreate(h)
  PROVE  HandlerSync(h)'
<1> USE DEF SyncInv, VersionInv, IInv, TypeOK
<1> PICK u \in Uuids : u = ctx[h].spec.uuid
  BY DEF AddCreate, HandlerOK, HasSpec, SpecId
<1>1. CASE pc'[h] = "idle"
  BY <1>1 DEF HandlerSync, Works, Sweeping, Recording, Applying
<1>2. CASE /\ resources[u] = Null /\ resources' = [resources EXCEPT ![u] = ctx[h].row]
           /\ pc'[h] = "sweep_find" /\ ctx' = ctx /\ pc[h] = "add_create"
  <2>1. /\ ctx[h].row \in Row /\ ctx[h].row # Null /\ ~ctx[h].row.deleted
        /\ ctx[h].row.gen = ctx[h].spec.gen
    BY <1>2, NullAssumption DEF HandlerOK, CarriesRow, WritesLiveRow
  <2>2. resources'[u] = ctx[h].row /\ IsLive(u)'
    BY <1>2, <2>1 DEF IsLive
  <2>3. ASSUME NEW v \in Uuids, Supersedes(v, u)' PROVE FALSE
    <3>1. /\ resources'[v] # Null /\ KeyOf[v] = KeyOf[u]
          /\ resources'[v].created > ctx[h].row.created /\ ctx[h].row.created \in Nat
      BY <2>1, <2>2, <2>3 DEF Supersedes, Row
    <3>2. v # u
      BY <2>2, <3>1
    <3>3. resources'[v] = resources[v] /\ ctx[h].row.created > resources[v].created
      BY <1>2, <3>1, <3>2 DEF HandlerSync, KeyFor
    <3>4. resources[v].created \in Nat
      BY <3>1, <3>3 DEF Row
    <3> HIDE DEF IInv, TypeOK
    <3>5. QED
      BY <3>1, <3>3, <3>4
  <2>4. QED
    BY <1>2, <2>1, <2>2, <2>3 DEF HandlerSync
<1>3. QED
  BY <1>1, <1>2 DEF AddCreate, Saved, Return, Goto

\* The row a PUT finds live is the newest of its key.
LEMMA UpdateSaveSync ==
  ASSUME SyncInv, NoOverlap, NEW h \in Handlers, UpdateSave(h)
  PROVE  HandlerSync(h)'
<1> USE DEF SyncInv, VersionInv, IInv, TypeOK
<1> PICK u \in Uuids : u = ctx[h].spec.uuid
  BY DEF UpdateSave, Goto, HandlerOK, HasSpec, SpecId
<1>1. /\ resources' = [resources EXCEPT ![u] = ctx[h].row]
      /\ pc'[h] = "sweep_find" /\ ctx' = ctx /\ pc[h] = "update_save"
  BY DEF UpdateSave, Goto, Saved
<1>2. /\ ctx[h].row \in Row /\ ctx[h].row # Null /\ ~ctx[h].row.deleted
      /\ ctx[h].row.gen = ctx[h].spec.gen /\ IsLive(u)
  BY <1>1, NullAssumption DEF HandlerOK, CarriesRow, WritesLiveRow, Fresh
<1>3. resources'[u] = ctx[h].row /\ IsLive(u)'
  BY <1>1, <1>2 DEF IsLive
<1>4. ASSUME NEW v \in Uuids, Supersedes(v, u)' PROVE FALSE
  <2>1. OldRowsOnly
    BY StepsKeepOldRows DEF Step, UpdateSave, AddCreate, Goto
  <2>2. Supersedes(v, u)
    BY <1>3, <1>4, <2>1 DEF OldRowsOnly, Supersedes, IsLive
  <2>3. PICK w \in Uuids : IsLive(w) /\ Supersedes(w, u)
    BY <1>2, <2>2, NewestAbove DEF IsLive
  <2>4. KeyOf[u] \in Keys /\ SweepDone(KeyOf[u])
    BY <1>1, KeysAssumption, AloneInKey DEF KeyFor, Busy, Sweeping
  <2>5. w = u
    BY <1>2, <2>3, <2>4 DEF OnlyLive, LiveOf, Supersedes
  <2>6. resources[u].created \in Nat /\ resources[u].created > resources[u].created
    BY <1>2, <2>3, <2>5 DEF Supersedes, IsLive, Row
  <2>7. QED
    BY <2>6
<1>5. QED
  BY <1>1, <1>2, <1>3, <1>4 DEF HandlerSync

\* The sweep reads, brings back and deletes rows below that of its handler.
LEMMA SweepSync ==
  ASSUME SyncInv, NEW h \in Handlers, SweepFind(h) \/ SweepSave(h) \/ SweepDelete(h)
  PROVE  HandlerSync(h)'
<1> USE DEF SyncInv, VersionInv, IInv, TypeOK
<1> PICK u \in Uuids : u = ctx[h].spec.uuid
  BY DEF SweepFind, SweepSave, SweepDelete, Goto, HandlerOK, HasSpec, SpecId
<1>1. /\ Works(h) /\ Step(h) /\ ~AddCreate(h) /\ ~UpdateSave(h) /\ pc'[h] # "add_create"
      /\ pc'[h] # "idle" /\ KeyFor(h) = KeyOf[u] /\ KeyFor(h) \in Keys
  BY KeysAssumption
     DEF SweepFind, SweepSave, SweepDelete, AddCreate, UpdateSave, Goto, AfterSweep, Works,
         Sweeping, Step, KeyFor
<1>2. /\ IsLive(u) /\ resources[u].gen = ctx[h].spec.gen
      /\ \A v \in Uuids : ~Supersedes(v, u)
  BY <1>1 DEF HandlerSync
<1>3. ctx'[h].spec = ctx[h].spec
  BY <1>1, StepKeepsSpec
<1>4. resources'[u] = resources[u]
  BY <1>1, OwnNotSwept DEF SweepFind, SweepSave, SweepDelete, db
<1>5. \A v \in Uuids : ~Supersedes(v, u)'
  <2>1. OldRowsOnly
    BY <1>1, StepsKeepOldRows
  <2>2. QED
    BY <1>2, <1>4, <2>1 DEF OldRowsOnly, Supersedes
<1>6. IsLive(u)' /\ resources'[u].gen = ctx'[h].spec.gen
  BY <1>2, <1>3, <1>4 DEF IsLive
<1>7. ASSUME NEW v \in LiveOf(KeyFor(h))' \ {u}, pc'[h] \in {"sweep_save", "sweep_delete"}
      PROVE  ctx'[h].olds[v] # Null
  <2>1. KeyFor(h)' = KeyFor(h)
    BY <1>3 DEF KeyFor
  <2>2. RowsCalm(KeyFor(h))
    BY <1>1, StepRowsCalm DEF FreshInv
  <2>3. v \in LiveOf(KeyFor(h))
    BY <1>7, <2>1, <2>2 DEF RowsCalm, LiveOf
  <2>4. CASE SweepFind(h)
    <3> DEFINE olds == Superseded(KeyFor(h))
               copies == [x \in Uuids |-> IF x \in olds THEN resources[x] ELSE Null]
    <3>1. Supersedes(u, v)
      BY <1>1, <1>7, <2>3, OwnSupersedes
    <3>2. v \in olds
      BY <1>1, <1>2, <2>3, <3>1 DEF Superseded, Supersedes, LiveOf
    <3>3. copies[v] # Null
      BY <2>3, <3>2 DEF LiveOf, IsLive
    <3>4. ctx[h] \in Ctx /\ ctx' = [ctx EXCEPT ![h].olds = copies]
      BY <2>4 DEF SweepFind
    <3>5. ctx'[h].olds = copies
      <4> HIDE DEF copies
      <4>1. QED
        BY <3>4 DEF Ctx
    <3>6. QED
      BY <3>3, <3>5
  <2>5. CASE SweepSave(h)
    <3>1. pc[h] = "sweep_save" /\ ctx' = ctx
      BY <2>5 DEF SweepSave, Goto
    <3>2. QED
      BY <1>7, <2>3, <3>1 DEF HandlerSync
  <2>6. CASE SweepDelete(h)
    BY <1>7, <2>6 DEF SweepDelete, Goto, AfterSweep
  <2>7. QED
    BY <2>4, <2>5, <2>6
<1>8. \A v \in LiveOf(KeyFor(h))' \ {ctx'[h].spec.uuid} :
        pc'[h] \in {"sweep_save", "sweep_delete"} => ctx'[h].olds[v] # Null
  BY <1>3, <1>7
<1>9. QED
  BY <1>1, <1>3, <1>5, <1>6, <1>8 DEF HandlerSync

\* From there on a handler writes no row.
LEMMA OthersSync ==
  ASSUME SyncInv, NEW h \in Handlers,
         \/ SpecFind(h) \/ SpecCreate(h) \/ IssueToken(h) \/ ListTfs(h) \/ WriteTf(h)
         \/ RerunUpdate(h) \/ StatusFind(h) \/ StatusSave(h)
  PROVE  HandlerSync(h)'
<1> USE DEF SyncInv, VersionInv, IInv, TypeOK
<1>1. pc'[h] \notin {"add_create", "sweep_save", "sweep_delete"}
  BY DEF SpecFind, SpecCreate, IssueToken, ListTfs, WriteTf, RerunUpdate, StatusFind, StatusSave,
         Return, Goto
<1>2. CASE ~Works(h)'
  BY <1>1, <1>2 DEF HandlerSync
<1>3. CASE Works(h)'
  <2>1. pc'[h] # "idle"
    BY <1>3 DEF Works, Sweeping, Recording, Applying
  <2>2. ctx'[h].spec = ctx[h].spec /\ ctx'[h].kind = ctx[h].kind
    BY <2>1, StepKeepsSpec DEF Step
  <2>3. SpecFind(h) \/ SpecCreate(h) \/ IssueToken(h) \/ ListTfs(h)
    BY <1>3 DEF Works, Sweeping, Recording, Applying, WriteTf, RerunUpdate, StatusFind, StatusSave,
                Return, Goto
  <2>4. Works(h) /\ resources' = resources
    BY <2>1, <2>3 DEF Works, Recording, Applying, SpecFind, SpecCreate, IssueToken, ListTfs,
                      Return, Goto, db
  <2> PICK u \in Uuids : u = ctx[h].spec.uuid
    BY <2>3 DEF SpecFind, SpecCreate, IssueToken, ListTfs, Goto, HandlerOK, HasSpec, SpecId
  <2>5. /\ IsLive(u)' /\ resources'[u].gen = ctx'[h].spec.gen
        /\ \A v \in Uuids : ~Supersedes(v, u)'
    BY <2>2, <2>4 DEF HandlerSync, IsLive, Supersedes
  <2>6. QED
    BY <1>1, <2>2, <2>5 DEF HandlerSync
<1>4. QED
  BY <1>2, <1>3

LEMMA StepSync ==
  ASSUME SyncInv, NoOverlap, ~Faults, NEW h \in Handlers, Step(h)
  PROVE  HandlerSync(h)'
BY AddCreateSync, UpdateSaveSync, SweepSync, OthersSync DEF Step, SweepFindFails

\* A 204 is for what is stored, and generations do not go back.
LEMMA NextAckedStored ==
  ASSUME SyncInv, NoOverlap, ~Faults, [Next]_vars
  PROVE  AckedStored'
<1> USE DEF SyncInv, VersionInv, IInv, TypeOK
<1>1. ASSUME NEW s \in acked, resources'[s.uuid] # Null,
             resources'[s.uuid].gen >= resources[s.uuid].gen, TypeOK'
      PROVE  resources'[s.uuid] # Null /\ s.gen <= resources'[s.uuid].gen
  <2>1. /\ s.uuid \in Uuids /\ s.gen \in Generations
        /\ resources[s.uuid] # Null /\ s.gen <= resources[s.uuid].gen
    BY DEF AckedStored, SpecId
  <2>2. s.gen \in Nat /\ resources[s.uuid].gen \in Nat /\ resources'[s.uuid].gen \in Nat
    BY <1>1, <2>1, GenerationsAssumption DEF Row
  <2> HIDE DEF SyncInv, VersionInv, IInv, TypeOK
  <2>3. QED
    BY <1>1, <2>1, <2>2
<1>2. TypeOK'
  BY NextOK
<1>3. CASE UNCHANGED <<resources, acked>>
  BY <1>3 DEF AckedStored
<1>4. ASSUME NEW h \in Handlers, Step(h) PROVE AckedStored'
  <2>1. \A s \in acked : resources'[s.uuid] # Null /\ s.gen <= resources'[s.uuid].gen
    <3>1. \A s \in acked : s.uuid \in Uuids /\ resources[s.uuid] # Null
      BY DEF AckedStored, SpecId
    <3>2. QED
      BY <1>1, <1>2, <1>4, <3>1, StepWrites DEF FreshInv
  <2>2. CASE WriteTf(h)
    <3>1. /\ ctx[h].spec \in SpecId /\ acked' \subseteq acked \cup {ctx[h].spec}
          /\ resources' = resources /\ Works(h)
      BY <2>2 DEF WriteTf, Return, Goto, Works, Applying, HandlerOK, HasSpec, db
    <3>2. /\ resources'[ctx[h].spec.uuid] # Null
          /\ ctx[h].spec.gen = resources'[ctx[h].spec.uuid].gen
          /\ ctx[h].spec.gen \in Nat
      BY <3>1, GenerationsAssumption DEF HandlerSync, IsLive, SpecId
    <3>3. QED
      BY <2>1, <3>1, <3>2 DEF AckedStored
  <2>3. CASE ~WriteTf(h)
    <3>1. acked' = acked
      BY <1>4, <2>3
         DEF Step, AddCreate, UpdateSave, SweepFind, SweepFindFails, SweepSave, SweepDelete,
             SpecFind, SpecCreate, IssueToken, ListTfs, RerunUpdate, StatusFind, StatusSave
    <3>2. QED
      BY <2>1, <3>1 DEF AckedStored
  <2>4. QED
    BY <2>2, <2>3
<1>5. QED
  BY <1>3, <1>4, RequestOnlyReads DEF Next, Fail, ControllerReports, Waiting, vars, db

LEMMA SyncNext ==
  ASSUME SyncInv, NoOverlap, ~Faults, [Next]_vars
  PROVE  SyncInv'
<1> USE DEF SyncInv
<1>1. VersionInv'
  BY NextOK, NextMoves, SeenStaysOld DEF VersionInv
<1>2. Stamped'
  BY NextStamped DEF VersionInv
<1>3. AckedStored'
  BY NextAckedStored
<1>4. \A i \in Handlers : Fresh(i)'
  BY NextFresh DEF FreshInv, VersionInv
<1>5. SUFFICES /\ \A i \in Handlers : HandlerSync(i)'
               /\ \A k \in Keys : OnlyLive(k)' /\ TfCurrent(k)'
  BY <1>1, <1>2, <1>3, <1>4
<1>6. ASSUME NEW h \in Handlers, Request(h)
      PROVE  /\ \A i \in Handlers : HandlerSync(i)'
             /\ \A k \in Keys : OnlyLive(k)' /\ TfCurrent(k)'
  <2>1. UNCHANGED <<resources, tfs, acked>> /\ pc[h] = "idle"
    BY <1>6, RequestOnlyReads
  <2>2. \A i \in Handlers \ {h} : HandlerSync(i)'
    BY <1>6, <2>1, OnlyOneMoves, HandlerSyncStays DEF VersionInv, IInv
  <2>3. ASSUME NEW k \in Keys PROVE OnlyLive(k)' /\ TfCurrent(k)'
    <3>1. RowsCalm(k) /\ TfSpecKept(k) /\ AckedKept(k)
      BY <2>1 DEF RowsCalm, IsLive, TfSpecKept, AckedKept
    <3>2. SweepDone(k)' => SweepDone(k)
      BY <1>6, <2>1, SweepDoneBefore DEF Sweeping, VersionInv, IInv
    <3>3. QED
      BY <3>1, <3>2, StaysOnlyLive, CalmKeepsAcked, TfStaysCurrent
  <2>4. QED
    BY <1>6, <2>2, <2>3, RequestSync
<1>7. ASSUME NEW h \in Handlers, Step(h)
      PROVE  /\ \A i \in Handlers : HandlerSync(i)'
             /\ \A k \in Keys : OnlyLive(k)' /\ TfCurrent(k)'
  <2>1. ASSUME NEW i \in Handlers \ {h} PROVE HandlerSync(i)'
    <3>1. Busy(i) => KeyFor(i) # KeyFor(h)
      BY <1>7, StepIsBusy DEF NoOverlap
    <3>2. Busy(i) => \A v \in Uuids : KeyOf[v] = KeyFor(i) => resources'[v] = resources[v]
      BY <1>7, <3>1, StepWrites DEF FreshInv, VersionInv
    <3>3. QED
      BY <1>7, <3>2, OnlyOneMoves, HandlerSyncStays DEF VersionInv, IInv
  <2>2. QED
    BY <1>7, <2>1, StepSync, StepOnlyLive, StepTfCurrent
<1>8. CASE (\E k \in Keys : ControllerReports(k)) \/ Waiting \/ UNCHANGED vars
  <2>1. UNCHANGED <<resources, acked, pc, ctx>>
    BY <1>8 DEF ControllerReports, Waiting, vars, db
  <2>2. \A i \in Handlers : HandlerSync(i)'
    BY <2>1, HandlerSyncStays DEF VersionInv
  <2>3. ASSUME NEW k \in Keys PROVE OnlyLive(k)' /\ TfCurrent(k)'
    <3>1. RowsCalm(k) /\ AckedKept(k)
      BY <2>1 DEF RowsCalm, IsLive, AckedKept
    <3>2. TfSpecKept(k)
      BY <1>8, ControllerKeepsSpec DEF TfSpecKept, Waiting, vars, VersionInv
    <3>3. SweepDone(k)' => SweepDone(k)
      BY <2>1 DEF SweepDone, KeyFor
    <3>4. QED
      BY <3>1, <3>2, <3>3, StaysOnlyLive, CalmKeepsAcked, TfStaysCurrent
  <2>4. QED
    BY <2>2, <2>3
<1>9. QED
  BY <1>6, <1>7, <1>8 DEF Next, Fail

LEMMA InitSync == Init => SyncInv
<1> SUFFICES ASSUME Init PROVE SyncInv
  OBVIOUS
<1>1. VersionInv
  BY InitOK DEF Init, VersionInv, SeenIsOld, Holding
<1>2. Stamped /\ AckedStored
  BY DEF Init, Stamped, AckedStored
<1>3. \A h \in Handlers : Fresh(h) /\ HandlerSync(h)
  BY DEF Init, Fresh, HandlerSync, Works, Sweeping, Recording, Applying
<1>4. \A k \in Keys : OnlyLive(k) /\ TfCurrent(k)
  BY DEF Init, OnlyLive, TfCurrent, LiveOf, IsLive
<1>5. QED
  BY <1>1, <1>2, <1>3, <1>4 DEF SyncInv

\* If nothing fails and no two requests about one cluster/namespace/name overlap,
\* a live resource whose generation was answered 204 is what its vcluster runs.
THEOREM AckedAlwaysApplied == ~Faults /\ Spec /\ []NoOverlap => []AckedIsApplied
<1>1. SyncInv => AckedIsApplied
  <2> SUFFICES ASSUME SyncInv, NEW u \in Uuids, IsLive(u), CurrentSpec(u) \in acked
               PROVE  tfs[KeyOf[u]] # Null /\ SpecOf(tfs[KeyOf[u]]) = CurrentSpec(u)
    BY DEF AckedIsApplied, CurrentSpec
  <2>1. KeyOf[u] \in Keys /\ u \in LiveOf(KeyOf[u])
    BY KeysAssumption DEF LiveOf
  <2>2. QED
    BY <2>1 DEF SyncInv, TfCurrent
<1>2. SUFFICES ASSUME ~Faults PROVE Spec /\ []NoOverlap => []AckedIsApplied
  OBVIOUS
<1>3. SyncInv /\ NoOverlap /\ [Next]_vars => SyncInv'
  BY <1>2, SyncNext
<1>4. QED
  BY InitSync, <1>1, <1>3, PTL DEF Spec

-----------------------------------------------------------------------------
(***************************************************************************)
(* The task secret, which the exchange and the token patch overwrite too.  *)
(***************************************************************************)
SecretCurrent(k) ==
  \A u \in LiveOf(k) :
    CurrentSpec(u) \in acked => secrets[k] = CurrentSpec(u) \/ k \in outdated

HandlerToken(h) == pc[h] \in Applying => secrets[KeyFor(h)] = ctx[h].spec

TokenInv ==
  /\ SyncInv
  /\ \A h \in Handlers : HandlerToken(h)
  /\ \A k \in Keys : SecretCurrent(k)

SecretKept(k) == secrets'[k] = secrets[k] /\ (k \in outdated' <=> k \in outdated)

LEMMA SecretStaysCurrent ==
  ASSUME NEW k \in Keys, SecretCurrent(k), AckedLiveKept(k), SecretKept(k)
  PROVE  SecretCurrent(k)'
<1> SUFFICES ASSUME NEW u \in Uuids, u \in LiveOf(k)', CurrentSpec(u)' \in acked'
             PROVE  secrets'[k] = CurrentSpec(u)' \/ k \in outdated'
  BY DEF SecretCurrent, LiveOf
<1>1. u \in LiveOf(k) /\ CurrentSpec(u)' = CurrentSpec(u) /\ CurrentSpec(u) \in acked
  BY DEF AckedLiveKept
<1>2. QED
  BY <1>1 DEF SecretCurrent, SecretKept

\* A step of h writes the secret of its own key only.
LEMMA StepSecrets ==
  ASSUME NEW h \in Handlers, Step(h), NEW k \in Keys
  PROVE  (k = KeyFor(h) /\ IssueToken(h)) \/ SecretKept(k)
<1>1. CASE IssueToken(h)
  BY <1>1 DEF IssueToken, PatchedSecret, SecretKept
<1>2. CASE ~IssueToken(h)
  BY <1>2 DEF SecretKept, Step, AddCreate, UpdateSave, SweepFind, SweepFindFails,
              SweepSave, SweepDelete,
              SpecFind, SpecCreate, ListTfs, WriteTf, RerunUpdate, StatusFind, StatusSave, vcluster
<1>3. QED
  BY <1>1, <1>2

\* The handler of a POST or PUT signs for the one live row of its key and applies
\* what it has signed for; that of an exchange or a patch may sign for another one.
LEMMA OwnSecretCurrent ==
  ASSUME TokenInv, NoOverlap, NEW h \in Handlers, IssueToken(h) \/ WriteTf(h),
         NEW k \in Keys, k = KeyFor(h)
  PROVE  SecretCurrent(k)'
<1> USE DEF TokenInv, SyncInv, VersionInv, IInv, TypeOK
<1>1. /\ pc[h] \in {"token", "tf_write"} /\ resources' = resources
      /\ IssueToken(h) => pc[h] = "token"
  BY DEF IssueToken, WriteTf, Return, Goto, db
<1>2. secrets'[k] = ctx[h].spec
  BY DEF IssueToken, PatchedSecret, WriteTf, Return, Goto, HandlerToken, Applying
<1>3. LiveOf(k)' = LiveOf(k) /\ \A v \in Uuids : CurrentSpec(v)' = CurrentSpec(v)
  BY <1>1 DEF LiveOf, IsLive, CurrentSpec
<1>4. CASE Works(h)
  <2>1. \A v \in LiveOf(k) : CurrentSpec(v) = ctx[h].spec
    BY <1>1, <1>4, WorksForOnlyLive DEF Sweeping
  <2>2. \A v \in LiveOf(k)' : secrets'[k] = CurrentSpec(v)'
    BY <1>2, <1>3, <2>1 DEF LiveOf
  <2>3. QED
    BY <2>2 DEF SecretCurrent
<1>5. CASE ~Works(h)
  <2>1. IssueToken(h) /\ ctx[h].kind \in {"tokenPatch", "exchange"}
    BY <1>1, <1>5 DEF Works, Applying, WriteTf, Return, Goto
  <2>2. CASE IsCurrent(ctx[h].spec)
    <3>1. ctx[h].spec \in SpecId /\ Busy(h)
      BY <1>1, <2>1 DEF HandlerOK, HasSpec, Busy
    <3> PICK u \in Uuids : u = ctx[h].spec.uuid
      BY <3>1 DEF SpecId
    <3>2. u \in LiveOf(k) /\ SweepDone(k)
      BY <1>1, <2>1, <2>2, <3>1, AloneInKey DEF IsCurrent, LiveOf, KeyFor, Sweeping
    <3>3. \A v \in LiveOf(k) : v = u
      BY <3>2 DEF OnlyLive
    <3>4. CurrentSpec(u) = ctx[h].spec
      BY <2>2, <3>1 DEF IsCurrent, CurrentSpec, SpecId
    <3>5. \A v \in LiveOf(k)' : secrets'[k] = CurrentSpec(v)'
      BY <1>2, <1>3, <3>3, <3>4 DEF LiveOf
    <3>6. QED
      BY <3>5 DEF SecretCurrent
  <2>3. CASE ~IsCurrent(ctx[h].spec)
    <3>1. k \in outdated'
      BY <2>1, <2>3 DEF IssueToken
    <3>2. QED
      BY <3>1 DEF SecretCurrent
  <2>4. QED
    BY <2>2, <2>3
<1>6. QED
  BY <1>4, <1>5

LEMMA StepSecretCurrent ==
  ASSUME TokenInv, NoOverlap, NEW h \in Handlers, Step(h), NEW k \in Keys
  PROVE  SecretCurrent(k)'
<1> USE DEF TokenInv
<1>1. CASE k = KeyFor(h) /\ (IssueToken(h) \/ WriteTf(h))
  BY <1>1, OwnSecretCurrent
<1>2. CASE ~WriteTf(h) /\ ~(k = KeyFor(h) /\ IssueToken(h))
  BY <1>2, StepKeepsAcked, StepSecrets, SecretStaysCurrent
<1>3. CASE WriteTf(h) /\ k # KeyFor(h)
  <2>1. RowsCalm(k)
    BY <1>3 DEF WriteTf, RowsCalm, IsLive, db
  <2>2. AckedKept(k)
    BY <1>3 DEF WriteTf, AckedKept, KeyFor
  <2>3. QED
    BY <1>3, <2>1, <2>2, CalmKeepsAcked, StepSecrets, SecretStaysCurrent
<1>4. QED
  BY <1>1, <1>2, <1>3

LEMMA OwnHandlerToken ==
  ASSUME TokenInv, NEW h \in Handlers, Step(h)
  PROVE  HandlerToken(h)'
<1> USE DEF TokenInv, SyncInv, VersionInv, IInv, TypeOK
<1>1. CASE pc'[h] \notin Applying
  BY <1>1 DEF HandlerToken
<1>2. CASE pc'[h] \in Applying
  <2>1. /\ IssueToken(h) \/ ListTfs(h)
        /\ ctx'[h].spec = ctx[h].spec /\ ctx'[h].kind = ctx[h].kind
    <3>1. pc'[h] # "idle"
      BY <1>2 DEF Applying
    <3>2. IssueToken(h) \/ ListTfs(h)
      BY <1>2 DEF Step, AddCreate, UpdateSave, SweepFind, SweepFindFails, SweepSave, SweepDelete,
                  AfterSweep, SpecFind, SpecCreate, WriteTf, RerunUpdate, StatusFind, StatusSave,
                  Return, Goto, Applying
    <3>3. QED
      BY <3>1, <3>2, StepKeepsSpec
  <2>2. CASE IssueToken(h)
    <3>1. pc'[h] = "tf_list" /\ KeyFor(h)' = KeyFor(h) /\ KeyFor(h) \in Keys
      BY <1>2, <2>1, <2>2, KeysAssumption
         DEF IssueToken, Return, Goto, KeyFor, Applying, HandlerOK, HasSpec, SpecId
    <3>2. secrets'[KeyFor(h)] = ctx[h].spec
      BY <2>2, <3>1 DEF IssueToken, PatchedSecret
    <3>3. QED
      BY <2>1, <3>1, <3>2 DEF HandlerToken
  <2>3. CASE ListTfs(h)
    <3>1. pc[h] = "tf_list" /\ pc'[h] = "tf_write" /\ KeyFor(h)' = KeyFor(h) /\ secrets' = secrets
      BY <2>1, <2>3 DEF ListTfs, Goto, KeyFor, vcluster
    <3>2. QED
      BY <2>1, <3>1 DEF HandlerToken, Applying
  <2>4. QED
    BY <2>1, <2>2, <2>3
<1>3. QED
  BY <1>1, <1>2

LEMMA HandlerTokenStays ==
  ASSUME IInv, NEW i \in Handlers, HandlerToken(i), pc'[i] = pc[i], ctx'[i] = ctx[i],
         Busy(i) => secrets'[KeyFor(i)] = secrets[KeyFor(i)]
  PROVE  HandlerToken(i)'
BY DEF HandlerToken, KeyFor, Busy, Applying

LEMMA TokenNext ==
  ASSUME TokenInv, NoOverlap, ~Faults, [Next]_vars
  PROVE  TokenInv'
<1> USE DEF TokenInv
<1>1. SyncInv'
  BY SyncNext
<1>2. IInv /\ TypeOK
  BY DEF SyncInv, VersionInv, IInv
<1>3. ASSUME NEW i \in Handlers, Busy(i) PROVE KeyFor(i) \in Keys
  BY <1>2, <1>3, KeysAssumption DEF IInv, HandlerOK, HasSpec, SpecId, Busy, KeyFor
<1>4. SUFFICES /\ \A i \in Handlers : HandlerToken(i)'
               /\ \A k \in Keys : SecretCurrent(k)'
  BY <1>1
<1>5. ASSUME NEW h \in Handlers, Request(h)
      PROVE  /\ \A i \in Handlers : HandlerToken(i)'
             /\ \A k \in Keys : SecretCurrent(k)'
  <2>1. UNCHANGED <<resources, secrets, outdated, acked>>
    BY <1>5, RequestOnlyReads
  <2>2. \A i \in Handlers \ {h} : HandlerToken(i)'
    BY <1>2, <1>5, <2>1, OnlyOneMoves, HandlerTokenStays
  <2>3. HandlerToken(h)'
    <3>1. pc'[h] \notin Applying
      BY <1>2, <1>5 DEF Request, PostResource, PutResource, TaskStatus, Rerun, StatusCheck,
                        TokenPatch, Exchange, Begin, Goto, TypeOK, Applying
    <3>2. QED
      BY <3>1 DEF HandlerToken
  <2>4. ASSUME NEW k \in Keys PROVE SecretCurrent(k)'
    <3>1. RowsCalm(k) /\ AckedKept(k)
      BY <2>1 DEF RowsCalm, IsLive, AckedKept
    <3>2. QED
      BY <2>1, <3>1, CalmKeepsAcked, SecretStaysCurrent DEF SecretKept
  <2>5. QED
    BY <2>2, <2>3, <2>4
<1>6. ASSUME NEW h \in Handlers, Step(h)
      PROVE  /\ \A i \in Handlers : HandlerToken(i)'
             /\ \A k \in Keys : SecretCurrent(k)'
  <2>1. ASSUME NEW i \in Handlers \ {h} PROVE HandlerToken(i)'
    <3>1. Busy(i) => KeyFor(i) # KeyFor(h)
      BY <1>6, StepIsBusy DEF NoOverlap
    <3>2. Busy(i) => secrets'[KeyFor(i)] = secrets[KeyFor(i)]
      BY <1>3, <1>6, <3>1, StepSecrets DEF SecretKept
    <3>3. QED
      BY <1>2, <1>6, <3>2, OnlyOneMoves, HandlerTokenStays
  <2>2. QED
    BY <1>6, <2>1, OwnHandlerToken, StepSecretCurrent
<1>7. CASE (\E k \in Keys : ControllerReports(k)) \/ Waiting \/ UNCHANGED vars
  <2>1. UNCHANGED <<resources, secrets, outdated, acked, pc, ctx>>
    BY <1>7 DEF ControllerReports, Waiting, vars, db
  <2>2. \A i \in Handlers : HandlerToken(i)'
    BY <1>2, <2>1, HandlerTokenStays
  <2>3. ASSUME NEW k \in Keys PROVE SecretCurrent(k)'
    <3>1. RowsCalm(k) /\ AckedKept(k)
      BY <2>1 DEF RowsCalm, IsLive, AckedKept
    <3>2. QED
      BY <2>1, <3>1, CalmKeepsAcked, SecretStaysCurrent DEF SecretKept
  <2>4. QED
    BY <2>2, <2>3
<1>8. QED
  BY <1>5, <1>6, <1>7 DEF Next, Fail

\* ... and the secret that its tasks mount holds a token of that same resource
\* and generation, for as long as no task of another generation exchanges its
\* token and nobody patches the token of a soft-deleted resource.
THEOREM AckedAlwaysHasToken == ~Faults /\ Spec /\ []NoOverlap => []AckedHasItsToken
<1>1. TokenInv => AckedHasItsToken
  <2> SUFFICES ASSUME TokenInv, NEW u \in Uuids, IsLive(u), CurrentSpec(u) \in acked
               PROVE  secrets[KeyOf[u]] = CurrentSpec(u) \/ KeyOf[u] \in outdated
    BY DEF AckedHasItsToken, CurrentSpec
  <2>1. KeyOf[u] \in Keys /\ u \in LiveOf(KeyOf[u])
    BY KeysAssumption DEF LiveOf
  <2>2. QED
    BY <2>1 DEF TokenInv, SecretCurrent
<1>2. Init => TokenInv
  BY InitSync DEF Init, TokenInv, HandlerToken, SecretCurrent, LiveOf, IsLive, Applying
<1>3. SUFFICES ASSUME ~Faults PROVE Spec /\ []NoOverlap => []AckedHasItsToken
  OBVIOUS
<1>4. TokenInv /\ NoOverlap /\ [Next]_vars => TokenInv'
  BY <1>3, TokenNext
<1>5. QED
  BY <1>1, <1>2, <1>4, PTL DEF Spec
=============================================================================
