---------------------------- MODULE ResourceSync ----------------------------
(***************************************************************************)
(* How the API keeps three stores in step: the infra3_resources and        *)
(* infra3_resource_specs tables, the "-jwt" task secret and the Tf object  *)
(* of the vcluster.  Every request runs in a goroutine of its own; no      *)
(* transaction and no lock spans two statements, so one action is one      *)
(* database statement or one Kubernetes call, and the locals a handler     *)
(* carries from one to the next (ctx) may be stale when they are used.     *)
(*                                                                         *)
(* A request that is refused by its first read changes nothing: its guard  *)
(* is a conjunct of the action that starts the request.                    *)
(***************************************************************************)
EXTENDS Naturals, FiniteSets

CONSTANTS
  Uuids,         \* metadata.uid of the origin resources
  Keys,          \* cluster/namespace/name
  KeyOf,         \* the key under which a uid was created
  Generations,   \* metadata.generation at the origin
  Handlers,      \* request goroutines
  Endpoints,     \* the endpoints a run exercises
  MaxRequests,   \* bound on the number of requests
  Faults,        \* may a statement or call fail, a handler panic, the process die?
  Null           \* no row, no object, no recorded run

SpecId == [uuid : Uuids, gen : Generations]

\* current_state is kept as its provenance: the run the text describes, or
\* Null for "untracked" and for the empty state of a Tf that never ran.
Row == [gen : Generations, state : SpecId \cup {Null}, created : Nat, deleted : BOOLEAN]

\* uuid and gen are the I3_ORIGIN_UUID and I3_ORIGIN_GENERATION of the object's
\* task options; rv is its resourceVersion.
Tf == [uuid : Uuids, gen : Generations, status : SpecId \cup {Null}, rv : Nat]

Kinds ==
  {"add", "update", "taskStatus", "statusCheck", "rerun", "tokenPatch", "exchange"}

Labels == {"idle", "add_create", "update_save", "sweep_find", "sweep_save",
           "sweep_delete", "spec_find", "spec_create", "token", "tf_list",
           "tf_write", "rerun_update", "status_find", "status_save"}

ASSUME KeysAssumption == KeyOf \in [Uuids -> Keys]
ASSUME GenerationsAssumption == Generations \subseteq Nat \ {0}
ASSUME EndpointsAssumption == Endpoints \subseteq Kinds
ASSUME BoundsAssumption == MaxRequests \in Nat /\ Faults \in BOOLEAN
ASSUME NullAssumption == Null \notin Row /\ Null \notin Tf /\ Null \notin SpecId

VARIABLES
  resources,  \* infra3_resources: uuid -> row
  specs,      \* infra3_resource_specs: uuid -> generation -> number of rows
  tfs,        \* Tf objects of the vclusters, by key
  secrets,    \* claims of the token in the "-jwt" secret, by key
  issued,     \* claims of every task token ever signed (valid for 30 days)
  outdated,   \* keys whose secret was last written for a resource or generation
              \* that was not the current one, by an exchange or a token patch
  clock,      \* last created_at stamp
  accepted,   \* requests started so far
  acked,      \* resources and generations whose POST or PUT was answered 204
  pc, ctx     \* where each handler stands, and its locals

db == <<resources, specs>>
vcluster == <<tfs, secrets, issued, outdated>>
vars ==
  <<resources, specs, tfs, secrets, issued, outdated, clock, accepted, acked, pc, ctx>>

NoCopies == [u \in Uuids |-> Null]

\* The locals of a handler: the endpoint, the resource and generation it works
\* for, the row it read, the rows its sweep read, and the Tf object it read.
IdleCtx == [kind |-> Null, spec |-> Null, row |-> Null, olds |-> NoCopies, seen |-> Null]

Ctx == [kind : Kinds \cup {Null}, spec : SpecId \cup {Null}, row : Row \cup {Null},
        olds : [Uuids -> Row \cup {Null}], seen : Tf \cup {Null}]

TypeOK ==
  /\ resources \in [Uuids -> Row \cup {Null}]
  /\ specs \in [Uuids -> [Generations -> Nat]]
  /\ tfs \in [Keys -> Tf \cup {Null}]
  /\ secrets \in [Keys -> SpecId \cup {Null}]
  /\ issued \subseteq SpecId
  /\ outdated \subseteq Keys
  /\ clock \in Nat
  /\ accepted \in Nat
  /\ acked \subseteq SpecId
  /\ pc \in [Handlers -> Labels]
  /\ ctx \in [Handlers -> Ctx]

Init ==
  /\ resources = [u \in Uuids |-> Null]
  /\ specs = [u \in Uuids |-> [g \in Generations |-> 0]]
  /\ tfs = [k \in Keys |-> Null]
  /\ secrets = [k \in Keys |-> Null]
  /\ issued = {}
  /\ outdated = {}
  /\ clock = 0
  /\ accepted = 0
  /\ acked = {}
  /\ pc = [h \in Handlers |-> "idle"]
  /\ ctx = [h \in Handlers |-> IdleCtx]

-----------------------------------------------------------------------------
(***************************************************************************)
(* gorm and the handlers' plumbing.                                        *)
(***************************************************************************)

\* A row a soft-delete scoped query returns (First, Find; not Raw).
IsLive(u) == resources[u] # Null /\ ~resources[u].deleted

LiveOf(k) == {u \in Uuids : KeyOf[u] = k /\ IsLive(u)}

\* db.Save(row): UPDATE of every column where the row is not soft-deleted and,
\* when that touches nothing, INSERT ... ON CONFLICT UPDATE of every column.
\* Both leave the row equal to the copy, deleted_at included.
Saved(u, row) == [resources EXCEPT ![u] = row]

KeyFor(h) == KeyOf[ctx[h].spec.uuid]

Goto(h, from, to) == pc[h] = from /\ pc' = [pc EXCEPT ![h] = to]

\* The request is answered; its locals are gone.
Return(h, from) == Goto(h, from, "idle") /\ ctx' = [ctx EXCEPT ![h] = IdleCtx]

\* A new request passes its first read and carries the locals c on.
Begin(h, kind, to, c) ==
  /\ kind \in Endpoints
  /\ accepted < MaxRequests
  /\ accepted' = accepted + 1
  /\ Goto(h, "idle", to)
  /\ ctx' = [ctx EXCEPT ![h] = c]

-----------------------------------------------------------------------------
(***************************************************************************)
(* POST and PUT of a resource.                                             *)
(***************************************************************************)

\* addResource up to First: an existing (live) uuid is answered "already
\* exists" and nothing is done.  The created_at stamp is taken by this process
\* before the INSERT reaches the database; stamps are distinct.
PostResource(h, s) ==
  /\ ~IsLive(s.uuid)
  /\ clock' = clock + 1
  /\ Begin(h, "add", "add_create",
           [IdleCtx EXCEPT !.kind = "add", !.spec = s,
              !.row = [gen |-> s.gen, state |-> Null, created |-> clock', deleted |-> FALSE]])
  /\ UNCHANGED <<db, vcluster, acked>>

\* The INSERT: a soft-deleted row still holds the primary key.
AddCreateUpserts(h) ==
  /\ Goto(h, "add_create", "sweep_find")
  /\ resources' = Saved(ctx[h].spec.uuid, ctx[h].row)
  /\ UNCHANGED <<specs, vcluster, clock, accepted, acked, ctx>>
AddCreate(h) ==
  /\ pc[h] = "add_create"
  /\ LET u == ctx[h].spec.uuid IN
       \/ /\ resources[u] = Null
          /\ resources' = Saved(u, ctx[h].row)
          /\ Goto(h, "add_create", "sweep_find")
          /\ UNCHANGED ctx
       \/ /\ resources[u] # Null
          /\ Return(h, "add_create")
          /\ UNCHANGED resources
  /\ UNCHANGED <<specs, vcluster, clock, accepted, acked>>

\* A PUT older than the row is refused; a newer one also resets the state.
UpdatedRow(row, gen) ==
  IF gen > row.gen THEN [row EXCEPT !.gen = gen, !.state = Null] ELSE row

PutAcceptedAlways(row, gen) == TRUE
PutAccepted(row, gen) == gen >= row.gen

\* updateResource up to the generation check.
PutResource(h, s) ==
  /\ IsLive(s.uuid)
  /\ PutAccepted(resources[s.uuid], s.gen)
  /\ Begin(h, "update", "update_save",
           [IdleCtx EXCEPT !.kind = "update", !.spec = s,
                           !.row = UpdatedRow(resources[s.uuid], s.gen)])
  /\ UNCHANGED <<db, vcluster, clock, acked>>

UpdateSaveWithoutSweep(h) ==
  /\ Goto(h, "update_save", "spec_find")
  /\ resources' = Saved(ctx[h].spec.uuid, ctx[h].row)
  /\ UNCHANGED <<specs, vcluster, clock, accepted, acked, ctx>>
UpdateSave(h) ==
  /\ Goto(h, "update_save", "sweep_find")
  /\ resources' = Saved(ctx[h].spec.uuid, ctx[h].row)
  /\ UNCHANGED <<specs, vcluster, clock, accepted, acked, ctx>>

-----------------------------------------------------------------------------
(***************************************************************************)
(* deleteInfra3ResourcesExceptNewest: Find, Save and Delete.               *)
(***************************************************************************)

AfterSweep(h) == IF ctx[h].kind = "add" THEN "spec_create" ELSE "spec_find"

\* ORDER BY created_at DESC OFFSET 1 over the live rows of the key.
SupersededAscending(k) ==
  {u \in LiveOf(k) : \E v \in LiveOf(k) : resources[v].created < resources[u].created}
Superseded(k) ==
  {u \in LiveOf(k) : \E v \in LiveOf(k) : resources[v].created > resources[u].created}

SweepFind(h) ==
  LET olds == Superseded(KeyFor(h)) IN
  /\ Goto(h, "sweep_find", IF olds = {} THEN AfterSweep(h) ELSE "sweep_save")
  /\ ctx' = [ctx EXCEPT ![h].olds =
               [u \in Uuids |-> IF u \in olds THEN resources[u] ELSE Null]]
  /\ UNCHANGED <<db, vcluster, clock, accepted, acked>>

\* The error of that Find is dropped and the sweep silently skipped.
SweepFindFails(h) ==
  /\ Faults
  /\ Goto(h, "sweep_find", AfterSweep(h))
  /\ UNCHANGED <<db, vcluster, clock, accepted, acked, ctx>>

\* deleted_by is set on the copies and the whole slice is upserted.
SweepSave(h) ==
  /\ Goto(h, "sweep_save", "sweep_delete")
  /\ resources' = [u \in Uuids |->
                     IF ctx[h].olds[u] # Null THEN ctx[h].olds[u] ELSE resources[u]]
  /\ UNCHANGED <<specs, vcluster, clock, accepted, acked, ctx>>

SweepDelete(h) ==
  /\ Goto(h, "sweep_delete", AfterSweep(h))
  /\ resources' = [u \in Uuids |->
                     IF ctx[h].olds[u] # Null THEN [resources[u] EXCEPT !.deleted = TRUE]
                                              ELSE resources[u]]
  /\ UNCHANGED <<specs, vcluster, clock, accepted, acked, ctx>>

-----------------------------------------------------------------------------
(***************************************************************************)
(* The spec row, the task token and the Tf object.                         *)
(***************************************************************************)

\* updateResource creates the spec row of the generation only if none is found.
SpecFindAnyGeneration(h) ==
  /\ Goto(h, "spec_find",
          IF \A g \in Generations : specs[ctx[h].spec.uuid][g] = 0
          THEN "spec_create" ELSE "token")
  /\ UNCHANGED <<db, vcluster, clock, accepted, acked, ctx>>
SpecFind(h) ==
  /\ Goto(h, "spec_find",
          IF specs[ctx[h].spec.uuid][ctx[h].row.gen] = 0 THEN "spec_create" ELSE "token")
  /\ UNCHANGED <<db, vcluster, clock, accepted, acked, ctx>>

SpecCreate(h) ==
  /\ Goto(h, "spec_create", "token")
  /\ specs' = [specs EXCEPT ![ctx[h].spec.uuid][ctx[h].spec.gen] = @ + 1]
  /\ UNCHANGED <<resources, vcluster, clock, accepted, acked, ctx>>

\* The secret is created or, when it exists already, patched.
CreatedSecret(k, s) == IF secrets[k] = Null THEN [secrets EXCEPT ![k] = s] ELSE secrets
PatchedSecret(k, s) == [secrets EXCEPT ![k] = s]

\* A live resource at its current generation.
IsCurrent(s) == IsLive(s.uuid) /\ resources[s.uuid].gen = s.gen

\* NewTaskToken: sign a token for the spec and put it in the secret of the key.
\* The refresh_tokens bookkeeping that follows is not part of this module.
IssueToken(h) ==
  /\ pc[h] = "token"
  /\ secrets' = PatchedSecret(KeyFor(h), ctx[h].spec)
  /\ issued' = issued \cup {ctx[h].spec}
  /\ IF ctx[h].kind \in {"tokenPatch", "exchange"}
     THEN /\ outdated' = IF IsCurrent(ctx[h].spec) THEN outdated \ {KeyFor(h)}
                         ELSE outdated \cup {KeyFor(h)}
          /\ Return(h, "token")
     ELSE /\ outdated' = outdated \ {KeyFor(h)}
          /\ Goto(h, "token", "tf_list")
          /\ UNCHANGED ctx
  /\ UNCHANGED <<db, tfs, clock, accepted, acked>>

\* applyOnCreateOrUpdate reads the object it may have to update.
ListTfs(h) ==
  /\ Goto(h, "tf_list", "tf_write")
  /\ ctx' = [ctx EXCEPT ![h].seen = tfs[KeyFor(h)]]
  /\ UNCHANGED <<db, vcluster, clock, accepted, acked>>

\* What the Kubernetes API server accepts: Create of an absent object, Update
\* of the version that was read.
AnyWriteAccepted(seen, current) == (seen = Null) = (current = Null)
WriteAccepted(seen, current) ==
  IF seen = Null THEN current = Null ELSE current # Null /\ current.rv = seen.rv

\* The object to write: the request's spec with the status that was read.
Applied(seen, s) ==
  IF seen = Null THEN [uuid |-> s.uuid, gen |-> s.gen, status |-> Null, rv |-> 1]
  ELSE [uuid |-> s.uuid, gen |-> s.gen, status |-> seen.status, rv |-> seen.rv + 1]

\* doCreate or doPatch; a conflict is an error and is not retried.
WriteTf(h) ==
  /\ Return(h, "tf_write")
  /\ IF WriteAccepted(ctx[h].seen, tfs[KeyFor(h)])
     THEN /\ tfs' = [tfs EXCEPT ![KeyFor(h)] = Applied(ctx[h].seen, ctx[h].spec)]
          /\ acked' = acked \cup {ctx[h].spec}
     ELSE UNCHANGED <<tfs, acked>>
  /\ UNCHANGED <<db, secrets, issued, outdated, clock, accepted>>

-----------------------------------------------------------------------------
(***************************************************************************)
(* The endpoints that touch one store: rerun, status, token patch and      *)
(* token exchange.                                                         *)
(***************************************************************************)

SpecOf(tf) == [uuid |-> tf.uuid, gen |-> tf.gen]

\* rerun: Get, then Update of the same object with a new change-cause label.
Rerun(h, k) ==
  /\ tfs[k] # Null
  /\ Begin(h, "rerun", "rerun_update",
           [IdleCtx EXCEPT !.kind = "rerun", !.spec = SpecOf(tfs[k]), !.seen = tfs[k]])
  /\ UNCHANGED <<db, vcluster, clock, acked>>

RerunUpdate(h) ==
  /\ Return(h, "rerun_update")
  /\ tfs' = IF WriteAccepted(ctx[h].seen, tfs[KeyFor(h)])
            THEN [tfs EXCEPT ![KeyFor(h)] = [ctx[h].seen EXCEPT !.rv = @ + 1]]
            ELSE tfs
  /\ UNCHANGED <<db, secrets, issued, outdated, clock, accepted, acked>>

\* UpdateResourceStatusViaTask: a pod that holds a token of generation s reports
\* on its own run.
TaskStatusStoresUuid(h, s) ==
  /\ IsLive(s.uuid)
  /\ Begin(h, "taskStatus", "status_save",
           [IdleCtx EXCEPT !.kind = "taskStatus", !.spec = s,
                           !.row = [resources[s.uuid] EXCEPT !.state = s.uuid]])
  /\ UNCHANGED <<db, vcluster, clock, acked>>
TaskStatus(h, s) ==
  /\ IsLive(s.uuid)
  /\ Begin(h, "taskStatus", "status_save",
           [IdleCtx EXCEPT !.kind = "taskStatus", !.spec = s,
                           !.row = [resources[s.uuid] EXCEPT !.state = s]])
  /\ UNCHANGED <<db, vcluster, clock, acked>>

\* statusCheckAndUpdate: read the Tf, then the row its task options name, then
\* save the Tf's state into it.  The task's variant of the endpoint first looks
\* its resource up to find the key.
StatusCheck(h, k) ==
  /\ tfs[k] # Null
  /\ Begin(h, "statusCheck", "status_find",
           [IdleCtx EXCEPT !.kind = "statusCheck", !.spec = SpecOf(tfs[k]), !.seen = tfs[k]])
  /\ UNCHANGED <<db, vcluster, clock, acked>>

StatusFind(h) ==
  /\ pc[h] = "status_find"
  /\ LET u == ctx[h].spec.uuid IN
       \/ /\ IsLive(u)
          /\ Goto(h, "status_find", "status_save")
          /\ ctx' = [ctx EXCEPT ![h].row = [resources[u] EXCEPT !.state = ctx[h].seen.status]]
       \/ /\ ~IsLive(u)
          /\ Return(h, "status_find")
  /\ UNCHANGED <<db, vcluster, clock, accepted, acked>>

StatusSave(h) ==
  /\ Return(h, "status_save")
  /\ resources' = Saved(ctx[h].spec.uuid, ctx[h].row)
  /\ UNCHANGED <<specs, vcluster, clock, accepted, acked>>

\* manualTokenPatch: raw SQL by name, which soft-deleted rows match as well; the
\* first of several rows comes in no defined order.
TokenPatch(h, u) ==
  /\ resources[u] # Null
  /\ specs[u][resources[u].gen] > 0
  /\ Begin(h, "tokenPatch", "token",
           [IdleCtx EXCEPT !.kind = "tokenPatch",
                           !.spec = [uuid |-> u, gen |-> resources[u].gen]])
  /\ UNCHANGED <<db, vcluster, clock, acked>>

\* NewTaskTokenFromRefreshToken: a pod exchanges the refresh token that it was
\* started with.  The query joins rows that are soft-deleted as well, and the new
\* token is of the old one's generation.  Which tokens it accepts is TaskTokens.
Exchange(h, s) ==
  /\ resources[s.uuid] # Null
  /\ specs[s.uuid][s.gen] > 0
  /\ Begin(h, "exchange", "token", [IdleCtx EXCEPT !.kind = "exchange", !.spec = s])
  /\ UNCHANGED <<db, vcluster, clock, acked>>

-----------------------------------------------------------------------------
\* Any statement or call of a handler fails, or it panics: the request ends
\* where it stands and nothing it did is undone.  A crash of the process is
\* this for every handler.
Fail(h) ==
  /\ Faults
  /\ pc[h] # "idle"
  /\ Return(h, pc[h])
  /\ UNCHANGED <<db, vcluster, clock, accepted, acked>>

\* The controller in the vcluster runs the object it sees and writes its status.
ControllerReports(k) ==
  /\ tfs[k] # Null
  /\ tfs[k].status # SpecOf(tfs[k])
  /\ tfs' = [tfs EXCEPT ![k].status = SpecOf(tfs[k]), ![k].rv = @ + 1]
  /\ UNCHANGED <<db, secrets, issued, outdated, clock, accepted, acked, pc, ctx>>

Request(h) ==
  \/ \E s \in SpecId : PostResource(h, s) \/ PutResource(h, s)
  \/ \E s \in issued : TaskStatus(h, s) \/ Exchange(h, s)
  \/ \E k \in Keys : Rerun(h, k) \/ StatusCheck(h, k)
  \/ \E u \in Uuids : TokenPatch(h, u)

Step(h) ==
  \/ AddCreate(h) \/ UpdateSave(h)
  \/ SweepFind(h) \/ SweepFindFails(h) \/ SweepSave(h) \/ SweepDelete(h)
  \/ SpecFind(h) \/ SpecCreate(h) \/ IssueToken(h) \/ ListTfs(h) \/ WriteTf(h)
  \/ RerunUpdate(h) \/ StatusFind(h) \/ StatusSave(h)

AllIdle == \A h \in Handlers : pc[h] = "idle"

\* The bound on requests is used up and the server waits.
Waiting == AllIdle /\ accepted = MaxRequests /\ UNCHANGED vars

Next ==
  \/ \E h \in Handlers : Request(h) \/ Step(h) \/ Fail(h)
  \/ \E k \in Keys : ControllerReports(k)
  \/ Waiting

Spec == Init /\ [][Next]_vars

-----------------------------------------------------------------------------
(***************************************************************************)
(* Properties.                                                             *)
(***************************************************************************)

\* The newest resource ever created under a cluster/namespace/name is never the
\* one that is soft-deleted: whatever stale copies the sweeps of concurrent
\* requests save and delete, they supersede only older rows.
NewestIsLive ==
  \A u \in Uuids :
    /\ resources[u] # Null
    /\ \A v \in Uuids : resources[v] # Null /\ KeyOf[v] = KeyOf[u]
                          => resources[v].created <= resources[u].created
    => ~resources[u].deleted

\* What runs in a vcluster is on record: a Tf object names a stored resource of
\* its own key and a generation with a spec row, and its task secret exists and
\* holds a token of a recorded generation too, even when requests fail half way.
AppliedIsRecorded ==
  \A k \in Keys :
    /\ tfs[k] # Null =>
         /\ KeyOf[tfs[k].uuid] = k
         /\ resources[tfs[k].uuid] # Null
         /\ specs[tfs[k].uuid][tfs[k].gen] > 0
         /\ secrets[k] # Null
    /\ secrets[k] # Null =>
         /\ KeyOf[secrets[k].uuid] = k
         /\ specs[secrets[k].uuid][secrets[k].gen] > 0

\* No write of a Tf object undoes another: a step replaces the spec or the
\* status, never both.  An update that carries back what it read would roll
\* back the controller's status or another request's spec.
TfWritesDoNotClobber ==
  [][\A k \in Keys : tfs[k] # Null /\ tfs'[k] # Null =>
       \/ tfs'[k].status = tfs[k].status
       \/ SpecOf(tfs'[k]) = SpecOf(tfs[k])]_vars

\* Once no request is running and nothing failed, the generation a stored
\* resource names has its spec row, although stale saves may have moved it.
CurrentSpecExists ==
  AllIdle => \A u \in Uuids : resources[u] # Null => specs[u][resources[u].gen] > 0

\* Once no request is running, at most one resource per key is live: the sweeps
\* of concurrent POSTs and PUTs between them delete every superseded row.
SoleLive ==
  AllIdle => \A u, v \in Uuids :
               IsLive(u) /\ IsLive(v) /\ KeyOf[u] = KeyOf[v] => u = v

\* The stored generation never decreases as long as requests do not overlap: a PUT
\* of an older one is refused, and no save carries an older row back.
GenerationNeverRegresses ==
  [][\A u \in Uuids : resources[u] # Null => resources'[u].gen >= resources[u].gen]_vars

\* With requests one after the other, a live resource whose current generation
\* was answered 204 is what the vcluster runs: database and vcluster agree.
AckedIsApplied ==
  AllIdle => \A u \in Uuids :
    LET s == [uuid |-> u, gen |-> resources[u].gen] IN
      IsLive(u) /\ s \in acked => tfs[KeyOf[u]] # Null /\ SpecOf(tfs[KeyOf[u]]) = s

\* ... and the secret its tasks mount holds a token of that same resource and
\* generation, until a task of another one exchanges its token or a soft-deleted
\* resource of the key is patched.
AckedHasItsToken ==
  AllIdle => \A u \in Uuids :
    LET s == [uuid |-> u, gen |-> resources[u].gen] IN
      IsLive(u) /\ s \in acked => secrets[KeyOf[u]] = s \/ KeyOf[u] \in outdated

\* Goroutines are scheduled and every call returns: a handler keeps going.
FairSpec == Spec /\ \A h \in Handlers : WF_vars(Step(h))

\* A resource that a newer one of its key has superseded is soft-deleted in the
\* end, even if a stale save brings it back in between.
SupersededIsDeleted ==
  \A u \in Uuids :
    (IsLive(u) /\ \E v \in LiveOf(KeyOf[u]) : resources[u].created < resources[v].created)
      ~> ~IsLive(u)
=============================================================================
