# A verification project for the infrakube-stella API

The API server keeps, for many origin clusters, a record of every Terraform
resource (`Tf`) in Postgres, applies it to a virtual cluster per origin cluster,
hands the task pods there tokens, and collects their logs and states. It is one
process (`k8s/deployment.yaml`: one replica, strategy Recreate) in which gin runs
every request in a goroutine of its own. **No handler opens a database
transaction, takes a lock, or uses a unique index beyond primary keys**, so what
can go wrong is what happens between two statements: other requests, a failure,
the end of the process. The repository has no tests.

## Parts of the system

| Part | State it keeps | Operations | What is hard | Modelled in |
|---|---|---|---|---|
| Resource synchronisation (`resource.go`) | `infra3_resources`, `infra3_resource_specs`; the `Tf` objects and "-jwt" secrets of the vclusters | POST/PUT event, sweep of superseded rows, rerun, the two status endpoints, manual token patch, token exchange | four stores written one after the other from rows read earlier; soft deletes; gorm's `Save` | `ResourceSync` |
| Task tokens (`resource.go`, `auth.go`) | `refresh_tokens`, the "-jwt" secret | issue, exchange, manual patch | versions per spec compared per resource, cancellation, partial failure, overlap | `TaskTokens` |
| Task pods and logs (`log.go`) | `task_pods`, `infra3_task_logs` | `AddTaskPod`, `saveTaskLog` | read, then save the whole row; FirstOrCreate; overlapping and repeated posts; restarts | `TaskLogs` |
| Log stream (`resource.go`, `get_record.go`) | cache entry per resource, one goroutine per websocket | `preLogs`, `websocketLogs`, `Cache.Set` in `AddTaskPod`; `ResourceLogWatcher` | Get, Delete and a query per pod, one after the other; expiry; several viewers; an id read before the logs | `LogStream` |
| Approvals and rerun selection (`get_record.go`, `resource.go`, `metrics.go`) | `approvals` | two ways to decide, three to read; which pods of a resource are shown | no unique index; which plan a decision is for; posts of several runs in any order | `Approvals`, `DecisionRegister` |
| Unlock and debug sessions (`get_record.go`) | pods in the vcluster, `os.Stdin`, goroutines and their channels | `Debugger` with `RemoteDebug`, `UnlockTerraform` with `getPodStatus` | who ends first, time to live, a watch that has missed its event, crashes | `DebugSession` |
| vcluster boot, dependency sync (`resource.go`) | `clusters`, namespaces, applied manifests | `AddCluster`, `SyncEvent`, `getClusterID` | FirstOrCreate by name, unbounded repetition, namespaces that terminate | `VclusterBoot` |
| Authentication, read-only listings, start-up, deployment | none of their own | login, SAML, JWT; queries; flags, migrations | formatting, library code, I/O | not modelled |

They meet in four places: the rows of a resource (a POST or PUT, a task's status
report and the user's status check all read and save the same row), the "-jwt"
secret (written by POST, PUT, the manual patch and the exchange), the log rows
with their cache entry (written by pods, read by viewers), and the task pods
(written by `AddTaskPod`, read by everything that approves or shows). Every
request for a vcluster also needs the cluster's id and the vcluster's kubeconfig,
which `VclusterBoot` is about; the other models take them for granted.

## How the models correspond to the code

**Granularity.** One action is one database statement or one Kubernetes call.
Between two of them a handler only has its locals, kept in `ctx[h]`; `pc[h]` says
which statement is next. `Handlers` is the set of goroutines. A request refused
by its first read changes nothing, so that refusal is a guard of the action that
starts the request. `Fail(h)` ends a request anywhere, with nothing undone: a
statement or call that fails, a panic recovered by gin, and, for all handlers, a
crash of the process (nothing is resumed after a restart).

A `Create` is two steps where the order of ids matters. `db.go:12` leaves gorm's
`SkipDefaultTransaction` off, so that each `Create` runs in a transaction of its
own: the id is drawn by the INSERT, others read the row after the COMMIT, and of
two overlapping ones the higher id may be visible first. `Approvals`,
`VclusterBoot` and `TaskLogs`, whose readers look for the lowest or the highest
id, therefore have an action for the INSERT, one for the COMMIT
(`Commit`, `ClusterCommit`, `LogCommit`) and the set `committed` of the ids that can
be read; a request that fails between the two leaves no row. Nothing reads the
ids of resources, specs, pods and refresh tokens (their readers go by uid,
`created_at` or version), so their `Create` is one step, at its COMMIT.

**gorm** is modelled as its callers rely on it: `First` and `Find` skip
soft-deleted rows, raw queries do not; `Save(row)` writes every column of the
copy, `deleted_at` included, and inserts with `ON CONFLICT UPDATE` when the scoped
UPDATE touched nothing (`Saved`); `FirstOrCreate` is a `Find` and a `Create`. The
Kubernetes API accepts an update only with the `resourceVersion` that was read
(`WriteAccepted`). These are marked external in the map.

### ResourceSync

`resources[u]` is a row with its generation, its state, its `created_at` stamp
and whether it is soft-deleted; `specs` counts spec rows per generation (nothing
prevents two); `tfs` and `secrets` are the vcluster's objects per
cluster/namespace/name; `issued` holds what the tasks of old and new generations
can present; `acked` what was answered 204. The state text is kept as its
provenance: the run it describes. `PostResource`, `AddCreate`, `PutResource`,
`UpdateSave`, `SweepFind`, `SweepSave`, `SweepDelete`, `SpecFind`, `SpecCreate`,
`IssueToken`, `ListTfs`, `WriteTf` are the statements of the event endpoint in the
order of the code; `Rerun`/`RerunUpdate`, `TaskStatus`, `StatusCheck`/`StatusFind`,
`StatusSave`, `TokenPatch` and `Exchange` the other endpoints; the last two go on
with `IssueToken`. An exchange is one of any token ever issued, so that a task of
an earlier generation, or of a soft-deleted resource, puts a token of its own kind
into the secret; which refresh tokens the endpoint accepts is left to `TaskTokens`.
`outdated` is history: the keys whose secret was last written for a resource or
generation that was not the current one. `ControllerReports` is the
controller that runs the object. `SweepFindFails` is the dropped error of the
sweep's query. DELETE is not an action: the handler only logs it.

### TaskTokens

One resource and its generations (spec rows). `rows` is `refresh_tokens` in the
order of their commits (no query looks at ids), `secret` the vcluster's secret, `held` every refresh token a pod may
have taken from it, `used` the tokens whose exchange succeeded. A refresh token's
claims are the resource uuid and an expiry in seconds, so two tokens signed in
one second are the same string (`SameSecond`). `Matches` is the query of the
exchange: not cancelled, and of the highest version **over all specs of the
uuid**, while `LastVersion` is the highest version **of the request's spec**.
`ReadVersionFails` is the query whose error is assigned to `_`.
In `ResourceSync` the whole of `NewTaskToken` is the one action `IssueToken`, as
only the secret matters there.

### TaskLogs and LogStream

A log is a sequence of chunks, each with the container run it comes from and its
position there; a post carries the whole log of a run so far. Sizes are lengths.
`Limit` is the `varchar(1048576)` of the column. `LogStream` extends `TaskLogs`
with the cache entry and the viewers: `PreLogs`, `Open` (the upgrade), `Poll`,
`DeleteEntry`, `QueryPods`, `ReadLog`, `Send`, `Close`, and `Expires` for the 20
seconds of the entry. `logs()` is a query for the pods (`FindsPods`: if it fails,
nothing is read although the entry is gone) and then one query for each of them
(`ReadLog`: if it fails, that log is left out); `unread[w]` are the pods still to be
read. Which pods of a resource it picks, by rerun and generation, is `Shown` of
`Approvals`: the pods of a `LogStream` are those that are picked.
`LastID`, `WatchedPods`, `WatchedLogs`, `RememberID` and `StopWatching` are the loop of
`ResourceLogWatcher`, whose `lastTaskLogID` is `watcher[w].last`; a log row's id is
its place in `logs`, and `LastRow` the highest that can be read. Several log rows of one pod are read in no defined order
(`Messages`).

### Approvals and DecisionRegister

One resource and one of its generations. `taskPods` has the columns the queries
use: task type (a number, its place in `taskTypesInOrder`), rerun, and the
in-cluster generation; runs are ordered, posts of their pods are not
(`AddTaskPod`). `Level[k]` is the running minimum of the loops over
`taskTypesInOrder`, `Shown(k)` the pods that `logs()` and `ResourceLogs` may pick of
type k, `OverviewShows(k)` those of `getWorkflowInfo` and
`getHighestRerunOfTasksGeneratedForResource`, whose index starts at 0. `Required`
is `requiredApprovalPodUUID`; `TextRank` orders numbers as the text column
`in_cluster_generation` does. `UpdateApproval` and `SetApproval` end with the
INSERT that the foreign key checks (`Create`) and its `Commit`; `Poll` is the
question of the task. `Decision` is the committed row of lowest id, which `First`
returns.

`DecisionRegister` is what an approval promises: a pod on record is decided, the
decision is final unless it is contested, and the task is told the decision.
`Register` is the refinement mapping: the recorded uids, `Decision(p)` of each pod,
and as contested the pods of which a request in flight has inserted a row that
will be the first of the pod (`Contested`).

### DebugSession

`session[s]` holds the client, the handler of `Debugger` (its `select`) and the two
goroutines: `webtty` is `webTTY.Run` and its send, `remote` is `RemoteDebug` call by
call and its send. A send is one step with its receive, so that a goroutine
nobody receives from stays at `"send"`, as it does in the process. `stdin` is the
global `os.Stdin` of line 925; `attached` is the terminal that `SetupTTY` takes from
it. `unlock[u]` is `getPodStatus`, its age counted in sleeps of five seconds;
`podTimeToLive` is `Late`. `Crash` ends everything and leaves the pods.
`c` is used as a context after its request in several places; gin's contexts are
never done, so a client that leaves cancels nothing.

### VclusterBoot

`clusters` are the rows in the order of ids, `ClusterID` the first committed one of a name,
`namespace[n]` the state of the namespace on the host and of that of a manifest
inside the vcluster, `applied[n]` where the manifest is in place, `config` the
vclusters whose secret has a kubeconfig. `AddCluster`, `ClusterCreate` and `ClusterCommit` (the halves of
`FirstOrCreate`), `NamespaceGet`, `NamespaceCreate`, `Apply`, `ApplyNotFound`,
`NamespaceAgain`, `ApplyFails` follow `AddCluster` and `applyRawManifest`;
`SyncDependencies` is `SyncEvent`. `VclusterUp`, `DeleteNamespace` and
`NamespaceGone` are the clusters' own.

## The runs

All runs check deadlock; when the bound on requests is used up the server waits
(`Waiting`), which is a step of its own.

| Run | Instance | What it shows |
|---|---|---|
| `MCResourceSync_faults` | 2 resources of one name, 2 generations, 2 handlers, 3 requests, every endpoint, faults | `TypeOK`; the newest resource of a name is never soft-deleted (`NewestIsLive`); what the vcluster runs is on record (`AppliedIsRecorded`); no write of a Tf undoes another (`TfWritesDoNotClobber`) |
| `MCResourceSync_live` | 3 resources of one name, 2 handlers, 3 events | one live row once all is quiet (`SoleLive`); a superseded one is deleted in the end (`SupersededIsDeleted`) |
| `MCResourceSync_serial` | 2 resources, 3 generations, 1 handler, 5 requests, every endpoint | database, Tf and, until another generation's task writes it, secret agree on what was acknowledged (`AckedIsApplied`, `AckedHasItsToken`), the generation of a row has its spec row (`CurrentSpecExists`), and generations only grow (`GenerationNeverRegresses`) |
| `MCTaskTokens_rotation` | 2 generations, 2 handlers, 4 tokens, any fault | an exchanged or withdrawn refresh token is refused for good (`UsedIsRefused`, `WithdrawnStaysWithdrawn`); none is accepted that was not handed out (`AcceptedWasHandedOut`) |
| `MCTaskTokens_serial` | 1 generation, 1 handler, 5 tokens, calls may fail, equal tokens | the secret's refresh token is the one that is accepted (`SecretTokenRefreshes`), and those before it are not (`PreviousTokensInvalidated`) |
| `MCLogStream_live` | 2 pods, 2 handlers, 2 posts that commit in either order, 1 viewer, 1 watcher | no stored log has a gap (`NoGaps`), no update is lost (`NothingMissed`), and what is stored is shown in the end, by the cache entry (`StoredIsShown`) and by the ids (`NewRowIsShown`) |
| `MCLogStream_serial` | 1 pod, 2 container runs, 1 handler, 2 viewers, expiry, faults, logs longer than the column | logs only grow (`WrittenIsKept`), hold what was acknowledged (`AckedIsStored`), and nothing else is shown (`ShownIsStored`) |
| `MCApprovals_decisions` | 3 pods of up to 3 task types, 2 reruns, in-cluster generations 8, 9 and 10, 2 handlers, 2 approvals inserted and committed in any order, faults | logs and overview show the pods of the picture in `get_record.go:285-306` (`ShowsLatest`, `OverviewShowsLatest`), a decision for a resource is about the plan of its latest run (`RequiredIsLatest`), an acknowledged decision exists (`AckedIsDecided`), and a decision is final (`DecisionIsFinal`, the refinement) |
| `MCVclusterBoot_registration` | 2 names, 2 handlers, 3 requests, 1 deletion, faults | a name keeps its id once no lower one is to come (`NameKeepsItsId`), no vcluster runs without its row (`VclusterIsRegistered`), requests end (`RequestEnds`) |
| `MCDebugSession_pods` | 2 sessions and 1 unlock of which 2 happen, 3 intervals to live, faults, crashes | pods are deleted (`DebugPodIsDeleted`, `UnlockPodIsDeleted`), requests end (`DebuggerReturns`, `UnlockEnds`), and what an unlock answers is true (`OutcomeIsTrue`) |

Two runs end in a counterexample to a statement of the repository:

- `MCResourceSync_v_status_resurrects`: a status report that read its row before
  the sweep saves it afterwards. gorm's `Save` writes `deleted_at` back to NULL:
  the superseded resource is live again, against `resource.go:1590-1592`.
- `MCTaskLogs_v_overwrite`: of two overlapping posts of a pod the shorter one may
  be saved last and cut the stored log, against `log.go:107-108`.

**Bounds.** What the properties are about takes at most three resources under a
name (two sweeps whose batches differ), two generations (three where a PUT may
skip one), two handlers (every hazard listed is a race of two, or of one with
the controller or a pod), and requests enough for each to meet what another left
behind. Keys do not interact in the code, so the runs use one; the theorems hold
for any number. `MaxRequests`, `MaxMints`, `MaxPosts`, `MaxLength` and
`MaxGeneration` only bound the runs. Handlers (and the pods, where no action
names one) are symmetric; the runs with liveness use no symmetry. Three pods are the least for which a task type
can be shown wrongly because of another (a plan of the latest run, a later task of
the run before, and a third that moves the minimum); two sessions are the least
that can take each other's terminal, and an unlock shares nothing with a session
but the process; three intervals tell the first look, a later one and the last.

**Fairness.** `FairSpec` and `StreamFairSpec` assume weak fairness of each
handler's own steps (the Go scheduler runs every goroutine, and the runs that use
it have no faults, so calls return) and of the goroutine of an open websocket,
which looks every second. `DebugSession`'s assumes it of the goroutines of a session
and of an unlock and, of the outside, that the API server closes a watch in the
end (`WatchEnds`; it does so after 30 to 60 minutes) and that the container of a
debug pod, which sleeps for a day, comes to its end (`PodFinishes`): without the
latter two a session whose client has left would keep its pod for good.
`VclusterBoot`'s assumes it of the handlers only; that a repeated manifest ends
rests on the bound on deletions of namespaces. In these two, steps may also
fail, which only ends a request. Nothing is assumed of clients, the starting of pods, the
controller, the closing of a socket, or `Fail`.

**Where a property stops holding.** Some properties are checked in a smaller
setting than the code's, because in the larger one they fail; these are results
too. TLC gives a counterexample to

- `GenerationNeverRegresses` and `AckedIsApplied` when two PUTs overlap (one
  resource, two handlers): the generation check and the two writes each use what
  was read before (two PUTs of one generation can also both create its spec row);
- `AckedIsApplied` and `AckedHasItsToken` also when two POSTs of a name overlap: the
  one that was superseded may be the last to write the secret or the Tf object;
- `AckedIsApplied`, `AckedHasItsToken` and `SoleLive` with faults, where the error of
  the sweep's query is dropped (`SweepFindFails`): the superseded row stays live
  although both requests are answered 204;
- `AckedHasItsToken` without its second half, one request at a time and without
  faults: generation 1 is posted, generation 2 is put and answered 204, then a pod
  of generation 1 exchanges its token (`resource.go:1810`), and the secret holds a
  token of generation 1 until the next event. The token patch does the same where
  its raw query finds a soft-deleted resource of the name (`resource.go:1552`);
- `DecisionIsFinal` where `Contested` pods are not excepted: two requests insert
  rows 1 and 2, row 2 is committed and its decision told to the task, row 1 is
  committed and the next answer is the other decision;
- `NameKeepsItsId` where `Settled` does not ask that no row of lower id is to come:
  of two first registrations of a name the second is visible first;
- `NewRowIsShown` of any new row instead of that of the highest id: the watcher
  has remembered 2 when row 1 is committed, which `Last` (`get_record.go:656`)
  never gives, so that it waits for the next row;
- `SoleLive` with status endpoints (the run above);
- `SecretTokenRefreshes` with two generations, without any overlap or fault: a
  task of generation 1 exchanges its token, then generation 2 arrives. Versions
  are counted per spec (`resource.go:1643`), so its first row has version 1, but
  the exchange wants the highest version of all specs of the uuid
  (`resource.go:1793`), which is 2: the token in the secret is "invalid";
- `SecretTokenRefreshes` also with two overlapping requests, and with one when the
  version query fails (`resource.go:1643` assigns its result to `_` and 1644 tests
  another); `PreviousTokensInvalidated` with two generations;
- `UsedIsRefused` and `WithdrawnStaysWithdrawn` where two tokens may be signed in one
  second (`SameSecond`): they are the same string;
- `CurrentSpecExists` with faults: a PUT that dies between its row and its spec;
- `WrittenIsKept`, `AckedIsStored` and `ShownIsStored` when posts of a pod overlap (two first posts
  also make two log rows);
- `StoredIsShown` of a watcher instead of a viewer: what is added to an existing row does
  not change the highest id and is shown only with the next new row;
- `RequiredIsLatest` without its premise `TextInOrder`: of a rerun on record with
  in-cluster generations 9 and 10, "9" is the maximum of the texts, and the
  decision is made for the superseded plan;
- `OverviewShowsLatest` without its premise: of a task type whose pods are all of an earlier
  run than a previous type's, the overview shows one, which the picture calls a
  bad result; the log shows none;
- `UnlockPodIsDeleted` and `DebugPodIsDeleted` where a call failed or the process
  died: nothing looks for such a pod later;
- `RequestEnds` for a manifest that names a missing namespace of its own (not in
  the model): the request's namespace is created, the other never, and
  `applyRawManifest` repeats without a pause;
- `NothingMissed` with two viewers (the entry belongs to the resource, the first
  viewer to look takes it), with expiry, or when a request fails between its save
  and its `Cache.Set`.

## What is proved

Every safety invariant and every action property of the runs is stated by a
theorem; what stays with TLC is liveness (reasoning about fairness is out of the
prover's reach): `SupersededIsDeleted`, `StoredIsShown`, `NewRowIsShown`,
`DebugPodIsDeleted`, `DebuggerReturns`, `UnlockEnds` and `RequestEnds`.

The theorems are in `ResourceSyncProofs`, `TaskTokensProofs`, `TaskLogsProofs`,
`LogStreamProofs`, `ApprovalsProofs`, `DebugSessionProofs` and
`VclusterBootProofs`. They hold for all values of the
constants, with the named assumptions of the modules: kinds and bounds of
constants and, for `Null`, that it is none of the values it stands beside. Some
need a hypothesis about the instance or the behaviour, which the theorem states:

| Hypothesis | Theorems | Without it |
|---|---|---|
| `~Faults` | `CurrentSpecsExist`, `OneLiveResource`, `AckedAlwaysApplied`, `AckedAlwaysHasToken`, `NothingIsMissed` | a request that dies between two writes leaves the second undone; a sweep whose query fails is skipped |
| `NoStatusSaves`: no status endpoint | `OneLiveResource` | a stale copy revives a deleted row (`MCResourceSync_v_status_resurrects`) |
| `[]NoOverlap` (`ResourceSync`): requests about one name do not overlap | `GenerationsNeverRegress`, `AckedAlwaysApplied`, `AckedAlwaysHasToken` | a request writes what it decided on a row that is no longer so, or live |
| `[]NoOverlap` (`TaskLogs`): posts of one pod do not overlap | `AckedAlwaysStored`, `WrittenAlwaysKept`, `StreamAckedStored`, `OnlyStoredIsShown` | the shorter log is saved last (`MCTaskLogs_v_overwrite`) |
| `[]OneAtATime`, `[]OneGeneration`, no failing version query | `SecretAlwaysRefreshes`, `OnlySecretRefreshes` | versions of another spec, or of a stale read |
| `~SameSecond`: distinct tokens | `UsedAlwaysRefused`, `WithdrawnForGood` | the new token is the used one |
| `OneViewer`, `~Expiry` | `NothingIsMissed` | another viewer, or the 20 seconds, take the entry |

In each case the failure without it is a counterexample of TLC's, listed under
"Where a property stops holding"; the runs are instances that satisfy the
hypotheses. The runs of one handler (`MCResourceSync_serial`, `MCLogStream_serial`)
are the smallest such: the theorems are about any number of handlers that work at
the same time for different names or pods, which share the tables.

- **ResourceSync** (`TypeCorrect`, `NewestNeverDeleted`, `AppliedAlwaysRecorded`,
  `TfWritesNeverClobber`, `CurrentSpecsExist`, `OneLiveResource`,
  `GenerationsNeverRegress`, `AckedAlwaysApplied`, `AckedAlwaysHasToken`): any number of resources, names,
  generations, concurrent handlers and faults. `NewestIsLive` is not inductive: a
  handler may hold a copy of a row and a batch of rows to delete. `IInv` adds, for
  each handler, what its locals are still worth when it uses them (`HandlerOK`): the
  request works for a resource and generation (`HasSpec`) and until the spec row is
  stored carries a row of that generation (`CarriesRow`); a row it is about to save
  is not deleted and has the creation stamp of the stored one (`WritesLiveRow`);
  where the code relies on the resource, the spec row or the secret, these are
  stored (`HasStored`); the Tf it read is the one it works for (`HasSeen`); and every
  row in its batch has a newer one of the same name (`SweepsSuperseded`). Each action
  keeps these for its own handler; `BystanderOK` shows the others' survive, because
  rows are never removed and their stamps never change. `VersionInv` adds that a
  version a handler has read is not newer than the stored one, and equal only if the
  object is the one it read; hence an accepted update overwrites what it read.
  `CurrentSpecsExist` assumes `~Faults` and rests on `SpecInv`: of a generation that is
  in a stored row (`RowsPromised`), in the copy a status request will save
  (`StatusPromised`) or in the batch of a sweep (`SweepPromised`), the spec row is
  stored or some handler is on its way to create it (`Promised`); without faults no
  handler leaves that way.
  `OneLiveResource` is about overlapping sweeps. `SoleInv` says that creation stamps
  are distinct (`Stamped`) and that a row which is live although a newer one is
  stored has a handler on its way to delete it (`Swept`, `Cleans`): one that stored
  a row and has not swept yet, or whose batch has the row. A sweep saves what it
  found before it deletes, so that it revives rows another has deleted; they are in
  its own batch. When no handler is left, only the newest row (`NewestAbove`) is live.
  `GenerationsNeverRegress` rests on `FreshInv`: the copies a handler is about to
  write are of live rows of its own name and of their stored generation, or a later
  one of a PUT (`Fresh`). This holds with faults too. `SyncInv` and `TokenInv` carry the acknowledged
  state: of the live rows of a name there is one unless its handler is sweeping
  (`OnlyLive`); whatever was acknowledged and is live is what the Tf object and the
  secret hold (`TfCurrent`, `SecretCurrent`), and a handler that applies has read the
  current object, or its own secret (`HandlerSync`, `HandlerToken`). The exchange and
  the patch, which may sign for another generation or resource, either do so for
  the one live row at its generation or make the key `outdated`.
- **TaskTokens** (`TypeCorrect`, `OnlyHandedOutAccepted`, and, for distinct tokens,
  i.e. `~SameSecond`, `UsedAlwaysRefused` and `WithdrawnForGood`). `RotationInv` says
  that no token is later than the last signature (`Signed`), that no two rows or
  handlers share one (`Distinct`), and that the row of a used token is cancelled, and
  that of a presented one is by the time its handler saves the new row (`Exchanged`).
  With equal tokens both really fail, hence the assumption. `SecretAlwaysRefreshes`
  and `OnlySecretRefreshes` hold with equal tokens and failing statements, but one
  request at a time: by `SerialInv`, versions grow with ids (`VersionsGrow`), every row
  but the last is cancelled (`OnlyLastValid`), the secret has the last one's token
  unless a request has failed (`SecretIsLast`), and what a request carries is about
  to be the last row (`CarriesLast`).
- **TaskLogs** (`TypeCorrect`, `LogsHaveNoGaps`, `LogsHavePods`, `AckedAlwaysStored`,
  `WrittenAlwaysKept`). `LogInv` adds that
  the content a handler carries and the message it has read are without gaps and
  that its pod is recorded; `ExtendedInPlace` is the lemma about the append of the
  bytes that are not there yet. `SerialInv` adds that what a request has read of its
  pod's log still holds when it saves, and no other row of the pod has been committed
  in between (`ReadsHold`): requests of other pods only add rows of their own.
- **LogStream** (`StreamImplementsLogs`, `StreamKeepsNoGaps`, `StreamAckedStored`,
  `StreamTypeCorrect`, `OnlyStoredIsShown`, `NothingIsMissed`). The stream implements
  `TaskLogs`: a step of a viewer, a watcher or the expiry leaves the pods, the logs
  and the requests alone, and the answer of a request, which also fills the cache,
  is one of `TaskLogs`. So the theorems about logs hold for the composition, and only
  what is about sockets needs an invariant of its own. `ShownInv`: what was sent is a
  prefix of a stored message, which grows. `MissInv`: a viewer is up to date on the
  pods it has read since its query (`UpToDate`), or the entry is in the cache, or a
  request that has saved something is about to put it there (`Pending`).
- **Approvals** (`TypeCorrect`, `AckedAlwaysDecided`, `DecisionsAreFinal`,
  `RequiredAlwaysLatest`, `AlwaysShowsLatest`, `OverviewAlwaysShowsLatest`). `DecisionsAreFinal` is the refinement of
  `DecisionRegister`: every step records pods, takes, replaces or settles one decision,
  or is invisible to whoever polls. `Decision` is that of the committed row of lowest
  id: a `Commit` takes or replaces the decision (`FirstCommit`) or changes nothing
  (`LaterCommit`), and can only replace it while the row that was inserted earlier is
  in flight, so that an uncontested decision stays. `IInv` has what this needs: a
  handler about to store a row has a decision (`HasDecision`), one about to commit has
  inserted its row, of a pod on record (`HasInserted`), no two have the same
  (`IdsDiffer`), and the acknowledged pods have rows.
  `RequiredAlwaysLatest` is about every set of in-cluster generations: the premise
  `TextInOrder` is part of the property and speaks of the pods that are on record in
  the latest rerun, so that only a rerun with generations like 9 and 10 is excepted.
  `AlwaysShowsLatest` is about the running minimum `Level`, a recursive function over
  the task types: `LevelRunsAlong` is its step, and `LevelIsHighest` follows along the
  types that have pods, by `NatFacts`' `UpTo`. `ShownIsLatest` then says that where the
  picture has a good result, the latest rerun of the type is at the level, and that
  of the overview (`OverviewAlwaysShowsLatest`) is found by its own index.
- **DebugSession** (`TypeCorrect`, `UnlockPodsDeleted`, `OutcomesTrue`,
  `DebugPodsDeleted`). Requests share only the process, so `IInv` speaks of one
  unlock (`UnlockOK`: where it is, what its pod has done and how old both are) or
  session (`SessionOK`) at a time. `DebugPodsDeleted` is the safety part of
  `DebugPodIsDeleted`: once `RemoteDebug` is over, in whatever order the socket, the
  terminal and the watch ended, its deferred Delete has run.
- **VclusterBoot** (`TypeCorrect`, `VclustersRegistered`, `NamesKeepTheirId`). `IInv`:
  a handler that is about to commit has inserted a row of its name, one that is past
  the registration and applies on the host has a committed one (`HandlerOK`), and what
  is applied or up on the host is of a registered cluster (`HostOK`). `RowStep` says
  that rows are only inserted and committed, so these survive the other handlers; as
  a new row has a higher id than all before it, a name that is `Settled` stays so,
  with its id, its lowest (`SettledStays`).
- **NatFacts** has what the above use of numbers: a set of numbers has a smallest
  element, a bounded one a largest (`SmallestNat`, `LargestNat`), and what goes from
  each number to the next holds up to a bound (`UpTo`). They follow from the
  library's `WFMin`; no theorem takes an operator as parameter.

## What is not modelled, and the plan

- **Authentication** (login, SAML, the JWT middleware): no state that outlives a
  request; library code and parsing.
- **Read-only listings** (clusters, workflows, `AllApprovals`, totals,
  `ResourcePoll`, `LastTaskLog`, the two health checks): queries that change
  nothing and shape rows for the UI. What several of them share, the choice of
  the pods of a resource, is in `Approvals`.
- **Start-up, configuration, deployment**: flags, migrations, packaging. That there
  is one process is the assumption under all models.
- Within the modelled parts: the expiry of tokens (days to years), wording, parsing
  and the shape of answers, the contents of manifests, the bytes and the size of a
  terminal, and the goroutine that reads a closed socket (`get_record.go:596`).

No property covers late status reports: a stored state may describe a run of an
earlier generation, because a report of the previous generation's task, whose
token is still valid, is saved unconditionally although `resource.go:1500` has
just reset the state. Nothing in the code promises otherwise.

What is left: that the one action `IssueToken` of `ResourceSync` stands for the
statements of `NewTaskToken` in `TaskTokens` could be stated as a refinement of a
common abstraction, instead of being read off the code in both modules.
