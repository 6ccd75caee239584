# Verification of the Velzion control plane

Velzion is a control plane that deploys repositories to AWS. Two engines (velzard for production
deployments, zegion for one environment per pull request) take HTTP requests, keep one database
row per deployment or environment, and run `terraform` from a pool of workers behind an in-memory
queue. An auth service owns the users and deletes rows; a telemetry service counts rows and can
flush them. This directory models that program in TLA+, checks it with TLC and proves its main
safety properties with TLAPS.

Modelled: **both engines** with everything that acts on their tables, an **abstract worker pool**
that both implement, and the **shared database** under the concurrent requests of all services.
Paths in this document are relative to `src/`.

## 1. Inventory

| Component | State it keeps | Operations | Interacts with |
|---|---|---|---|
| **velzard** `services/velzard` | rows of `deployments` (status, owner, destroyed_at); channel of 100 jobs; 5 workers; directories `/tmp/velzard_<id>`; active-environments gauge | Deploy, Destroy, AdminTerminate, WebhookUpdate (status callback), lists; workers; recovery at boot; shutdown on SIGTERM | database, STS, terraform, GitHub (velzion.yaml), the deployed server |
| **zegion** `services/zegion` | rows of `ephemeral_environments`, one per (user, repository, pull request); channel, workers, `/tmp/zegion_<id>`; gauge | GithubWebhook (opened, synchronize, reopened, closed), EC2Webhook (BUILT), Terminate, AdminTerminate, list; workers; recovery; shutdown | the same, and pull request comments |
| **auth** `services/auth` | rows of `users` (role, token, is_admin); JWTs held by clients | Login, Callback (upsert), BindIAMRole, Logout, AdminDeleteUser, AdminFactoryReset, lists | the tables of both engines (row deletion), GitHub |
| **telemetry** `services/telemetry` | none | summaries over both tables, Reconcile (fail all in-flight rows) | both tables |
| **shared/telemetry** | Prometheus counters, gauge, histogram | request and job metrics | both engines |
| **terraform, AWS** (external) | state file and lock in the job's directory; servers in an account | init, apply, destroy | started by the workers |
| **boot scripts** `*/terraform/*.tf` | the server | report status to the engines | WebhookUpdate, EC2Webhook |
| **frontend**, **monitoring**, CI, compose files | none | HTTP client, scraping, build | the HTTP interface |
| `services/{audit,diablo,notification,observability}`, `workers/infra-worker` | none | only `go.mod` files | nothing |

Hard behaviours and what makes each component correct:

* **velzard.** A request handler is several database calls and an STS call with other steps in
  between; it answers only after its job is in the channel, where it may block. Every status
  write's error is dropped, and the handler's writes use the request's context, which is cancelled
  when the client leaves. The queue is lost with the process, a terraform run is a process of its
  own and is not. Correct means: a row that says a job is under way has one (or the program lost a
  write it could not know of); accepted jobs are worked off; a server is never left where no
  request can destroy it.
* **zegion.** The same machinery, but a row and a directory are *reused* by every delivery of one
  pull request, GitHub may redeliver or reorder, and reports select rows by repository and number.
  Correct means: no row is left in PROVISIONING or DESTROYING without a reason, and no server is
  lost by the directory that its jobs share. That the last delivery decides does *not* hold
  (`zegion_closed`), nor that DESTROYING is never a dead end (`zegion_kill`).
* **auth.** DeleteUser is three statements without a transaction with a foreign key between them;
  FactoryReset is a transaction; claims live in tokens for a day. Correct means: no rows without a
  user, and nobody half wiped by a reset.
* **telemetry.** Counts from several queries; Reconcile from two updates. Correct means: the
  numbers of one summary do not contradict each other; only stuck rows are flushed (the latter does
  not hold, `velzard_ghost`).

`PROJECT.json` lists 40 hazards at their lines and the properties for them; those that no property
can cover say why.

## 2. Plan

| # | Module | What | State |
|---|---|---|---|
| 1 | `Terraform` | the external CLI, its directories and the cloud | done |
| 2 | `Velzard`, `MCVelzard`, `Velzard*.cfg` | the production engine with telemetry's and auth's writes to its table | done |
| 3 | `WorkerPool` | abstract specification of the job queues; both engines implement it | done |
| 4 | `Zegion`, `MCZegion`, `Zegion*.cfg` | the ephemeral engine | done |
| 5 | `ControlPlane`, `MCControlPlane`, `Control*.cfg` | users, tokens, row deletion, insertion, summaries | done |
| 6 | `VelzardProofs` | typing, inductive invariant, two safety theorems, the refinement's step theorem | done |
| 7 | `VelzardServerProofs` | when servers stay reclaimable | done |
| 8 | `ZegionProofs` | typing, `DestroyingOwned`, the refinement's step theorem | done |
| 9 | `ZegionProvisionProofs` | `ProvisioningAccounted` | done |
| 10 | `ZegionServerProofs` | when servers stay tracked | done |
| 11 | `ControlPlaneProofs` | rows have users, wipes, summaries, typing | done |

`QueueLemmas` holds the lemmas about sequences and job counts that both engines' proofs use. Every
safety property that a passing run checks is now a theorem; what stays with TLC is listed at the
end of section 5.

`Velzard` and `Zegion` extend `Terraform` and each instantiates `WorkerPool` with its channel and
workers. `ControlPlane` stands beside them: it has every service's statements on the shared
database but knows of a row only its owner and whether its status counts as active, while the
engines have the rest of the row and see row deletion as one step. Both halves together would
multiply two large state spaces without a property that needs them together.

## 3. The modules

### Terraform

What the workers of both engines rely on: `configured` are the environments whose directory holds
`main.tf`, `tracked` those whose state file tracks a server that exists, `strays` those with a
server that no state file tracks; `live` is either. Assumptions about the external program:

* `-var` is refused in a directory without `main.tf`, so a destroy there fails (`configured`);
* apply and destroy lock the state file; a run that cannot get the lock fails (`Locked` in the engines);
* a failed apply may have created the server and then tracks it;
* with credentials of another account the refresh finds no server, drops it from the state file,
  and the destroy succeeds;
* a run whose directory was removed goes on with an unlinked state file ("detached"): a server it
  creates is recorded nowhere;
* a run is a process of its own: it survives the engine, ends, or is killed half way.

### WorkerPool

What the queue of an engine promises, without handlers, database or terraform: a bounded
first-in first-out queue `waiting`, and `busy`, per worker the job it has begun. `Accept`, `Begin`
(the oldest job, by one worker), `Finish`, and `Lose` (everything, with the process). There is no
retry, no reordering and no drain, and under fairness no idle worker ignores a waiting job. Each
engine maps `waiting` to its channel and `busy[w]` to `wk[w].job`: the steps of one iteration of
`workerLoop` between taking a job and the last status write are stutters of the pool.

### Velzard

| TLA+ | Code |
|---|---|
| `status`, `owner`, `stamped` | `deployments.status`, `.user_id`, `.destroyed_at IS NOT NULL` |
| `req[r]` | a handler goroutine: before its DESTROYING write ("write"), before STS ("assume"), before or blocked in `Push` ("push") |
| `jobs` | the channel of `worker/queue.go`; a job is type, deployment and whose credentials it carries |
| `wk[w]` | a worker: "prepare" (directory, velzion.yaml, main.tf), "start" (init), "run" or "detached" (apply or destroy), "cleanup" (RemoveAll), then "done" or "failed" up to the status write |
| `orphans` | terraform runs that outlived the process |
| `gauge` | `velzion_active_environments{engine="velzard"}` |
| `mode` | up, draining after SIGTERM (new requests refused, those accepted go on, workers go on), down |
| `stale` | auxiliary: rows that missed their latest status write because the write did not land; no action reads it |
| `Deploy`, `DeployReplyLost` | the INSERT, with and without its reply |
| `Destroy`, `AdminTerminate`, `MarkDestroying` | the status check, and, any number of steps later, the status write |
| `AssumeRole`, `AssumeRoleFails`, `Push` | the rest of all three handlers |
| `Take` ... `FinishDestroy` | one iteration of `workerLoop` and `executeTerraform`, step by step |
| `Crash`, `Shutdown`, `Exit`, `Boot` | the process; `Boot` is recovery before queue and workers exist |
| `Reconcile`, `DeleteRows`, `WebhookUpdate` | telemetry, auth, the deployed server |

`UpdateStatus` and `UpdateStatusAndError` choose whether the write lands (`WriteFaults`); every
caller drops the error, so both outcomes continue alike. Requests that a handler refuses change
nothing and are stuttering steps.

`stale` is what makes the safety statements exact: recovery, reconciliation and callbacks make a
row clean again, a lost write makes it stale, and a clean row that says DESTROYING or PROVISIONING
is accounted for. Without it the properties would be false for a reason the program cannot help.

### Zegion

| TLA+ | Code |
|---|---|
| `status`, `owner`, `pr` | `ephemeral_environments.status`, `.user_id`, `.(github_repo_url, pr_number)` |
| `req[r]` | a handler: before its DESTROYING write ("write", for administrators "adminwrite"), past it and before STS ("marked"), past a delivery's upsert and before STS ("delivered"), before or blocked in `Push` |
| `jobs`, `wk`, `orphans`, `mode`, `stale` | as in `Velzard` |
| `stranded` | auxiliary: rows in flight with no job left to settle them: those a handler leaves in DESTROYING when no other destroy job for them is held, and those in PROVISIONING whose server is taken, when no job that settles them is left (`Settling`), by a destroy that had outlived its process; no action's guard reads it |
| `UpsertEnvironment`, `RowFor` | `INSERT ... ON CONFLICT DO UPDATE`: the row of this user and pull request, whatever its status, or a new one |
| `GithubWebhook`, `UpsertReplyLost` | a delivery, with and without the upsert's reply |
| `Terminate`, `MarkDestroying`, `RoleMissing` | the caller's terminate: status check, status write, and the role lookup that comes after the write |
| `AdminTerminate`, `AdminMarkAndPanic` | the administrator's: after the write it asserts the type of a key that `GetEnvironment` never sets |
| `AssumeRole`, `AssumeRoleFails`, `Push` | the rest; a failed delivery is marked FAILED, a failed terminate DESTROY_FAILED |
| `MarkBuilt` | EC2Webhook: every row of the repository and number |
| `Take` ... `FinishDestroy`, `Crash` ... `Boot` | workers and process; a provision that succeeds writes no status |
| `Reconcile`, `DeleteRows` | telemetry, auth |

A delivery may be of any kind at any time: that covers redelivered, reordered and late ones. The
active-environments gauge has the same shape as velzard's and is left out here.

### ControlPlane

| TLA+ | Code |
|---|---|
| `users`, `account`, `admins`, `bound` | the rows of `users`, `github_id`, `is_admin`, `iam_role_arn` set |
| `owner`, `active` | of each row of both engines' tables, its user and whether its status counts as active |
| `claims` | users for whom an unexpired token with the admin claim is about |
| `proc[p]` | a goroutine that handles a request: the statement it is at, the user it is about, what its open transaction has deleted (`doomed`), what a summary has counted |
| `undisturbed` | auxiliary: summaries without failed query or deletion so far |
| `Callback`, `TokenExpires`, `BindIAMRole`, `MakeAdmin` | auth; nothing in the program sets `is_admin`, an operator does |
| `ReadRole`, `Insert`, `StatusWrite` | the engines: the role is read with one statement, the row inserted with a later one |
| `AdminDeleteUser`, `DeleteDeployments`, `DeleteEnvironments`, `DeleteUserRow` | `DeleteUser`, whose statements commit one by one |
| `AdminFactoryReset`, `ResetDeployments`, `ResetEnvironments`, `ResetUsers`, `Commit` | `FactoryReset`, one transaction |
| `HandleSummary`, `GetSummary`, `Report` | telemetry's four counts; a query that fails counts as zero |
| `Fail` | a statement fails, the request is cancelled, or the database breaks a deadlock: rollback |

PostgreSQL is external: READ COMMITTED, a statement sees what is committed and waits (`Gets`) while
another transaction has deleted a row that it needs; deployments restrict, environments cascade.
A circle of waiting transactions is broken with an error, which is `Fail`.

`services/telemetry/cmd/api/main.go` lines 74 and 75 register the same route twice; `net/http`
panics on a duplicate pattern at start. The handlers are modelled as they work without that
repetition. `GetSystemSummary` counts rows of zegion in the status TERMINATED, which nothing
writes.

## 4. What the runs check

| Run | Instance | What it shows |
|---|---|---|
| `velzard_races` | 1 deployment, 2 handlers, 2 workers, channel of 1, lost writes, 1 stop, reports; 196 000 states | `TypeOK`, `DestroyingOwned`, `ProvisioningAccounted`: no interleaving strands a row in a status that says work is under way, unless a write was lost |
| `velzard_progress` | 1 deployment, 2 handlers, 1 worker, channel of 1, lost writes, 1 stop, fair; 50 000 states | `DestroyResolves`, `DeployResolves`, `PushCompletes`: accepted work ends, a blocked handler gets through; `LiveReclaimable`: with one worker and one account, until the first stop, a server is always tracked and its row never claims it gone; `LostOnlyByKills`: through stops and orphaned runs too a server is lost only when an apply that outlived its process is killed; `ImplementsPool`: the engine refines `WorkerPool`, fairness included |
| `velzard_gauge` | 1 of each, no faults | violated: the gauge becomes negative when a deployment whose apply failed is destroyed |
| `velzard_twice` | 2 handlers, 2 workers | violated: both requests pass the status check, two destroys of one deployment run |
| `velzard_stamp` | 1 of each | violated: the worker's DESTROYED leaves `destroyed_at` unset |
| `velzard_ghost` | 1 of each | violated: Reconcile fails a row that a worker is busy with |
| `zegion_races` | 1 pull request, 2 handlers, 2 workers, channel of 1, lost writes; 571 000 states | `TypeOK`, `DestroyingOwned`, `ProvisioningAccounted`: whatever is delivered, terminated or reported on the one row, it says DESTROYING or PROVISIONING only for a reason, or because a write was lost or a handler left it |
| `zegion_progress` | 1 pull request, 1 handler, 1 worker, channel of 2, lost writes, 1 stop, fair; 68 000 states | `DestroyResolves`, `ProvisionResolves`; `DestroyingOwned` and `ProvisioningAccounted` across restarts; `ServersTracked`: with one worker and one account no server is lost before the first stop although all jobs share one directory; `LostOnlyByKills`; `ImplementsPool` |
| `zegion_closed` | 1 of each | violated: the older destroy's DESTROYED overwrites the PROVISIONING of a reopen whose server then exists, and the row refuses to be terminated |
| `zegion_kill` | 1 of each | violated: an administrator's terminate writes DESTROYING, panics and queues nothing |
| `control_plane` | 2 ids, 2 accounts, 1 deployment, 1 environment, 2 requests at a time; 637 000 states with symmetry | `RowsHaveUsers`, `WipesTogether`, `SummaryConsistent`, `TypeOK` |
| `control_delete` | the same, 1 request at a time | violated: DeleteUser's first commit deletes deployments of a user who stays |

**Where the ownership of servers ends.** `LiveReclaimable` (velzard) and `ServersTracked` (zegion)
are checked for one worker, one account and before the first stop because the code gives no more.
With two workers an accepted destroy's `RemoveAll` (velzard queue.go line 174) can hit the
directory in which another worker has just started the apply of the same environment: the server
is recorded nowhere. With two accounts velzard's `AdminTerminate` (velzard.go line 256) destroys
with the administrator's role, and zegion's `Terminate` (zegion.go line 198) with the caller's:
terraform finds nothing in that account and succeeds. After a crash a killed apply may have
created a server its state file does not track. Setting `Workers = {w1, w2}`, `Users` to two
users or dropping `stops = 0` makes TLC show each. That kill is the only loss a stop adds, which is
`LostOnlyByKills`: recovery fails a row whose terraform still runs, the next request for it is
accepted and its job enters the same directory, where nothing but the lock on the state file
keeps it from removing what the old run is writing. The theorems of section 5 say how little of this
is needed: not one worker and one account, only no two jobs of *one* environment at a time.

**Where zegion's `ProvisioningAccounted` ends.** At a destroy that outlived its process: it can
remove the server of a row that a later delivery has set to PROVISIONING and whose own apply found
that server still there. If then no job is left that will settle the row, with a handler past its
write, in the channel or with a worker that has still to provision or to write, the row is
`stranded` from the step in which the server goes until its next write.

**Bounds.** One deployment or pull request: an action touches one row, and other rows matter only
as occupants of the channel, which the second handler's jobs are as well. Two handlers and two
workers are the smallest numbers with a race; `QCap = 1` makes the channel fill with the second
job, `QCap = 2` lets a single handler's jobs queue up behind each other. `MaxStops = 1` lets
recovery meet orphans of the previous process. `WebhookStatuses` is COMPILING in one
run and RUNNING in the other, the two statuses that servers report: the same statement stores
both, and every check in the code treats them alike. No run has other reports: not FAILED,
which `AdminTerminate` refuses, nor DESTROYED, which goes through `UpdateStatus` (velzard.go lines
188 to 192). The theorems of section 5 admit them where they do not say otherwise. In
`ControlPlane` two ids and accounts are a caller
and a victim, or a user deleted and back with a new id; two goroutines are a pair of any two
operations, with logins and status writes as steps between; one deployment (restricting key) and
one environment (cascading key). What three or more goroutines do is left to the theorems. `Ids`
and stops are finite, so the model may stop where the system would go on: `CHECK_DEADLOCK FALSE`.
`Symmetry` permutes ids that no definition tells apart and is used only in runs without liveness
properties.

**Fairness** (engines). Weak fairness of a handler's next step after its first call, of every
worker, of `Boot` and `Exit`: goroutines are scheduled, calls return. Strong fairness of `Push`:
Go serves blocked senders first in, first out, so a slot that becomes free again and again reaches
each of them. That a terraform run ends is an assumption on the environment: the code sets no
timeout (velzard queue.go lines 145 and 158). Nothing is assumed about requests, successes,
writes that land or servers that report. `ControlPlane` has no liveness property: which
transaction gets a lock is PostgreSQL's business.

## 5. What is proved

For every set of deployments or environments, pull requests, handlers, workers and users, every
queue capacity and number of stops, with or without lost writes. The assumptions are
`VelzardAssumption`, `ZegionAssumption` (types, `NoJob` is no job) and `ControlPlaneAssumption` (ids
of different kinds differ, finitely many rows).

`VelzardAssumption` says more than types in one place: `WebhookStatuses` leaves out PROVISIONING and
DESTROYING. `WebhookUpdate` (velzard.go lines 187 to 201) checks nothing and would store either, and
a row set so would have no job; the properties hold of the system because the only sender in
the repository, the boot script in `terraform/velzard_main.tf` (lines 266 and 290), reports COMPILING
and RUNNING. It also leaves out "none" and "gone", which are no statuses but the model's marks
for rows that do not exist. That script reports to `/api/velzard/deployments/<id>/webhook_update/`
(line 263), for which `main.go` registers no handler; a report reaches `WebhookUpdate` on the path
of `.docs/SPECS.md` (line 56), and the model lets it come at any time or never.

| Theorem | States |
|---|---|
| `VelzardProofs!TypeCorrect`, `ZegionProofs!TypeCorrect` | `Spec => []TypeOK`, the channel bound included |
| `VelzardProofs!Inductive` | `Spec => []IInv` |
| `VelzardProofs!DestroyingIsOwned`, `ProvisioningIsAccounted` | `DestroyingOwned` and `ProvisioningAccounted` of `velzard_races` |
| `VelzardServerProofs!ServerStaysReclaimable`, `ServersStayReclaimable` | per deployment, and for all: while jobs of one deployment do not overlap, `LiveReclaimable` |
| `VelzardServerProofs!OneWorkerOneAccount` | `LiveReclaimable` as `velzard_progress` checks it |
| `VelzardServerProofs!OnlyKillsLoseServers`, `ZegionServerProofs!OnlyKillsLoseServers` | while jobs of one deployment or pull request do not overlap, `LostOnlyByKills`, across any number of stops |
| `VelzardServerProofs!OneWorkerOnlyKillsLose`, `ZegionServerProofs!OneWorkerOnlyKillsLose` | `LostOnlyByKills` as the two progress runs check it |
| `ZegionProofs!DestroyingIsOwned` | `DestroyingOwned` of `zegion_races` and `zegion_progress` |
| `ZegionProvisionProofs!ProvisioningIsAccounted` | `ProvisioningAccounted` of `zegion_races` and `zegion_progress` |
| `ZegionServerProofs!ServerStaysTracked`, `ServersStayTracked` | per pull request, and for all: while jobs of one pull request do not overlap, `ServersTracked` |
| `ZegionServerProofs!OneWorkerOneAccount` | `ServersTracked` as `zegion_progress` checks it |
| `VelzardProofs!PoolRefined`, `ZegionProofs!PoolRefined` | initial states map to initial states of `WorkerPool`, every step to a step or a stutter |
| `ControlPlaneProofs!TypeCorrect`, `RowsAlwaysHaveUsers`, `WipesAreTogether`, `SummariesAreConsistent` | the four properties of `control_plane` |

**Velzard.** The properties are not inductive alone. `IInv` adds: a job is about a row that was
inserted (`JobsHaveRows`; otherwise a later insert would put PROVISIONING under a destroy job); a
destroy job is about a row that has left PROVISIONING (`DestroyJobsAccepted`; otherwise a destroy
that deletes the server would leave PROVISIONING unaccounted); only destroys write before STS
(`WritingIsDestroying`); and a deploy that ended well left a server that only a destroy job
removes (`DeploysLeaveServers`). The argument follows the job. `Held(j)` says that j is with a
handler past its status write, in the channel or with a worker. Most steps hand a job on
(`HandoverKeeps`, with the sequence lemmas `PushedJobs` and `TakenJobs` of `QueueLemmas`).
`FrameSuffices` then reduces every remaining action but the two that put a row under way
(`InsertKeeps`, `MarkKeeps`) to four facts: statuses only leave the in-flight ones (`Settles`),
servers go only from rows that left PROVISIONING (`ServersKept`), no job appears, and a job that
disappears leaves its row closed or its server behind.

**Zegion.** Here a row is DESTROYING again and again, so a destroy job that ends says nothing
about the row's latest delivery; what carries the proof is that it *writes* the row when it ends.
`IInv` is typing, `RowsOwned` (a row has an owner from its upsert on), `WritingIsDestroying`,
`CleaningIsDestroying` (only a destroy comes to remove its directory) and `DestroyingOwned`
itself. `HandlerKeeps`, `WorkerKeeps`, `ProcessKeeps` and `EnvironmentKeeps` show for each step
that a destroy job is handed on, or that the step writes its row, or strands it because there is
no other; `StaysDestroying`
and `FrameSuffices` turn that into the invariant.

For `ProvisioningAccounted` that a job exists is too weak to be inductive: a provision that is
"done" has nothing left to write, and a destroy counts only once it has come so far that it will
write the row. `PromisesBacked` says which work *backs* a row in PROVISIONING that is neither stale
nor stranded: a job with a handler past its upsert or in the channel (`Coming`), one with a worker
that has still to provision or to write the row (`Serves`), or a server; these are the parts of
`Settling` (`SettlingParts`). The case that needs care is a destroy that takes the server from
under a delivery: it is itself what backs the row from then on, until it writes the row.

**Servers.** `ServerStaysTracked` and `ServerStaysReclaimable` have a temporal hypothesis,
`[]SerializedFor(x)`: whenever a worker has a job of x, no other worker has one and the
credentials are the owner's. It is the caller's discipline (one request for an environment at a
time, by its owner), and the code does not enforce it; jobs of other environments may run on every
worker and be anybody's. `Serialized` says so of all environments, and `OneWorkerOneAccount`
proves it from what the runs instantiate: one worker has one job at a time, and with one user a
job's credentials are the owner's (`OneWorkerSerializes`, from `JobsKnown` and `RowsOwned`: a job's
row was inserted, and such a row has an owner). Behind it stands `Tidy`: no server
of x is lost, no terraform run of x is detached, and a directory is removed only when its state
file tracks nothing. In zegion that is inductive as it is. In velzard the row must also not say
DESTROYED while a server exists, and for that the proof follows the one deploy job that a
deployment ever has (`OneDeploy`: with the handler, in the channel or begun, never two of these;
the queue part rests on `AtMostOne`, `PushedOnce` and `TakenOnce` in `QueueLemmas`): `main.tf`
exists only after that job was begun, so a destroy that gets as far as terraform comes after it
(`Ordered`), and nothing deploys again.

`OnlyKillsLoseServers` is about the time after a stop, when runs of earlier processes go on in
directories that the new one reuses. `Kept` is what holds of them: an orphan is
attached to its directory and has the owner's credentials, and no worker is past the lock
while an orphan of the same environment runs, so that none can come to remove its directory. Then a run
that ends keeps its server in the state file (`EndKeeps`, `OrphanKeeps`), a directory is removed
only when nothing is tracked (`CleanupKeeps`), and a stop turns a worker's run into an orphan with
all of this (`StopKeeps`); what is left is the apply that is killed.

The velzard theorems about `LiveReclaimable` assume that DESTROYED is not among
`WebhookStatuses`: `WebhookUpdate` would accept it, but `terraform/velzard_main.tf` (lines 266 and
290) reports COMPILING and RUNNING only.

**The refinement.** From typing alone: a worker has no job exactly when it is idle
(`IdleHasNoJob`), so handlers' steps other than `Push` and workers' steps inside a job leave
`<<waiting, busy>>` alone, `Push` is `Accept`, `Take` is `Begin`, the three `Finish...` are
`Finish`, `Crash` and `Exit` are `Lose`.

**ControlPlane.** `IInv` says what an open transaction knows: a transaction that deletes a user
deletes the user's rows (`DoomedTogether`), deletes only rows that were inserted
(`DoomedInserted`), and when it is about to commit leaves no owner of a row it deletes but its caller
(`CommitCovers`). The second is why a later insert cannot fall under an older deletion; the
row locks are why an insert for a doomed user has to wait (`InsertKeeps`); the third is
`WipesTogether` at the commit. It is the foreign key that carries `CommitCovers` over the deployments
inserted between the first and the third statement. For the summaries, `Tallies` bounds what has
been counted after each query by the rows there are now, which without deletions are never
fewer (`CountsKept`); that the active rows are read before the totals is what makes it work.

`TypeOK` bounds the counters of a summary by the number of rows, and a summary that was disturbed,
or one of whose queries failed, has no tally. `Capped` therefore bounds, for every goroutine and at
each query, what can have been counted by the sizes of the two tables, and says that who is at no
summary has counted nothing.

**Only model-checked:** the leads-to properties `DestroyResolves`, `DeployResolves`,
`ProvisionResolves` and `PushCompletes`, and the fairness part of `ImplementsPool`: fairness and
ENABLED are beyond the prover.

## 6. Not modelled

* HTTP parsing, authentication headers, list endpoints, counters and histograms: they change no
  state that a property reads. Login's redirect and Logout change nothing on the server.
* The GitHub client and pull request comments: HTTP calls whose errors end a request before it
  changes anything, or are dropped.
* The boot scripts: their reports are `WebhookUpdate` and `MarkBuilt`.
* Telemetry's lists, `GetSystemSummary` and `GetAllDeployments`: reads whose results no decision
  and no property compares.
* Loss of `/tmp` at a reboot of the host; `config_snapshot`, `aws_instance_id`, `elastic_ip` and
  `error_logs`: data that no decision reads.
* Frontend, monitoring, CI and compose files: a client of the interface, and configuration.
  The placeholder services have no code.
