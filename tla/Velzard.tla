------------------------------- MODULE Velzard -------------------------------
(****************************************************************************)
(* The production engine (src/services/velzard): HTTP handlers that write a *)
(* deployment's status and queue a job, an in-memory job queue, workers     *)
(* that run terraform, the status callback, and the restart of the process. *)
(* Two actors outside the process act on the same table: telemetry's        *)
(* reconciliation and the row deletions of the auth service.                *)
(*                                                                          *)
(* A user stands for the AWS account that the user's bound IAM role leads   *)
(* to.  Early returns that change nothing (bad method, missing role, a      *)
(* status the handler refuses) are stuttering steps.                        *)
(****************************************************************************)
EXTENDS Integers, Sequences, FiniteSets, Terraform

CONSTANTS
    Reqs,               \* handler goroutines; one is free again after its reply
    Workers,            \* worker goroutines
    Users,              \* users, and the AWS accounts their roles lead to
    Admins,             \* the users whose token carries the admin claim
    QCap,               \* capacity of the job channel
    WebhookStatuses,    \* what the status callback may report
    WriteFaults,        \* can a status write be lost?
    MaxStops,           \* bound on crashes and shutdowns
    NoJob               \* no job

Deployments == Envs

\* "none": the id is not generated yet; "gone": the row has been deleted.
\* "SLEEPING" is refused by AdminTerminate although nothing in velzard writes it.
Statuses == {"none", "PROVISIONING", "COMPILING", "RUNNING", "SLEEPING", "FAILED",
             "DESTROYING", "DESTROY_FAILED", "DESTROYED", "gone"}

Jobs == [type : {"DEPLOY", "DESTROY"}, dep : Deployments, creds : Users]

\* The callback stores any string.  A server's boot script, terraform/velzard_main.tf,
\* reports COMPILING and RUNNING; the assumption keeps out the two statuses that say a
\* job is under way.
ASSUME VelzardAssumption ==
    /\ Admins \subseteq Users
    /\ QCap \in Nat \ {0}
    /\ MaxStops \in Nat
    /\ WriteFaults \in BOOLEAN
    /\ WebhookStatuses \subseteq Statuses \ {"none", "gone", "PROVISIONING", "DESTROYING"}
    /\ NoJob \notin Jobs

VARIABLES
    mode,               \* the process: "up", "draining" after SIGTERM, "down"
    status,             \* deployments.status
    owner,              \* deployments.user_id
    stamped,            \* the rows whose destroyed_at is set
    req,                \* per handler goroutine, where it is and its job
    jobs,               \* the job channel
    wk,                 \* per worker goroutine, where it is and its job
    orphans,            \* terraform runs that outlived the process
    gauge,              \* velzion_active_environments
    stops,              \* crashes and shutdowns so far
    stale               \* auxiliary: rows that missed their latest status write

dbVars == <<status, owner, stamped, stale>>
vars == <<mode, dbVars, req, jobs, wk, orphans, gauge, stops, tfVars>>

Idle == [pc |-> "idle", job |-> NoJob]

\* A worker's pc "run" is a terraform run in its directory, "detached" one whose
\* directory was removed under it.
Running == {"run", "detached"}

TypeOK ==
    /\ TerraformTypeOK
    /\ mode \in {"up", "draining", "down"}
    /\ status \in [Deployments -> Statuses]
    /\ owner \in [Deployments -> Users \cup {"none"}]
    /\ stamped \subseteq Deployments
    /\ req \in [Reqs -> {Idle} \cup [pc : {"write", "assume", "push"}, job : Jobs]]
    /\ jobs \in Seq(Jobs)
    /\ Len(jobs) <= QCap
    /\ wk \in [Workers -> {Idle} \cup
                 [pc : {"prepare", "start", "cleanup", "done", "failed"} \cup Running,
                  job : Jobs]]
    /\ orphans \subseteq [pc : Running, job : Jobs]
    /\ gauge \in Int
    /\ stops \in 0 .. MaxStops
    /\ stale \subseteq Deployments

Init ==
    /\ TerraformInit
    /\ mode = "up"
    /\ status = [d \in Deployments |-> "none"]
    /\ owner = [d \in Deployments |-> "none"]
    /\ stamped = {}
    /\ req = [r \in Reqs |-> Idle]
    /\ jobs = <<>>
    /\ wk = [w \in Workers |-> Idle]
    /\ orphans = {}
    /\ gauge = 0
    /\ stops = 0
    /\ stale = {}

-----------------------------------------------------------------------------
(* The deployments table.                                                  *)

Present(d) == status[d] \notin {"none", "gone"}

\* One UPDATE of a row's status.  Every caller drops the error, so that a write
\* that does not land (no connection, a cancelled request context) goes unseen.
WriteStatus(d, s, lands) ==
    IF ~Present(d) THEN UNCHANGED <<status, stale>>
    ELSE IF lands THEN /\ status' = [status EXCEPT ![d] = s]
                       /\ stale' = stale \ {d}
    ELSE /\ stale' = stale \cup {d}
         /\ UNCHANGED status

Lands == IF WriteFaults THEN BOOLEAN ELSE {TRUE}

\* DESTROYED also sets destroyed_at ...
UpdateStatus(d, s) == \E lands \in Lands :
    /\ WriteStatus(d, s, lands)
    /\ stamped' = IF s = "DESTROYED" /\ lands /\ Present(d)
                  THEN stamped \cup {d} ELSE stamped
    /\ UNCHANGED owner

\* ... but not through the write the workers use.
UpdateStatusAndError(d, s) == \E lands \in Lands :
    /\ WriteStatus(d, s, lands)
    /\ UNCHANGED <<owner, stamped>>

InFlight(d) == status[d] \in {"PROVISIONING", "DESTROYING"}

FailInFlight ==
    /\ status' = [d \in Deployments |-> IF InFlight(d) THEN "FAILED" ELSE status[d]]
    /\ stale' = {d \in stale : ~InFlight(d)}
    /\ UNCHANGED <<owner, stamped>>

\* Mutant: recovery looks for PROVISIONING rows alone.
RecoverDeploysOnly ==
    /\ status' = [d \in Deployments |-> IF status[d] = "PROVISIONING" THEN "FAILED" ELSE status[d]]
    /\ stale' = {d \in stale : status[d] # "PROVISIONING"}
    /\ UNCHANGED <<owner, stamped>>

\* An error here is only logged: the rows keep the status they had.
RecoverOrphanedDeployments ==
    \/ FailInFlight
    \/ /\ WriteFaults
       /\ stale' = stale \cup {d \in Deployments : InFlight(d)}
       /\ UNCHANGED <<status, owner, stamped>>

-----------------------------------------------------------------------------
(* Handlers.  Between two database calls any other step may happen.        *)

Job(t, d, u) == [type |-> t, dep |-> d, creds |-> u]

\* A request accepted before SIGTERM may make its first call while draining.
Free(r) == mode # "down" /\ req[r].pc = "idle"

\* The row is inserted; the caller's role is known to be bound.
CreateDeployment(d, u) ==
    /\ status[d] = "none"
    /\ status' = [status EXCEPT ![d] = "PROVISIONING"]
    /\ owner' = [owner EXCEPT ![d] = u]
    /\ UNCHANGED stamped

Deploy(r, d, u) ==
    /\ Free(r)
    /\ CreateDeployment(d, u)
    /\ req' = [req EXCEPT ![r] = [pc |-> "assume", job |-> Job("DEPLOY", d, u)]]
    /\ UNCHANGED <<mode, stale, jobs, wk, orphans, gauge, stops, tfVars>>

\* The INSERT commits but its reply is lost: the handler answers 500 and leaves.
DeployReplyLost(r, d, u) ==
    /\ WriteFaults
    /\ Free(r)
    /\ CreateDeployment(d, u)
    /\ stale' = stale \cup {d}
    /\ UNCHANGED <<mode, req, jobs, wk, orphans, gauge, stops, tfVars>>

\* The row is read and its status accepted; the write comes later.
BeginDestroy(r, d, u, refused) ==
    /\ Free(r)
    /\ Present(d)
    /\ status[d] \notin refused
    /\ req' = [req EXCEPT ![r] = [pc |-> "write", job |-> Job("DESTROY", d, u)]]
    /\ UNCHANGED <<mode, dbVars, jobs, wk, orphans, gauge, stops, tfVars>>

Destroy(r, d, u) == BeginDestroy(r, d, u, {"DESTROYING", "DESTROYED"})

\* The credentials are those of the administrator's own role.
AdminTerminate(r, d, u) ==
    /\ u \in Admins
    /\ BeginDestroy(r, d, u, {"DESTROYING", "DESTROYED", "FAILED", "SLEEPING"})

MarkDestroying(r) ==
    /\ req[r].pc = "write"
    /\ UpdateStatus(req[r].job.dep, "DESTROYING")
    /\ req' = [req EXCEPT ![r].pc = "assume"]
    /\ UNCHANGED <<mode, jobs, wk, orphans, gauge, stops, tfVars>>

AssumeRole(r) ==
    /\ req[r].pc = "assume"
    /\ req' = [req EXCEPT ![r].pc = "push"]
    /\ UNCHANGED <<mode, dbVars, jobs, wk, orphans, gauge, stops, tfVars>>

FailedStatus(job) == IF job.type = "DESTROY" THEN "DESTROY_FAILED" ELSE "FAILED"

\* Mutant: the handler returns without marking the row.
AssumeRoleFailsUnmarked(r) ==
    /\ req[r].pc = "assume"
    /\ req' = [req EXCEPT ![r] = Idle]
    /\ UNCHANGED <<mode, dbVars, jobs, wk, orphans, gauge, stops, tfVars>>

AssumeRoleFails(r) ==
    /\ req[r].pc = "assume"
    /\ UpdateStatus(req[r].job.dep, FailedStatus(req[r].job))
    /\ req' = [req EXCEPT ![r] = Idle]
    /\ UNCHANGED <<mode, jobs, wk, orphans, gauge, stops, tfVars>>

\* Mutant: an unbounded list in place of the channel.
PushUnbounded(r) ==
    /\ req[r].pc = "push"
    /\ jobs' = Append(jobs, req[r].job)
    /\ req' = [req EXCEPT ![r] = Idle]
    /\ UNCHANGED <<mode, dbVars, wk, orphans, gauge, stops, tfVars>>

\* The handler blocks while the channel is full.
Push(r) ==
    /\ req[r].pc = "push"
    /\ Len(jobs) < QCap
    /\ jobs' = Append(jobs, req[r].job)
    /\ req' = [req EXCEPT ![r] = Idle]
    /\ UNCHANGED <<mode, dbVars, wk, orphans, gauge, stops, tfVars>>

\* The callback writes what it is told, whatever the row says.
WebhookUpdate(d, s) ==
    /\ mode # "down"
    /\ Present(d)
    /\ status' = [status EXCEPT ![d] = s]
    /\ stale' = stale \ {d}
    /\ stamped' = IF s = "DESTROYED" THEN stamped \cup {d} ELSE stamped
    /\ UNCHANGED <<mode, owner, req, jobs, wk, orphans, gauge, stops, tfVars>>

-----------------------------------------------------------------------------
(* Workers.                                                                *)

Goto(w, pc) == wk' = [wk EXCEPT ![w].pc = pc]

Take(w) ==
    /\ mode # "down"
    /\ wk[w].pc = "idle"
    /\ jobs # <<>>
    /\ wk' = [wk EXCEPT ![w] = [pc |-> "prepare", job |-> Head(jobs)]]
    /\ jobs' = Tail(jobs)
    /\ UNCHANGED <<mode, dbVars, req, orphans, gauge, stops, tfVars>>

\* Make the directory; a deploy also finds velzion.yaml and copies main.tf.
Prepare(w) ==
    /\ wk[w].pc = "prepare"
    /\ IF wk[w].job.type = "DEPLOY" THEN WriteConfig(wk[w].job.dep) ELSE UNCHANGED tfVars
    /\ Goto(w, "start")
    /\ UNCHANGED <<mode, dbVars, req, jobs, orphans, gauge, stops>>

\* No velzion.yaml, no main.tf, `terraform init` fails, the state is locked, ...
StepFails(w) ==
    /\ wk[w].pc \in {"prepare", "start"}
    /\ Goto(w, "failed")
    /\ UNCHANGED <<mode, dbVars, req, jobs, orphans, gauge, stops, tfVars>>

Locked(d) ==
    \/ \E w \in Workers : wk[w].pc = "run" /\ wk[w].job.dep = d
    \/ \E o \in orphans : o.pc = "run" /\ o.job.dep = d

\* Mutant: terraform runs with -lock=false.
StartTerraformUnlocked(w) ==
    /\ wk[w].pc = "start"
    /\ wk[w].job.dep \in configured
    /\ Goto(w, "run")
    /\ UNCHANGED <<mode, dbVars, req, jobs, orphans, gauge, stops, tfVars>>

\* `terraform init` succeeds, main.tf declares the variables of the command line,
\* and apply or destroy takes the state lock.
StartTerraform(w) ==
    /\ wk[w].pc = "start"
    /\ wk[w].job.dep \in configured
    /\ ~Locked(wk[w].job.dep)
    /\ Goto(w, "run")
    /\ UNCHANGED <<mode, dbVars, req, jobs, orphans, gauge, stops, tfVars>>

Mine(job) == job.creds = owner[job.dep]

TerraformEnds(job, pc, ok) ==
    IF job.type = "DEPLOY" THEN ApplyEnds(job.dep, pc = "run", ok)
                           ELSE DestroyEnds(job.dep, pc = "run", Mine(job), ok)

\* Mutant: the directory is removed after a failed destroy as well.
EndTerraformAlwaysCleans(w, ok) ==
    /\ wk[w].pc \in Running
    /\ TerraformEnds(wk[w].job, wk[w].pc, ok)
    /\ Goto(w, IF wk[w].job.type = "DESTROY" THEN "cleanup" ELSE IF ok THEN "done" ELSE "failed")
    /\ UNCHANGED <<mode, dbVars, req, jobs, orphans, gauge, stops>>

EndTerraform(w, ok) ==
    /\ wk[w].pc \in Running
    /\ TerraformEnds(wk[w].job, wk[w].pc, ok)
    /\ Goto(w, IF ~ok THEN "failed"
               ELSE IF wk[w].job.type = "DESTROY" THEN "cleanup" ELSE "done")
    /\ UNCHANGED <<mode, dbVars, req, jobs, orphans, gauge, stops>>

Detach(p, d) == IF p.pc = "run" /\ p.job.dep = d THEN [p EXCEPT !.pc = "detached"] ELSE p

\* The directory goes, also under a terraform run that has just started in it.
RemoveWorkspace(w) ==
    LET d == wk[w].job.dep IN
    /\ wk[w].pc = "cleanup"
    /\ RemoveDirectory(d)
    /\ wk' = [v \in Workers |-> IF v = w THEN [wk[v] EXCEPT !.pc = "done"]
                                         ELSE Detach(wk[v], d)]
    /\ orphans' = {Detach(o, d) : o \in orphans}
    /\ UNCHANGED <<mode, dbVars, req, jobs, gauge, stops>>

\* Mutant: a failure is written for destroys alone.
FinishFailedDestroysOnly(w) ==
    /\ wk[w].pc = "failed"
    /\ IF wk[w].job.type = "DESTROY"
       THEN UpdateStatusAndError(wk[w].job.dep, "DESTROY_FAILED")
       ELSE UNCHANGED dbVars
    /\ wk' = [wk EXCEPT ![w] = Idle]
    /\ UNCHANGED <<mode, req, jobs, orphans, gauge, stops, tfVars>>

\* Mutant: the worker's goroutine returns on a failure instead of going on.
FinishFailedReturns(w) ==
    /\ wk[w].pc = "failed"
    /\ UpdateStatusAndError(wk[w].job.dep, FailedStatus(wk[w].job))
    /\ Goto(w, "returned")
    /\ UNCHANGED <<mode, req, jobs, orphans, gauge, stops, tfVars>>

\* Mutant: a failed job is queued again.
FinishFailedRetries(w) ==
    /\ wk[w].pc = "failed"
    /\ Len(jobs) < QCap
    /\ UpdateStatusAndError(wk[w].job.dep, FailedStatus(wk[w].job))
    /\ jobs' = Append(jobs, wk[w].job)
    /\ wk' = [wk EXCEPT ![w] = Idle]
    /\ UNCHANGED <<mode, req, orphans, gauge, stops, tfVars>>

FinishFailed(w) ==
    /\ wk[w].pc = "failed"
    /\ UpdateStatusAndError(wk[w].job.dep, FailedStatus(wk[w].job))
    /\ wk' = [wk EXCEPT ![w] = Idle]
    /\ UNCHANGED <<mode, req, jobs, orphans, gauge, stops, tfVars>>

\* A deployment that succeeded gets no status here: its server is to report.
FinishDeploy(w) ==
    /\ wk[w].pc = "done" /\ wk[w].job.type = "DEPLOY"
    /\ gauge' = gauge + 1
    /\ wk' = [wk EXCEPT ![w] = Idle]
    /\ UNCHANGED <<mode, dbVars, req, jobs, orphans, stops, tfVars>>

\* Mutant: a destroy that succeeded writes no status, like a deploy.
FinishDestroyUnmarked(w) ==
    /\ wk[w].pc = "done" /\ wk[w].job.type = "DESTROY"
    /\ gauge' = gauge - 1
    /\ wk' = [wk EXCEPT ![w] = Idle]
    /\ UNCHANGED <<mode, dbVars, req, jobs, orphans, stops, tfVars>>

FinishDestroy(w) ==
    /\ wk[w].pc = "done" /\ wk[w].job.type = "DESTROY"
    /\ gauge' = gauge - 1
    /\ UpdateStatusAndError(wk[w].job.dep, "DESTROYED")
    /\ wk' = [wk EXCEPT ![w] = Idle]
    /\ UNCHANGED <<mode, req, jobs, orphans, stops, tfVars>>

-----------------------------------------------------------------------------
(* The process: a crash, a shutdown that does not drain the queue, a boot. *)

\* Handlers, queue and workers vanish; a terraform run is a process of its own.
Stop ==
    /\ mode' = "down"
    /\ req' = [r \in Reqs |-> Idle]
    /\ jobs' = <<>>
    /\ orphans' = orphans \cup {wk[w] : w \in {v \in Workers : wk[v].pc \in Running}}
    /\ wk' = [w \in Workers |-> Idle]
    /\ UNCHANGED <<dbVars, gauge, tfVars>>

Crash ==
    /\ mode = "up" /\ stops < MaxStops
    /\ stops' = stops + 1
    /\ Stop

\* SIGTERM: the listener closes, handlers have five seconds to finish ...
Shutdown ==
    /\ mode = "up" /\ stops < MaxStops
    /\ stops' = stops + 1
    /\ mode' = "draining"
    /\ UNCHANGED <<dbVars, req, jobs, wk, orphans, gauge, tfVars>>

\* ... and main returns, whatever the queue and the workers hold.
Exit ==
    /\ mode = "draining"
    /\ Stop
    /\ UNCHANGED stops

\* Recovery runs before the queue and the workers exist.
Boot ==
    /\ mode = "down"
    /\ RecoverOrphanedDeployments
    /\ mode' = "up"
    /\ gauge' = 0
    /\ UNCHANGED <<req, jobs, wk, orphans, stops, tfVars>>

OrphanEnds(o, ok) ==
    /\ TerraformEnds(o.job, o.pc, ok)
    /\ orphans' = orphans \ {o}
    /\ UNCHANGED <<mode, dbVars, req, jobs, wk, gauge, stops>>

OrphanKilled(o) ==
    /\ o.job.type = "DEPLOY"
    /\ ApplyKilled(o.job.dep, o.pc = "run")
    /\ orphans' = orphans \ {o}
    /\ UNCHANGED <<mode, dbVars, req, jobs, wk, gauge, stops>>

-----------------------------------------------------------------------------
(* Other services on the same table.                                       *)

\* telemetry: POST /api/admin/reconcile
Reconcile ==
    /\ \E d \in Deployments : InFlight(d)
    /\ FailInFlight
    /\ UNCHANGED <<mode, req, jobs, wk, orphans, gauge, stops, tfVars>>

\* auth: DeleteUser deletes the rows of one user, FactoryReset all rows.
DeleteRows(us) ==
    /\ status' = [d \in Deployments |->
                    IF Present(d) /\ owner[d] \in us THEN "gone" ELSE status[d]]
    /\ stale' = {d \in stale : owner[d] \notin us}
    /\ stamped' = {d \in stamped : owner[d] \notin us}
    /\ UNCHANGED <<mode, owner, req, jobs, wk, orphans, gauge, stops, tfVars>>

-----------------------------------------------------------------------------

Handler(r) ==
    \/ \E d \in Deployments, u \in Users :
          \/ Deploy(r, d, u) \/ DeployReplyLost(r, d, u)
          \/ Destroy(r, d, u) \/ AdminTerminate(r, d, u)
    \/ MarkDestroying(r)
    \/ AssumeRole(r)
    \/ AssumeRoleFails(r)
    \/ Push(r)

Worker(w) ==
    \/ Take(w)
    \/ Prepare(w)
    \/ StepFails(w)
    \/ StartTerraform(w)
    \/ \E ok \in BOOLEAN : EndTerraform(w, ok)
    \/ RemoveWorkspace(w)
    \/ FinishFailed(w)
    \/ FinishDeploy(w)
    \/ FinishDestroy(w)

Process == Crash \/ Shutdown \/ Exit \/ Boot

Environment ==
    \/ \E d \in Deployments, s \in WebhookStatuses : WebhookUpdate(d, s)
    \/ \E o \in orphans : OrphanKilled(o) \/ \E ok \in BOOLEAN : OrphanEnds(o, ok)
    \/ Reconcile
    \/ \E us \in {{u} : u \in Users} \cup {Users} : DeleteRows(us)

Next ==
    \/ \E r \in Reqs : Handler(r)
    \/ \E w \in Workers : Worker(w)
    \/ Process
    \/ Environment

Spec == Init /\ [][Next]_vars

(****************************************************************************)
(* Fairness.  A handler past its first database call goes on, a worker      *)
(* takes its next step, a terraform run ends, a stopped process is started  *)
(* again and a shutdown completes.  A blocked Push gets its turn although   *)
(* others compete for the slot: Go queues blocked senders first in, first   *)
(* out.  Nothing makes a request arrive, a step succeed or a write land.    *)
(****************************************************************************)
Fairness ==
    /\ \A r \in Reqs : /\ WF_vars(MarkDestroying(r))
                       /\ WF_vars(AssumeRole(r) \/ AssumeRoleFails(r))
                       /\ SF_vars(Push(r))
    /\ \A w \in Workers : WF_vars(Worker(w))
    /\ WF_vars(Boot)
    /\ WF_vars(Exit)

FairSpec == Spec /\ Fairness

-----------------------------------------------------------------------------
(* Properties.                                                             *)

\* The job is with a handler that has written the row, in the channel, or with a
\* worker.
Held(j) ==
    \/ \E r \in Reqs : req[r].pc \in {"assume", "push"} /\ req[r].job = j
    \/ \E i \in DOMAIN jobs : jobs[i] = j
    \/ \E w \in Workers : wk[w].pc # "idle" /\ wk[w].job = j

JobFor(t, d) == \E u \in Users : Held(Job(t, d, u))

\* A row says DESTROYING only while a destroy job for it is on its way, or the
\* write that was to replace that status was lost: no failure of a role, a full
\* channel, a terraform error, a second request, a crash or a shutdown strands it.
DestroyingOwned ==
    mode # "down" =>
        \A d \in Deployments :
            status[d] = "DESTROYING" /\ d \notin stale => JobFor("DESTROY", d)

\* A row says PROVISIONING only while its deploy job is on its way or its server
\* exists (velzard writes no status when a deploy succeeds), or a write was lost.
ProvisioningAccounted ==
    mode # "down" =>
        \A d \in Deployments :
            status[d] = "PROVISIONING" /\ d \notin stale =>
                JobFor("DEPLOY", d) \/ d \in live

\* The strengthening that makes the two inductive: a job is about a row that was
\* inserted, a destroy job about a row that has left PROVISIONING, and a deploy job
\* that ended well has left a server behind.
JobsHaveRows ==
    /\ \A j \in Jobs : Held(j) => status[j.dep] # "none"
    /\ \A r \in Reqs : req[r].pc = "write" => status[req[r].job.dep] # "none"
    /\ \A o \in orphans : status[o.job.dep] # "none"

LeftProvisioning(d) == status[d] # "PROVISIONING" \/ d \in stale

DestroyJobsAccepted ==
    /\ \A j \in Jobs : j.type = "DESTROY" /\ Held(j) => LeftProvisioning(j.dep)
    /\ \A o \in orphans : o.job.type = "DESTROY" => LeftProvisioning(o.job.dep)

WritingIsDestroying ==
    \A r \in Reqs : req[r].pc = "write" => req[r].job.type = "DESTROY"

DeploysLeaveServers ==
    \A w \in Workers :
        /\ wk[w].pc = "done" /\ wk[w].job.type = "DEPLOY" =>
             LeftProvisioning(wk[w].job.dep) \/ wk[w].job.dep \in live
        /\ wk[w].pc = "cleanup" => wk[w].job.type = "DESTROY"

IInv ==
    /\ TypeOK
    /\ JobsHaveRows
    /\ DestroyJobsAccepted
    /\ WritingIsDestroying
    /\ DeploysLeaveServers
    /\ DestroyingOwned
    /\ ProvisioningAccounted

\* A server that exists can still be destroyed through its row, unless the row was
\* deleted: the directory tracks the server, and the row does not claim that it is
\* gone.  This is what one worker and one account give until the first stop.
LiveReclaimable ==
    stops = 0 => strays = {} /\ \A d \in tracked : status[d] # "DESTROYED"

\* After a stop too, with one worker and one account, a server is lost only by killing
\* an apply that outlived its process: recovery forgets that terraform still runs in the
\* directory of a row, and the lock on the state file is all that keeps the next jobs of
\* that row out of it.
LostOnlyByKills ==
    [][\A d \in strays' \ strays :
          \E o \in orphans \ orphans' :
             o.pc = "run" /\ o.job.type = "DEPLOY" /\ o.job.dep = d]_vars

\* DESTROYING is left again, unless the write that leaves it is lost.
DestroyResolves ==
    \A d \in Deployments :
        status[d] = "DESTROYING" /\ d \notin stale
            ~> status[d] # "DESTROYING" \/ d \in stale

\* A deployment accepted as PROVISIONING fails, gets its server, or is changed by
\* somebody else, unless a write is lost.
DeployResolves ==
    \A d \in Deployments :
        status[d] = "PROVISIONING" /\ d \notin stale
            ~> status[d] # "PROVISIONING" \/ d \in stale \/ d \in live

\* A handler blocked on the full channel gets through, or its process stops.
PushCompletes == \A r \in Reqs : req[r].pc = "push" ~> req[r].pc # "push"

\* The engine implements the pool of WorkerPool: whatever its handlers, failures,
\* restarts and the database do, accepted jobs are begun once and in order, finish,
\* and are lost only with the process.
Pool == INSTANCE WorkerPool WITH
            Capacity <- QCap,
            waiting <- jobs,
            busy <- [w \in Workers |-> wk[w].job]

ImplementsPool == Pool!Spec

-----------------------------------------------------------------------------
(* What the documents say and the code does not do.                        *)

\* The gauge is the "current number of active environments".
GaugeNonNegative == gauge >= 0

\* destroyed_at is set on the transition to DESTROYED, whoever writes it.
DestroyedIsStamped ==
    \A d \in Deployments : status[d] = "DESTROYED" => d \in stamped

\* A second terminate of the same deployment is refused: never two destroy jobs.
OneDestroyJob ==
    ~ \E v, w \in Workers :
        /\ v # w
        /\ wk[v].pc # "idle" /\ wk[w].pc # "idle"
        /\ wk[v].job.dep = wk[w].job.dep
        /\ wk[v].job.type = "DESTROY" /\ wk[w].job.type = "DESTROY"

\* SPECS.md: reconciliation fails the ghosts, rows that no goroutine works for.
ReconcileFailsGhosts ==
    [][Reconcile => \A d \in Deployments :
          InFlight(d) => ~ \E w \in Workers : wk[w].pc # "idle" /\ wk[w].job.dep = d]_vars
=============================================================================
