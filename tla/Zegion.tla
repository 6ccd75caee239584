-------------------------------- MODULE Zegion --------------------------------
(****************************************************************************)
(* The ephemeral engine (src/services/zegion): one environment for each     *)
(* pull request.  Unlike a deployment of velzard, a row and its directory   *)
(* are used again and again: every delivery about the pull request upserts  *)
(* the same row and queues one more job for it.  GitHub may deliver twice   *)
(* or late, so a delivery of any kind may arrive at any time.               *)
(*                                                                          *)
(* A user stands for the AWS account of the user's bound IAM role.  The     *)
(* active-environments gauge, an unbounded counter that nothing reads, is   *)
(* left to Velzard.  A request that is refused changes nothing and is a     *)
(* stuttering step.                                                         *)
(****************************************************************************)
EXTENDS Sequences, FiniteSets, Terraform

CONSTANTS
    PullRequests,       \* a repository and a number
    Reqs,               \* handler goroutines; one is free again after its reply
    Workers,            \* worker goroutines
    Users,              \* users, and the AWS accounts their roles lead to
    QCap,               \* capacity of the job channel
    WriteFaults,        \* can a status write be lost?
    MaxStops,           \* bound on crashes and shutdowns
    NoJob               \* no job

\* "none": the id is not generated yet; "gone": the row has been deleted.
\* Nothing writes "TERMINATED" and "SLEEPING", which AdminTerminate refuses.
Statuses == {"none", "PROVISIONING", "BUILT", "FAILED", "DESTROYING",
             "DESTROY_FAILED", "DESTROYED", "TERMINATED", "SLEEPING", "gone"}

Jobs == [type : {"PROVISION", "DESTROY"}, env : Envs, creds : Users]

ASSUME ZegionAssumption ==
    /\ QCap \in Nat \ {0}
    /\ MaxStops \in Nat
    /\ WriteFaults \in BOOLEAN
    /\ NoJob \notin Jobs

VARIABLES
    mode,               \* the process: "up", "draining" after SIGTERM, "down"
    status,             \* ephemeral_environments.status
    owner,              \* ephemeral_environments.user_id
    pr,                 \* ephemeral_environments.(github_repo_url, pr_number)
    req,                \* per handler goroutine, where it is and its job
    jobs,               \* the job channel
    wk,                 \* per worker goroutine, where it is and its job
    orphans,            \* terraform runs that outlived the process
    stops,              \* crashes and shutdowns so far
    stale,              \* auxiliary: rows that missed their latest status write
    stranded            \* auxiliary: rows in flight with no job left to settle them

dbVars == <<status, owner, pr, stale, stranded>>
vars == <<mode, dbVars, req, jobs, wk, orphans, stops, tfVars>>

Idle == [pc |-> "idle", job |-> NoJob]

\* A worker's pc "run" is a terraform run in its directory, "detached" one whose
\* directory was removed under it.
Running == {"run", "detached"}

TypeOK ==
    /\ TerraformTypeOK
    /\ mode \in {"up", "draining", "down"}
    /\ status \in [Envs -> Statuses]
    /\ owner \in [Envs -> Users \cup {"none"}]
    /\ pr \in [Envs -> PullRequests \cup {"none"}]
    /\ req \in [Reqs -> {Idle} \cup
                  [pc : {"write", "adminwrite", "marked", "delivered", "push"}, job : Jobs]]
    /\ jobs \in Seq(Jobs)
    /\ Len(jobs) <= QCap
    /\ wk \in [Workers -> {Idle} \cup
                 [pc : {"prepare", "start", "cleanup", "done", "failed"} \cup Running,
                  job : Jobs]]
    /\ orphans \subseteq [pc : Running, job : Jobs]
    /\ stops \in 0 .. MaxStops
    /\ stale \subseteq Envs
    /\ stranded \subseteq Envs

Init ==
    /\ TerraformInit
    /\ mode = "up"
    /\ status = [e \in Envs |-> "none"]
    /\ owner = [e \in Envs |-> "none"]
    /\ pr = [e \in Envs |-> "none"]
    /\ req = [r \in Reqs |-> Idle]
    /\ jobs = <<>>
    /\ wk = [w \in Workers |-> Idle]
    /\ orphans = {}
    /\ stops = 0
    /\ stale = {}
    /\ stranded = {}

-----------------------------------------------------------------------------
(* The ephemeral_environments table.                                       *)

Present(e) == status[e] \notin {"none", "gone"}

\* A row takes a status, and what was lost or left before no longer matters.
Put(e, s) ==
    /\ status' = [status EXCEPT ![e] = s]
    /\ stale' = stale \ {e}
    /\ stranded' = stranded \ {e}

Miss(e) == stale' = stale \cup {e} /\ UNCHANGED <<status, stranded>>

\* UpdateStatus and UpdateStatusAndError; every caller drops the error.
UpdateStatus(e, s) ==
    /\ IF Present(e) THEN Put(e, s) \/ (WriteFaults /\ Miss(e))
                     ELSE UNCHANGED <<status, stale, stranded>>
    /\ UNCHANGED <<owner, pr>>

\* The row is one of this user and this pull request, or is new.
RowFor(e, u, p) ==
    IF \E f \in Envs : Present(f) /\ owner[f] = u /\ pr[f] = p
    THEN Present(e) /\ owner[e] = u /\ pr[e] = p
    ELSE status[e] = "none"

\* INSERT ... ON CONFLICT DO UPDATE: the status is taken, whatever it was.
UpsertEnvironment(e, u, p, s) ==
    /\ RowFor(e, u, p)
    /\ Put(e, s)
    /\ owner' = [owner EXCEPT ![e] = u]
    /\ pr' = [pr EXCEPT ![e] = p]

InFlight(e) == status[e] \in {"PROVISIONING", "DESTROYING"}

FailInFlight ==
    /\ status' = [e \in Envs |-> IF InFlight(e) THEN "FAILED" ELSE status[e]]
    /\ stale' = {e \in stale : ~InFlight(e)}
    /\ stranded' = {e \in stranded : ~InFlight(e)}
    /\ UNCHANGED <<owner, pr>>

\* Mutant: recovery looks for PROVISIONING rows alone.
RecoverProvisionsOnly ==
    /\ status' = [e \in Envs |-> IF status[e] = "PROVISIONING" THEN "FAILED" ELSE status[e]]
    /\ UNCHANGED <<owner, pr, stale, stranded>>

\* Mutant: recovery looks for DESTROYING rows alone.
RecoverDestroysOnly ==
    /\ status' = [e \in Envs |-> IF status[e] = "DESTROYING" THEN "FAILED" ELSE status[e]]
    /\ UNCHANGED <<owner, pr, stale, stranded>>

\* An error here is only logged: the rows keep the status they had.
RecoverOrphanedEnvironments ==
    \/ FailInFlight
    \/ /\ WriteFaults
       /\ stale' = stale \cup {e \in Envs : InFlight(e)}
       /\ UNCHANGED <<status, owner, pr, stranded>>

-----------------------------------------------------------------------------
(* Where jobs are.                                                         *)

Job(t, e, u) == [type |-> t, env |-> e, creds |-> u]

\* The job is with a handler past its status write, in the channel, or with a
\* worker.
Held(j) ==
    \/ \E r \in Reqs : req[r].pc \in {"marked", "delivered", "push"} /\ req[r].job = j
    \/ \E i \in DOMAIN jobs : jobs[i] = j
    \/ \E w \in Workers : wk[w].pc # "idle" /\ wk[w].job = j

JobFor(t, e) == \E u \in Users : Held(Job(t, e, u))

\* A job is on its way that will write the status of the row or provision a server:
\* its handler has only STS ahead, or it is queued, or with a worker.  A provision that
\* succeeded writes nothing more.
Settling(e) ==
    \/ \E r \in Reqs : req[r].pc \in {"delivered", "push"} /\ req[r].job.env = e
    \/ \E i \in DOMAIN jobs : jobs[i].env = e
    \/ \E w \in Workers : /\ wk[w].pc # "idle"
                         /\ wk[w].job.env = e
                         /\ (wk[w].job.type = "DESTROY" \/ wk[w].pc # "done")

-----------------------------------------------------------------------------
(* Handlers.  Between two calls any other step may happen.                 *)

\* A request accepted before SIGTERM may make its first call while draining.
Free(r) == mode # "down" /\ req[r].pc = "idle"

StatusOf(t) == IF t = "DESTROY" THEN "DESTROYING" ELSE "PROVISIONING"

\* opened, synchronize and reopened provision, closed destroys.  u is the user
\* that the repository owner's login leads to.
GithubWebhook(r, e, u, p, t) ==
    /\ Free(r)
    /\ UpsertEnvironment(e, u, p, StatusOf(t))
    /\ req' = [req EXCEPT ![r] = [pc |-> "delivered", job |-> Job(t, e, u)]]
    /\ UNCHANGED <<mode, jobs, wk, orphans, stops, tfVars>>

\* The upsert commits but its reply is lost: the handler answers 500 and leaves.
UpsertReplyLost(r, e, u, p, t) ==
    /\ WriteFaults
    /\ Free(r)
    /\ RowFor(e, u, p)
    /\ status' = [status EXCEPT ![e] = StatusOf(t)]
    /\ stale' = stale \cup {e}
    /\ owner' = [owner EXCEPT ![e] = u]
    /\ pr' = [pr EXCEPT ![e] = p]
    /\ UNCHANGED <<mode, stranded, req, jobs, wk, orphans, stops, tfVars>>

\* A row is read and its status accepted; the write comes later.
ReadRow(r, e, u, refused, pc) ==
    /\ Free(r)
    /\ Present(e)
    /\ status[e] \notin refused
    /\ req' = [req EXCEPT ![r] = [pc |-> pc, job |-> Job("DESTROY", e, u)]]
    /\ UNCHANGED <<mode, dbVars, jobs, wk, orphans, stops, tfVars>>

\* Any user may name any environment; the role is the caller's own.
Terminate(r, e, u) == ReadRow(r, e, u, {"DESTROYING", "DESTROYED"}, "write")

AdminTerminate(r, e) ==
    ReadRow(r, e, owner[e],
            {"DESTROYING", "DESTROYED", "TERMINATED", "FAILED", "SLEEPING"}, "adminwrite")

MarkDestroying(r) ==
    /\ req[r].pc = "write"
    /\ UpdateStatus(req[r].job.env, "DESTROYING")
    /\ req' = [req EXCEPT ![r].pc = "marked"]
    /\ UNCHANGED <<mode, jobs, wk, orphans, stops, tfVars>>

\* GetEnvironment reads no user_id, so that the type assertion after the write
\* panics; net/http recovers and the request ends.
AdminMarkAndPanic(r) ==
    LET e == req[r].job.env IN
    /\ req[r].pc = "adminwrite"
    /\ \/ ~Present(e) /\ UNCHANGED dbVars
       \/ /\ Present(e)
          /\ status' = [status EXCEPT ![e] = "DESTROYING"]
          /\ stale' = stale \ {e}
          /\ stranded' = IF JobFor("DESTROY", e) THEN stranded \ {e} ELSE stranded \cup {e}
          /\ UNCHANGED <<owner, pr>>
       \/ WriteFaults /\ Present(e) /\ Miss(e) /\ UNCHANGED <<owner, pr>>
    /\ req' = [req EXCEPT ![r] = Idle]
    /\ UNCHANGED <<mode, jobs, wk, orphans, stops, tfVars>>

\* The caller's row is gone, has no role, or cannot be read: the row stays DESTROYING,
\* stranded unless another destroy job for it is held.
RoleMissing(r) ==
    /\ req[r].pc = "marked"
    /\ req' = [req EXCEPT ![r] = Idle]
    /\ UNCHANGED <<mode, status, owner, pr, stale, jobs, wk, orphans, stops, tfVars>>
    /\ stranded' = stranded \cup {e \in {req[r].job.env} :
                                    status[e] = "DESTROYING" /\ ~JobFor("DESTROY", e)'}

AssumeRole(r) ==
    /\ req[r].pc \in {"marked", "delivered"}
    /\ req' = [req EXCEPT ![r].pc = "push"]
    /\ UNCHANGED <<mode, dbVars, jobs, wk, orphans, stops, tfVars>>

\* Mutant: the webhook's handler returns without marking the row.
AssumeRoleFailsUnmarked(r) ==
    /\ req[r].pc \in {"marked", "delivered"}
    /\ IF req[r].pc = "marked" THEN UpdateStatus(req[r].job.env, "DESTROY_FAILED")
                               ELSE UNCHANGED dbVars
    /\ req' = [req EXCEPT ![r] = Idle]
    /\ UNCHANGED <<mode, jobs, wk, orphans, stops, tfVars>>

\* The webhook writes FAILED for a closed pull request as well.
AssumeRoleFails(r) ==
    /\ req[r].pc \in {"marked", "delivered"}
    /\ UpdateStatus(req[r].job.env, IF req[r].pc = "marked" THEN "DESTROY_FAILED" ELSE "FAILED")
    /\ req' = [req EXCEPT ![r] = Idle]
    /\ UNCHANGED <<mode, jobs, wk, orphans, stops, tfVars>>

\* Mutant: the channel has no limit.
PushUnbounded(r) ==
    /\ req[r].pc = "push"
    /\ jobs' = Append(jobs, req[r].job)
    /\ req' = [req EXCEPT ![r] = Idle]
    /\ UNCHANGED <<mode, dbVars, wk, orphans, stops, tfVars>>

\* The handler blocks while the channel is full.
Push(r) ==
    /\ req[r].pc = "push"
    /\ Len(jobs) < QCap
    /\ jobs' = Append(jobs, req[r].job)
    /\ req' = [req EXCEPT ![r] = Idle]
    /\ UNCHANGED <<mode, dbVars, wk, orphans, stops, tfVars>>

\* EC2Webhook: a report names a pull request, not a row, and hits each of its rows.
MarkBuilt(p) ==
    LET rows == {e \in Envs : Present(e) /\ pr[e] = p} IN
    /\ mode # "down"
    /\ status' = [e \in Envs |-> IF e \in rows THEN "BUILT" ELSE status[e]]
    /\ stale' = stale \ rows
    /\ stranded' = stranded \ rows
    /\ UNCHANGED <<mode, owner, pr, req, jobs, wk, orphans, stops, tfVars>>

-----------------------------------------------------------------------------
(* Workers.                                                                *)

Goto(w, pc) == wk' = [wk EXCEPT ![w].pc = pc]

Take(w) ==
    /\ mode # "down"
    /\ wk[w].pc = "idle"
    /\ jobs # <<>>
    /\ wk' = [wk EXCEPT ![w] = [pc |-> "prepare", job |-> Head(jobs)]]
    /\ jobs' = Tail(jobs)
    /\ UNCHANGED <<mode, dbVars, req, orphans, stops, tfVars>>

\* Make the directory; a provision also copies main.tf.
Prepare(w) ==
    /\ wk[w].pc = "prepare"
    /\ IF wk[w].job.type = "PROVISION" THEN WriteConfig(wk[w].job.env) ELSE UNCHANGED tfVars
    /\ Goto(w, "start")
    /\ UNCHANGED <<mode, dbVars, req, jobs, orphans, stops>>

\* No main.tf, `terraform init` fails, the state is locked, ...
StepFails(w) ==
    /\ wk[w].pc \in {"prepare", "start"}
    /\ Goto(w, "failed")
    /\ UNCHANGED <<mode, dbVars, req, jobs, orphans, stops, tfVars>>

Locked(e) ==
    \E p \in orphans \cup {wk[w] : w \in Workers} : p.pc = "run" /\ p.job.env = e

\* Mutant: terraform runs with -lock=false.
StartTerraformUnlocked(w) ==
    /\ wk[w].pc = "start"
    /\ wk[w].job.env \in configured
    /\ Goto(w, "run")
    /\ UNCHANGED <<mode, dbVars, req, jobs, orphans, stops, tfVars>>

StartTerraform(w) ==
    /\ wk[w].pc = "start"
    /\ wk[w].job.env \in configured
    /\ ~Locked(wk[w].job.env)
    /\ Goto(w, "run")
    /\ UNCHANGED <<mode, dbVars, req, jobs, orphans, stops, tfVars>>

\* A pull request's provisions run with its owner's role, a terminate with the
\* caller's.
TerraformEnds(job, pc, ok) ==
    IF job.type = "PROVISION"
    THEN ApplyEnds(job.env, pc = "run", ok)
    ELSE DestroyEnds(job.env, pc = "run", job.creds = owner[job.env], ok)

\* Mutant: the directory is removed after a failed destroy as well.
EndTerraformAlwaysCleans(w, ok) ==
    /\ wk[w].pc \in Running
    /\ TerraformEnds(wk[w].job, wk[w].pc, ok)
    /\ Goto(w, IF wk[w].job.type = "DESTROY" THEN "cleanup" ELSE IF ok THEN "done" ELSE "failed")
    /\ UNCHANGED <<mode, dbVars, req, jobs, orphans, stops>>

EndTerraform(w, ok) ==
    /\ wk[w].pc \in Running
    /\ TerraformEnds(wk[w].job, wk[w].pc, ok)
    /\ Goto(w, IF ~ok THEN "failed"
               ELSE IF wk[w].job.type = "DESTROY" THEN "cleanup" ELSE "done")
    /\ UNCHANGED <<mode, dbVars, req, jobs, orphans, stops>>

Detach(p, e) == IF p.pc = "run" /\ p.job.env = e THEN [p EXCEPT !.pc = "detached"] ELSE p

\* The directory goes, also under a terraform run that has just started in it.
RemoveWorkspace(w) ==
    LET e == wk[w].job.env IN
    /\ wk[w].pc = "cleanup"
    /\ RemoveDirectory(e)
    /\ wk' = [v \in Workers |-> IF v = w THEN [wk[v] EXCEPT !.pc = "done"]
                                         ELSE Detach(wk[v], e)]
    /\ orphans' = {Detach(o, e) : o \in orphans}
    /\ UNCHANGED <<mode, dbVars, req, jobs, stops>>

\* Mutant: a failure is written for destroys alone.
FinishFailedDestroysOnly(w) ==
    /\ wk[w].pc = "failed"
    /\ IF wk[w].job.type = "DESTROY" THEN UpdateStatus(wk[w].job.env, "DESTROY_FAILED")
                                     ELSE UNCHANGED dbVars
    /\ wk' = [wk EXCEPT ![w] = Idle]
    /\ UNCHANGED <<mode, req, jobs, orphans, stops, tfVars>>

\* Mutant: the worker's goroutine returns on a failure instead of going on.
FinishFailedReturns(w) ==
    /\ wk[w].pc = "failed"
    /\ UpdateStatus(wk[w].job.env,
                    IF wk[w].job.type = "DESTROY" THEN "DESTROY_FAILED" ELSE "FAILED")
    /\ Goto(w, "returned")
    /\ UNCHANGED <<mode, req, jobs, orphans, stops, tfVars>>

FinishFailed(w) ==
    /\ wk[w].pc = "failed"
    /\ UpdateStatus(wk[w].job.env,
                    IF wk[w].job.type = "DESTROY" THEN "DESTROY_FAILED" ELSE "FAILED")
    /\ wk' = [wk EXCEPT ![w] = Idle]
    /\ UNCHANGED <<mode, req, jobs, orphans, stops, tfVars>>

\* No status is written for a provision that succeeded: its server is to report.
FinishProvision(w) ==
    /\ wk[w].pc = "done" /\ wk[w].job.type = "PROVISION"
    /\ wk' = [wk EXCEPT ![w] = Idle]
    /\ UNCHANGED <<mode, dbVars, req, jobs, orphans, stops, tfVars>>

\* Mutant: a destroy that succeeded writes no status, like a provision.
FinishDestroyUnmarked(w) ==
    /\ wk[w].pc = "done" /\ wk[w].job.type = "DESTROY"
    /\ wk' = [wk EXCEPT ![w] = Idle]
    /\ UNCHANGED <<mode, dbVars, req, jobs, orphans, stops, tfVars>>

FinishDestroy(w) ==
    /\ wk[w].pc = "done" /\ wk[w].job.type = "DESTROY"
    /\ UpdateStatus(wk[w].job.env, "DESTROYED")
    /\ wk' = [wk EXCEPT ![w] = Idle]
    /\ UNCHANGED <<mode, req, jobs, orphans, stops, tfVars>>

-----------------------------------------------------------------------------
(* The process, and other services on the same table.                      *)

\* Handlers, queue and workers vanish; a terraform run is a process of its own.
Stop ==
    /\ mode' = "down"
    /\ req' = [r \in Reqs |-> Idle]
    /\ jobs' = <<>>
    /\ orphans' = orphans \cup {wk[w] : w \in {v \in Workers : wk[v].pc \in Running}}
    /\ wk' = [w \in Workers |-> Idle]
    /\ UNCHANGED <<dbVars, tfVars>>

Crash ==
    /\ mode = "up" /\ stops < MaxStops
    /\ stops' = stops + 1
    /\ Stop

\* SIGTERM: the listener closes, handlers have five seconds to finish ...
Shutdown ==
    /\ mode = "up" /\ stops < MaxStops
    /\ stops' = stops + 1
    /\ mode' = "draining"
    /\ UNCHANGED <<dbVars, req, jobs, wk, orphans, tfVars>>

\* ... and main returns, whatever the queue and the workers hold.
Exit ==
    /\ mode = "draining"
    /\ Stop
    /\ UNCHANGED stops

\* Recovery runs before the queue and the workers exist.
Boot ==
    /\ mode = "down"
    /\ RecoverOrphanedEnvironments
    /\ mode' = "up"
    /\ UNCHANGED <<req, jobs, wk, orphans, stops, tfVars>>

\* A destroy that outlived its process writes no status: the row of a later delivery
\* whose provision had found the server still there is stranded, unless another job is
\* about to settle it.
OrphanEnds(o, ok) ==
    /\ TerraformEnds(o.job, o.pc, ok)
    /\ orphans' = orphans \ {o}
    /\ stranded' = stranded \cup {e \in live \ live' :
                                    status[e] = "PROVISIONING" /\ ~Settling(e)}
    /\ UNCHANGED <<mode, status, owner, pr, stale, req, jobs, wk, stops>>

OrphanKilled(o) ==
    /\ o.job.type = "PROVISION"
    /\ ApplyKilled(o.job.env, o.pc = "run")
    /\ orphans' = orphans \ {o}
    /\ UNCHANGED <<mode, dbVars, req, jobs, wk, stops>>

\* telemetry: POST /api/admin/reconcile
Reconcile ==
    /\ \E e \in Envs : InFlight(e)
    /\ FailInFlight
    /\ UNCHANGED <<mode, req, jobs, wk, orphans, stops, tfVars>>

\* auth: the rows of one user or all rows are deleted, also by the cascade from
\* the users table.
DeleteRows(us) ==
    LET rows == {e \in Envs : Present(e) /\ owner[e] \in us} IN
    /\ status' = [e \in Envs |-> IF e \in rows THEN "gone" ELSE status[e]]
    /\ stale' = stale \ rows
    /\ stranded' = stranded \ rows
    /\ UNCHANGED <<mode, owner, pr, req, jobs, wk, orphans, stops, tfVars>>

-----------------------------------------------------------------------------

Handler(r) ==
    \/ \E e \in Envs, u \in Users, p \in PullRequests, t \in {"PROVISION", "DESTROY"} :
          GithubWebhook(r, e, u, p, t) \/ UpsertReplyLost(r, e, u, p, t)
    \/ \E e \in Envs : AdminTerminate(r, e) \/ \E u \in Users : Terminate(r, e, u)
    \/ MarkDestroying(r)
    \/ AdminMarkAndPanic(r)
    \/ RoleMissing(r)
    \/ AssumeRole(r)
    \/ AssumeRoleFails(r)
    \/ Push(r)

Worker(w) ==
    \/ Take(w)
    \/ Prepare(w)
    \/ StepFails(w)
    \/ StartTerraform(w)
    \/ \E ok \in BOOLEAN : EndTerraform(w, ok)
    \/ RemoveWorkspace(w)
    \/ FinishFailed(w)
    \/ FinishProvision(w)
    \/ FinishDestroy(w)

Process == Crash \/ Shutdown \/ Exit \/ Boot

Environment ==
    \/ \E p \in PullRequests : MarkBuilt(p)
    \/ \E o \in orphans : OrphanKilled(o) \/ \E ok \in BOOLEAN : OrphanEnds(o, ok)
    \/ Reconcile
    \/ \E us \in {{u} : u \in Users} \cup {Users} : DeleteRows(us)

Next ==
    \/ \E r \in Reqs : Handler(r)
    \/ \E w \in Workers : Worker(w)
    \/ Process
    \/ Environment

Spec == Init /\ [][Next]_vars

(****************************************************************************)
(* Fairness, as for velzard: goroutines are scheduled and calls return, a   *)
(* terraform run ends, a stopped process is started again, and Go serves    *)
(* senders that block on a channel first in, first out.                     *)
(****************************************************************************)
Fairness ==
    /\ \A r \in Reqs : /\ WF_vars(MarkDestroying(r))
                       /\ WF_vars(AssumeRole(r) \/ AssumeRoleFails(r) \/ RoleMissing(r))
                       /\ SF_vars(Push(r))
    /\ \A w \in Workers : WF_vars(Worker(w))
    /\ WF_vars(Boot)
    /\ WF_vars(Exit)

FairSpec == Spec /\ Fairness

-----------------------------------------------------------------------------
(* Properties.                                                             *)

\* However deliveries, terminates, reports, failures and restarts mix on the one
\* row of a pull request, it says DESTROYING only while a destroy job is on its
\* way, but for lost writes and the two ways in which a handler leaves a row that has
\* no other destroy job.
DestroyingOwned ==
    mode # "down" =>
        \A e \in Envs :
            status[e] = "DESTROYING" /\ e \notin stale \cup stranded => JobFor("DESTROY", e)

\* The row says PROVISIONING only while a job of this pull request is on its way
\* that will settle it, or a server exists, or a write was lost, or a destroy that
\* outlived its process took the server when no such job was left.  (After a destroy that overtook the
\* delivery's provision the row is DESTROYED again.)
ProvisioningAccounted ==
    mode # "down" =>
        \A e \in Envs :
            status[e] = "PROVISIONING" /\ e \notin stale \cup stranded =>
                Settling(e) \/ e \in live

\* One worker and one account lose no server before the first stop, although jobs
\* of one pull request reuse, remove and make again one directory.
ServersTracked == stops = 0 => strays = {}

\* After a stop too, with one worker and one account, a server is lost only by killing
\* an apply that outlived its process: recovery forgets that terraform still runs in the
\* directory of a row, and the lock on the state file is all that keeps the next jobs of
\* that row out of it.
LostOnlyByKills ==
    [][\A e \in strays' \ strays :
          \E o \in orphans \ orphans' :
             o.pc = "run" /\ o.job.type = "PROVISION" /\ o.job.env = e]_vars

\* DESTROYING is left again, but for lost writes and stranded rows.
DestroyResolves ==
    \A e \in Envs :
        status[e] = "DESTROYING" /\ e \notin stale \cup stranded
            ~> status[e] # "DESTROYING" \/ e \in stale \cup stranded

\* A pull request accepted as PROVISIONING fails, has a server, or is changed by
\* somebody else, but for lost writes.
ProvisionResolves ==
    \A e \in Envs :
        status[e] = "PROVISIONING" /\ e \notin stale
            ~> status[e] # "PROVISIONING" \/ e \in stale \/ e \in live

\* The engine implements the pool of WorkerPool: whatever its handlers, failures,
\* restarts and the database do, accepted jobs are begun once and in order, finish,
\* and are lost only with the process.
Pool == INSTANCE WorkerPool WITH
            Capacity <- QCap,
            waiting <- jobs,
            busy <- [w \in Workers |-> wk[w].job]

ImplementsPool == Pool!Spec

-----------------------------------------------------------------------------
(* What the documents say and the code does not do.                        *)

Quiet(e) == ~JobFor("PROVISION", e) /\ ~JobFor("DESTROY", e)

\* A row that no job will change any more and that says DESTROYED has no server:
\* zegion answers "Already destroyed" when it is asked to terminate it.
AlreadyDestroyed == \A e \in Envs : status[e] = "DESTROYED" /\ Quiet(e) => e \notin live

\* A terminate that set DESTROYING has initiated the destruction.
ForceKillDestroys ==
    mode # "down" =>
        \A e \in Envs : status[e] = "DESTROYING" => JobFor("DESTROY", e)
=============================================================================
