------------------------ MODULE ZegionProvisionProofs ------------------------
(* Where the provisions of the ephemeral engine go: a row that says         *)
(* PROVISIONING is accounted for, for every value of the constants.         *)
EXTENDS ZegionProofs

-----------------------------------------------------------------------------
(* The inductive invariant.                                                *)

\* The row says a provision is on its way, or that its server is to report.
Promised(e) == status[e] = "PROVISIONING" /\ e \notin stale \cup stranded

\* The job is with a handler that will queue it or write the status of its row.
Brought(j) == \E r \in Reqs : req[r].pc \in {"delivered", "push"} /\ req[r].job = j

\* A job for the row has been accepted and no worker has begun it.
Coming(e) == \E j \in Jobs : j.env = e /\ (Brought(j) \/ Queued(j))

\* The worker's job is about the row and is not a provision that succeeded.
Serves(w, e) ==
    /\ wk[w].pc # "idle"
    /\ wk[w].job.env = e
    /\ (wk[w].job.type = "DESTROY" \/ wk[w].pc # "done")

Served(e) == \E w \in Workers : Serves(w, e)

Backed(e) == Coming(e) \/ Served(e) \/ e \in live

PromisesBacked == mode # "down" => \A e \in Envs : Promised(e) => Backed(e)

\* A row is being settled by a job that is coming or a worker that serves it.
LEMMA SettlingParts ==
    ASSUME TypeOK, NEW e \in Envs
    PROVE  Settling(e) <=> Coming(e) \/ Served(e)
<1>1. Coming(e) => Settling(e)
  BY DEF Coming, Brought, Queued, Settling
<1>2. ASSUME NEW r \in Reqs, req[r].pc \in {"delivered", "push"}, req[r].job.env = e
      PROVE  Coming(e)
  <2>1. req[r].job \in Jobs
    BY <1>2, JobTypes DEF Attempting
  <2> QED
    BY <1>2, <2>1 DEF Coming, Brought
<1>3. ASSUME NEW i \in DOMAIN jobs, jobs[i].env = e
      PROVE  Coming(e)
  <2>1. jobs[i] \in Jobs
    BY <1>3 DEF TypeOK
  <2> QED
    BY <1>3, <2>1 DEF Coming, Queued
<1> QED
  BY <1>1, <1>2, <1>3 DEF Settling, Served, Serves

PInv == IInv /\ PromisesBacked

\* A step keeps the invariant when it makes no promise without a provision, and takes
\* away what backs a row only when the row promises nothing afterwards.
LEMMA BackingSuffices ==
    ASSUME PromisesBacked,
           mode' # "down" => mode # "down",
           \A e \in Envs : Promised(e)' => Promised(e) \/ Backed(e)',
           \A e \in Envs : Backed(e) => Backed(e)' \/ ~ Promised(e)'
    PROVE  PromisesBacked'
<1> SUFFICES ASSUME mode' # "down", NEW e \in Envs, Promised(e)'
             PROVE  Backed(e)'
  BY DEF PromisesBacked
<1>1. CASE Promised(e)
  BY <1>1 DEF PromisesBacked
<1> QED
  BY <1>1

\* A status write other than PROVISIONING ends the promise of its row.
LEMMA WritesEndPromises ==
    ASSUME TypeOK, NEW e \in Envs, NEW s, s # "PROVISIONING", UpdateStatus(e, s)
    PROVE  ~ Promised(e)' /\ \A f \in Envs : Promised(f)' => Promised(f)
BY DEF TypeOK, UpdateStatus, Put, Miss, Present, Promised

-----------------------------------------------------------------------------
(* The steps of handlers.                                                  *)

\* What a handler's step leaves where it was.
LEMMA HandlerBacks ==
    ASSUME PInv, NEW r \in Reqs, NEW e \in Envs, NEW k, req[r].job = k,
           \A q \in Reqs : q # r => req'[q] = req[q],
           UNCHANGED <<wk, tfVars>>,
           \A j \in Jobs : Queued(j) => Queued(j)',
           \/ req[r].pc \notin {"delivered", "push"} \/ k.env # e
           \/ req'[r].pc \in {"delivered", "push"} /\ req'[r].job = k
           \/ Queued(k)'
           \/ ~ Promised(e)',
           Backed(e)
    PROVE  Backed(e)' \/ ~ Promised(e)'
<1> SUFFICES ASSUME Promised(e)'
             PROVE  Backed(e)'
  OBVIOUS
<1>1. CASE Coming(e)
  <2> PICK j \in Jobs : j.env = e /\ (Brought(j) \/ Queued(j))
    BY <1>1 DEF Coming
  <2>1. CASE Brought(j)
    <3> PICK q \in Reqs : req[q].pc \in {"delivered", "push"} /\ req[q].job = j
      BY <2>1 DEF Brought
    <3>1. Brought(j)' \/ Queued(j)'
      BY DEF Brought
    <3> QED
      BY <3>1 DEF Coming, Backed
  <2>2. CASE Queued(j)
    BY <2>2 DEF Coming, Backed
  <2> QED
    BY <2>1, <2>2
<1>2. CASE Served(e)
  BY <1>2 DEF Served, Serves, Backed
<1>3. CASE e \in live
  BY <1>3 DEF live, tfVars, Backed
<1> QED
  BY <1>1, <1>2, <1>3 DEF Backed

LEMMA HandlerBacked ==
    ASSUME PInv, NEW r \in Reqs, Handler(r)
    PROVE  PromisesBacked'
<1> USE DEF PInv, IInv
<1>0. /\ UNCHANGED <<mode, wk, tfVars>>
      /\ \A q \in Reqs : q # r => req'[q] = req[q]
  BY DEF Handler, GithubWebhook, UpsertReplyLost, Terminate, AdminTerminate, ReadRow,
         MarkDestroying, AdminMarkAndPanic, RoleMissing, AssumeRole, AssumeRoleFails, Push, TypeOK
<1>1. ASSUME NEW e \in Envs, NEW u \in Users, NEW p \in PullRequests,
             NEW t \in {"PROVISION", "DESTROY"}, GithubWebhook(r, e, u, p, t)
      PROVE  PromisesBacked'
  <2>1. \A f \in Envs : Backed(f) => Backed(f)' \/ ~ Promised(f)'
    <3>1. req[r].pc = "idle" /\ UNCHANGED jobs
      BY <1>1 DEF GithubWebhook, Free
    <3> QED
      BY <1>0, <3>1, HandlerBacks DEF Queued
  <2>2. \A f \in Envs : f # e => (Promised(f)' => Promised(f))
    BY <1>1 DEF GithubWebhook, UpsertEnvironment, Put, Promised, TypeOK
  <2>3. CASE t = "DESTROY"
    <3>1. ~ Promised(e)'
      BY <1>1, <2>3 DEF GithubWebhook, UpsertEnvironment, Put, Promised, TypeOK, StatusOf
    <3> QED
      BY <1>0, <2>1, <2>2, <3>1, BackingSuffices
  <2>4. CASE t = "PROVISION"
    <3> PICK j \in Jobs : j = Job("PROVISION", e, u)
      BY DEF Job, Jobs
    <3>1. req'[r].pc = "delivered" /\ req'[r].job = j
      BY <1>1, <2>4 DEF GithubWebhook, TypeOK
    <3>2. Brought(j)'
      BY <3>1 DEF Brought
    <3>3. j.env = e
      BY DEF Job
    <3>4. Backed(e)'
      BY <3>2, <3>3 DEF Coming, Backed
    <3> QED
      BY <1>0, <2>1, <2>2, <3>4, BackingSuffices
  <2> QED
    BY <2>3, <2>4
<1>2. ASSUME NEW e \in Envs, NEW u \in Users, NEW p \in PullRequests,
             NEW t \in {"PROVISION", "DESTROY"}, UpsertReplyLost(r, e, u, p, t)
      PROVE  PromisesBacked'
  <2>1. \A f \in Envs : Promised(f)' => Promised(f)
    BY <1>2 DEF UpsertReplyLost, Promised, TypeOK
  <2>2. req[r].pc = "idle" /\ UNCHANGED jobs
    BY <1>2 DEF UpsertReplyLost, Free
  <2>3. \A f \in Envs : Backed(f) => Backed(f)' \/ ~ Promised(f)'
    BY <1>0, <2>2, HandlerBacks DEF Queued
  <2> QED
    BY <1>0, <2>1, <2>3, BackingSuffices
<1>3. ASSUME NEW e \in Envs, NEW u, NEW refused, NEW pc, ReadRow(r, e, u, refused, pc)
      PROVE  PromisesBacked'
  <2>1. \A f \in Envs : Promised(f)' => Promised(f)
    BY <1>3 DEF ReadRow, Promised, dbVars
  <2>2. req[r].pc = "idle" /\ UNCHANGED jobs
    BY <1>3 DEF ReadRow, Free
  <2>3. \A f \in Envs : Backed(f) => Backed(f)' \/ ~ Promised(f)'
    BY <1>0, <2>2, HandlerBacks DEF Queued
  <2> QED
    BY <1>0, <2>1, <2>3, BackingSuffices
<1>4. CASE MarkDestroying(r) \/ AdminMarkAndPanic(r)
  <2> PICK e \in Envs : req[r].job.env = e
    BY <1>4, JobTypes DEF MarkDestroying, AdminMarkAndPanic
  <2>1. \A f \in Envs : Promised(f)' => Promised(f)
    <3>1. CASE MarkDestroying(r)
      BY <3>1, WritesEndPromises DEF MarkDestroying
    <3>2. CASE AdminMarkAndPanic(r)
      BY <3>2 DEF AdminMarkAndPanic, Miss, Promised, TypeOK, dbVars
    <3> QED
      BY <1>4, <3>1, <3>2
  <2>2. req[r].pc \in {"write", "adminwrite"} /\ UNCHANGED jobs
    BY <1>4 DEF MarkDestroying, AdminMarkAndPanic
  <2>3. \A f \in Envs : Backed(f) => Backed(f)' \/ ~ Promised(f)'
    BY <1>0, <2>2, HandlerBacks DEF Queued
  <2> QED
    BY <1>0, <2>1, <2>3, BackingSuffices
<1>5. CASE RoleMissing(r)
  <2>1. \A f \in Envs : Promised(f)' => Promised(f)
    BY <1>5 DEF RoleMissing, Promised
  <2>2. req[r].pc = "marked" /\ UNCHANGED jobs
    BY <1>5 DEF RoleMissing
  <2>3. \A f \in Envs : Backed(f) => Backed(f)' \/ ~ Promised(f)'
    BY <1>0, <2>2, HandlerBacks DEF Queued
  <2> QED
    BY <1>0, <2>1, <2>3, BackingSuffices
<1>6. CASE AssumeRole(r)
  <2>1. \A f \in Envs : Promised(f)' => Promised(f)
    BY <1>6 DEF AssumeRole, Promised, dbVars
  <2>2. req'[r].pc = "push" /\ req'[r].job = req[r].job /\ UNCHANGED jobs
    BY <1>6, JobTypes DEF AssumeRole, Attempting
  <2>3. \A f \in Envs : Backed(f) => Backed(f)' \/ ~ Promised(f)'
    BY <1>0, <2>2, HandlerBacks DEF Queued
  <2> QED
    BY <1>0, <2>1, <2>3, BackingSuffices
<1>7. CASE AssumeRoleFails(r)
  <2> PICK e \in Envs : req[r].job.env = e
    BY <1>7, JobTypes DEF AssumeRoleFails
  <2>1. UpdateStatus(e, "DESTROY_FAILED") \/ UpdateStatus(e, "FAILED")
    BY <1>7 DEF AssumeRoleFails
  <2>2. ~ Promised(e)' /\ \A f \in Envs : Promised(f)' => Promised(f)
    BY <2>1, WritesEndPromises
  <2>3. UNCHANGED jobs
    BY <1>7 DEF AssumeRoleFails
  <2>4. \A f \in Envs : Backed(f) => Backed(f)' \/ ~ Promised(f)'
    BY <1>0, <2>2, <2>3, HandlerBacks DEF Queued
  <2> QED
    BY <1>0, <2>2, <2>4, BackingSuffices
<1>8. CASE Push(r)
  <2>1. \A f \in Envs : Promised(f)' => Promised(f)
    BY <1>8 DEF Push, Promised, dbVars
  <2>2. req[r].job \in Jobs /\ jobs \in Seq(Jobs)
    BY <1>8, JobTypes DEF Push, Attempting, TypeOK
  <2>3. \A j \in Jobs : Queued(j)' <=> j = req[r].job \/ Queued(j)
    BY <1>8, <2>2, PushedJobs DEF Push, Queued
  <2> PICK k \in Jobs : k = req[r].job
    BY <2>2
  <2>4. Queued(k)'
    BY <2>3
  <2>5. \A f \in Envs : Backed(f) => Backed(f)' \/ ~ Promised(f)'
    BY <1>0, <2>3, <2>4, HandlerBacks
  <2> QED
    BY <1>0, <2>1, <2>5, BackingSuffices
<1> QED
  BY <1>1, <1>2, <1>3, <1>4, <1>5, <1>6, <1>7, <1>8 DEF Handler, Terminate, AdminTerminate

-----------------------------------------------------------------------------
(* The steps of workers.                                                   *)

\* A worker's step takes away only what the worker's own job backs.
LEMMA WorkerBacks ==
    ASSUME NEW w \in Workers, NEW e \in Envs,
           Coming(e) => Coming(e)' \/ Serves(w, e)',
           \A v \in Workers : v # w => (Serves(v, e) => Serves(v, e)'),
           Serves(w, e) => Serves(w, e)' \/ e \in live' \/ ~ Promised(e)',
           e \in live => e \in live' \/ Serves(w, e)',
           Backed(e)
    PROVE  Backed(e)' \/ ~ Promised(e)'
<1>1. CASE Coming(e)
  BY <1>1 DEF Served, Backed
<1>2. CASE Served(e)
  BY <1>2 DEF Served, Backed
<1>3. CASE e \in live
  BY <1>3 DEF Served, Backed
<1> QED
  BY <1>1, <1>2, <1>3 DEF Backed

\* What a worker's step leaves to the others.
LEMMA OthersServe ==
    ASSUME PInv, NEW w \in Workers, NEW e \in Envs,
           UNCHANGED <<req, jobs>>,
           \A v \in Workers : v # w => wk'[v] = wk[v]
    PROVE  /\ Coming(e) => Coming(e)'
           /\ \A v \in Workers : v # w => (Serves(v, e) => Serves(v, e)')
<1>1. \A j : UNCHANGED <<Brought(j), Queued(j)>>
  BY DEF Brought, Queued
<1>2. Coming(e) => Coming(e)'
  BY <1>1 DEF Coming
<1> QED
  BY <1>2 DEF Serves

\* A worker that moves to another pc, with the servers as they were.
LEMMA MoveBacks ==
    ASSUME PInv, NEW w \in Workers, NEW pc \in {"start", "failed", "run"},
           wk[w].pc \in {"prepare", "start"}, Goto(w, pc),
           UNCHANGED <<mode, req, jobs, dbVars, tracked, strays>>
    PROVE  PromisesBacked'
<1> USE DEF PInv, IInv
<1>1. /\ wk'[w].pc = pc /\ wk'[w].job = wk[w].job
      /\ \A v \in Workers : v # w => wk'[v] = wk[v]
  BY JobTypes DEF Goto, Working
<1>2. ASSUME NEW e \in Envs, Backed(e)
      PROVE  Backed(e)' \/ ~ Promised(e)'
  <2>1. e \in live => e \in live'
    BY DEF live
  <2>2. Serves(w, e) => Serves(w, e)'
    BY <1>1 DEF Serves
  <2> QED
    BY <1>1, <1>2, <2>1, <2>2, OthersServe, WorkerBacks
<1>3. \A e \in Envs : Promised(e)' => Promised(e)
  BY DEF Promised, dbVars
<1> QED
  BY <1>2, <1>3, BackingSuffices

\* A terraform run ends: what a destroy took away, its worker will write.
LEMMA EndBacks ==
    ASSUME PInv, NEW w \in Workers, NEW ok \in BOOLEAN, EndTerraform(w, ok)
    PROVE  PromisesBacked'
<1> USE DEF PInv, IInv
<1> PICK j \in Jobs, d \in Envs : wk[w].job = j /\ j.env = d
  BY JobTypes DEF EndTerraform, Running, Working
<1>1. /\ wk[w].pc \in Running
      /\ wk'[w].job = j
      /\ wk'[w].pc = IF ~ok THEN "failed" ELSE IF j.type = "DESTROY" THEN "cleanup" ELSE "done"
      /\ \A v \in Workers : v # w => wk'[v] = wk[v]
  BY JobTypes DEF EndTerraform, Goto, Working
<1>2. UNCHANGED <<mode, req, jobs, dbVars>>
  BY DEF EndTerraform
<1>3. \A e \in Envs : Promised(e)' => Promised(e)
  BY <1>2 DEF Promised, dbVars
<1>4. ASSUME NEW e \in Envs, Backed(e)
      PROVE  Backed(e)' \/ ~ Promised(e)'
  <2>1. /\ e \in live => e \in live' \/ Serves(w, e)'
        /\ Serves(w, e) => Serves(w, e)' \/ e \in live'
    <3>1. CASE j.type = "PROVISION"
      <4>1. (e \in live => e \in live') /\ (ok => d \in live')
        BY <3>1 DEF EndTerraform, TerraformEnds, ApplyEnds, live
      <4>2. Serves(w, e) => (ok /\ e = d) \/ Serves(w, e)'
        BY <1>1, <3>1 DEF Serves
      <4> QED
        BY <4>1, <4>2
    <3>2. CASE j.type = "DESTROY"
      <4>1. e \in live => e \in live' \/ e = d
        BY <3>2 DEF EndTerraform, TerraformEnds, DestroyEnds, live
      <4>2. Serves(w, d)'
        BY <1>1, <3>2 DEF Serves
      <4>3. Serves(w, e) => Serves(w, e)'
        BY <1>1, <3>2 DEF Serves
      <4> QED
        BY <4>1, <4>2, <4>3
    <3> QED
      BY <3>1, <3>2 DEF Jobs
  <2> QED
    BY <1>1, <1>2, <1>4, <2>1, OthersServe, WorkerBacks
<1> QED
  BY <1>2, <1>3, <1>4, BackingSuffices

LEMMA WorkerBacked ==
    ASSUME PInv, NEW w \in Workers, Worker(w)
    PROVE  PromisesBacked'
<1> USE DEF PInv, IInv
<1>1. CASE Take(w)
  <2>1. /\ wk[w].pc = "idle" /\ wk'[w].pc = "prepare" /\ wk'[w].job = Head(jobs)
        /\ \A v \in Workers : v # w => wk'[v] = wk[v]
        /\ UNCHANGED <<mode, req, dbVars, tfVars>>
    BY <1>1 DEF Take, TypeOK
  <2>2. ASSUME NEW e \in Envs, Backed(e)
        PROVE  Backed(e)' \/ ~ Promised(e)'
    <3>1. Coming(e) => Coming(e)' \/ Serves(w, e)'
      <4>1. \A j \in Jobs : Queued(j) => j = Head(jobs) \/ Queued(j)'
        BY <1>1, TakenJobs DEF Take, Queued, TypeOK
      <4>2. \A j : Brought(j) => Brought(j)'
        BY <2>1 DEF Brought
      <4>3. ASSUME NEW j \in Jobs, j = Head(jobs), j.env = e
            PROVE  Serves(w, e)'
        BY <2>1, <4>3 DEF Serves
      <4> QED
        BY <4>1, <4>2, <4>3 DEF Coming
    <3>2. \A v \in Workers : Serves(v, e) => Serves(v, e)'
      BY <2>1 DEF Serves
    <3>3. e \in live => e \in live'
      BY <2>1 DEF live, tfVars
    <3> QED
      BY <2>2, <3>1, <3>2, <3>3, WorkerBacks
  <2>3. \A e \in Envs : Promised(e)' => Promised(e)
    BY <2>1 DEF Promised, dbVars
  <2> QED
    BY <2>1, <2>2, <2>3, BackingSuffices
<1>2. CASE Prepare(w) \/ StepFails(w) \/ StartTerraform(w)
  BY <1>2, MoveBacks DEF Prepare, StepFails, StartTerraform, WriteConfig, tfVars
<1>3. CASE \E ok \in BOOLEAN : EndTerraform(w, ok)
  BY <1>3, EndBacks
<1>4. CASE RemoveWorkspace(w)
  <2>1. /\ wk[w].pc = "cleanup" /\ wk'[w].pc = "done" /\ wk'[w].job = wk[w].job
        /\ wk[w].job.type = "DESTROY"
    BY <1>4, JobTypes DEF RemoveWorkspace, Working, CleaningIsDestroying
  <2>2. \A v \in Workers : v # w /\ wk[v].pc # "idle" =>
               /\ wk'[v].pc = wk[v].pc \/ (wk[v].pc = "run" /\ wk'[v].pc = "detached")
               /\ wk'[v].job = wk[v].job
    BY <1>4, JobTypes DEF RemoveWorkspace, Detach, Working
  <2>3. UNCHANGED <<mode, req, jobs, dbVars>>
    BY <1>4 DEF RemoveWorkspace
  <2>4. ASSUME NEW e \in Envs, Backed(e)
        PROVE  Backed(e)' \/ ~ Promised(e)'
    <3>1. e \in live => e \in live'
      BY <1>4 DEF RemoveWorkspace, RemoveDirectory, live
    <3>2. \A j : UNCHANGED <<Brought(j), Queued(j)>>
      BY <2>3 DEF Brought, Queued
    <3>3. Coming(e) => Coming(e)'
      BY <3>2 DEF Coming
    <3>4. Serves(w, e) => Serves(w, e)'
      BY <2>1 DEF Serves
    <3>5. ASSUME NEW v \in Workers, v # w, Serves(v, e)
          PROVE  Serves(v, e)'
      BY <2>2, <3>5 DEF Serves
    <3> QED
      BY <2>4, <3>1, <3>3, <3>4, <3>5, WorkerBacks
  <2>5. \A e \in Envs : Promised(e)' => Promised(e)
    BY <2>3 DEF Promised, dbVars
  <2> QED
    BY <2>3, <2>4, <2>5, BackingSuffices
<1>5. CASE FinishFailed(w) \/ FinishProvision(w) \/ FinishDestroy(w)
  <2> PICK d \in Envs : wk[w].job.env = d
    BY <1>5, JobTypes DEF FinishFailed, FinishProvision, FinishDestroy
  <2>1. /\ UNCHANGED <<mode, req, jobs, tfVars>>
        /\ \A v \in Workers : v # w => wk'[v] = wk[v]
    BY <1>5 DEF FinishFailed, FinishProvision, FinishDestroy, TypeOK
  <2>2. /\ \A e \in Envs : Promised(e)' => Promised(e)
        /\ ~ Promised(d)' \/ (wk[w].pc = "done" /\ wk[w].job.type = "PROVISION")
    <3>1. CASE FinishProvision(w)
      BY <3>1 DEF FinishProvision, Promised, dbVars
    <3>2. CASE FinishFailed(w) \/ FinishDestroy(w)
      <4>1. \E s \in {"DESTROY_FAILED", "FAILED", "DESTROYED"} : UpdateStatus(d, s)
        BY <3>2 DEF FinishFailed, FinishDestroy
      <4>2. ~ Promised(d)' /\ \A f \in Envs : Promised(f)' => Promised(f)
        BY <4>1, WritesEndPromises
      <4> QED
        BY <4>2
    <3> QED
      BY <1>5, <3>1, <3>2
  <2>3. ASSUME NEW e \in Envs, Backed(e)
        PROVE  Backed(e)' \/ ~ Promised(e)'
    <3>1. e \in live => e \in live'
      BY <2>1 DEF live, tfVars
    <3>2. Serves(w, e) => ~ Promised(e)'
      BY <2>2 DEF Serves
    <3> QED
      BY <2>1, <2>3, <3>1, <3>2, OthersServe, WorkerBacks
  <2> QED
    BY <2>1, <2>2, <2>3, BackingSuffices
<1> QED
  BY <1>1, <1>2, <1>3, <1>4, <1>5 DEF Worker

-----------------------------------------------------------------------------
(* The steps of the process and of the others on the table and the cloud.  *)

LEMMA ProcessBacked ==
    ASSUME PInv, Process
    PROVE  PromisesBacked'
<1> USE DEF PInv, IInv
<1>1. CASE Crash \/ Exit
  BY <1>1 DEF Crash, Exit, Stop, PromisesBacked
<1>2. CASE Shutdown
  <2>1. mode # "down"
    BY <1>2 DEF Shutdown
  <2>2. \A e \in Envs : UNCHANGED <<Promised(e), Coming(e), Served(e), live>>
    BY <1>2 DEF Shutdown, Promised, Coming, Brought, Queued, Served, Serves, live, dbVars, tfVars
  <2> QED
    BY <2>1, <2>2 DEF PromisesBacked, Backed
<1>3. CASE Boot
  <2>1. \A e \in Envs : ~ Promised(e)'
    BY <1>3 DEF Boot, RecoverOrphanedEnvironments, FailInFlight, InFlight, Promised, TypeOK
  <2> QED
    BY <2>1 DEF PromisesBacked
<1> QED
  BY <1>1, <1>2, <1>3 DEF Process

\* An orphaned destroy may take a server away: a row that relied on it is stranded, or
\* its next job is on its way.
LEMMA EnvironmentBacked ==
    ASSUME PInv, Environment
    PROVE  PromisesBacked'
<1> USE DEF PInv, IInv
<1>1. UNCHANGED <<mode, req, jobs, wk>>
  BY DEF Environment, MarkBuilt, OrphanKilled, OrphanEnds, Reconcile, DeleteRows
<1>2. \A e \in Envs : UNCHANGED <<Coming(e), Served(e)>>
  BY <1>1 DEF Coming, Brought, Queued, Served, Serves
<1>3. \A e \in Envs : Promised(e)' => Promised(e)
  BY DEF Environment, MarkBuilt, OrphanKilled, OrphanEnds, Reconcile, FailInFlight, InFlight,
         DeleteRows, Promised, TypeOK, dbVars
<1>4. ASSUME NEW e \in Envs, e \in live, Promised(e)'
      PROVE  Backed(e)'
  <2>1. CASE UNCHANGED tfVars
    BY <1>4, <2>1 DEF tfVars, live, Backed
  <2>2. ASSUME NEW o \in orphans, OrphanKilled(o)
        PROVE  Backed(e)'
    BY <1>4, <2>2 DEF OrphanKilled, ApplyKilled, live, Backed
  <2>3. ASSUME NEW o \in orphans, NEW ok \in BOOLEAN, OrphanEnds(o, ok)
        PROVE  Backed(e)'
    <3>1. e \in live' \/ Settling(e)
      BY <1>4, <2>3 DEF OrphanEnds, Promised
    <3> QED
      BY <1>2, <3>1, SettlingParts DEF Backed
  <2> QED
    BY <2>1, <2>2, <2>3 DEF Environment, MarkBuilt, Reconcile, DeleteRows
<1>5. \A e \in Envs : Backed(e) => Backed(e)' \/ ~ Promised(e)'
  BY <1>2, <1>4 DEF Backed
<1> QED
  BY <1>1, <1>3, <1>5, BackingSuffices

-----------------------------------------------------------------------------

\* What backs a row settles it.
LEMMA BackedIsAccounted ==
    ASSUME PInv
    PROVE  ProvisioningAccounted
BY SettlingParts DEF PInv, IInv, ProvisioningAccounted, PromisesBacked, Promised, Backed

\* A row says PROVISIONING only while a job that will settle it is on its way or a
\* server exists, through crashes, restarts and late or repeated deliveries, but for a
\* lost write and a destroy that outlived its process.
THEOREM ProvisioningIsAccounted == Spec => []ProvisioningAccounted
<1>1. Init => PromisesBacked
  BY DEF Init, PromisesBacked, Promised
<1>2. IInv /\ PromisesBacked /\ [Next]_vars => PromisesBacked'
  <2> SUFFICES ASSUME PInv, [Next]_vars
               PROVE  PromisesBacked'
    BY DEF PInv
  <2>1. CASE Next
    BY <2>1, HandlerBacked, WorkerBacked, ProcessBacked, EnvironmentBacked DEF Next
  <2>2. CASE UNCHANGED vars
    BY <2>2 DEF vars, dbVars, tfVars, PInv, PromisesBacked, Promised, Backed, Coming,
                Brought, Queued, Served, Serves, live
  <2> QED
    BY <2>1, <2>2
<1>3. IInv /\ PromisesBacked => ProvisioningAccounted
  BY BackedIsAccounted DEF PInv
<1> QED
  BY <1>1, <1>2, <1>3, Inductive, PTL DEF Spec
=============================================================================
