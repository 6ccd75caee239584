------------------------- MODULE VelzardServerProofs -------------------------
(* When the production engine keeps its servers: as long as a deployment    *)
(* has its jobs one at a time and with the owner's credentials, its server  *)
(* is reclaimable until the first stop, and after a stop is lost only by    *)
(* killing an apply that outlived its process.                              *)
EXTENDS VelzardProofs

\* No two workers have a job of this deployment at the same time, and a worker that has
\* one has it with the owner's credentials.
SerializedFor(d) ==
    \A w \in Workers :
        wk[w].pc # "idle" /\ wk[w].job.dep = d =>
            /\ wk[w].job.creds = owner[d]
            /\ \A v \in Workers : wk[v].pc # "idle" /\ wk[v].job.dep = d => v = w

Serialized == \A d \in Deployments : SerializedFor(d)

-----------------------------------------------------------------------------
(* Where the one deploy job of a deployment may be.                        *)

DeploysOf(d) == {j \in Jobs : j.type = "DEPLOY" /\ j.dep = d}

Asked(d) == \E r \in Reqs : req[r].job \in DeploysOf(d)
Waiting(d) == \E i \in DOMAIN jobs : jobs[i] \in DeploysOf(d)
Begun(d) == \E w \in Workers : wk[w].job \in DeploysOf(d)

OneDeploy(d) ==
    /\ \A r, q \in Reqs : req[r].job \in DeploysOf(d) /\ req[q].job \in DeploysOf(d) => r = q
    /\ AtMostOne(jobs, DeploysOf(d))
    /\ Waiting(d) => ~ Asked(d)
    /\ Begun(d) => ~ Asked(d) /\ ~ Waiting(d)

\* No deploy job is left.
Spent(d) == ~ Asked(d) /\ ~ Waiting(d) /\ ~ Begun(d)

\* main.tf is there only after the deploy job has been begun, so that a destroy that
\* comes to run terraform comes after it: once it has succeeded nothing deploys again.
Ordered(d) ==
    /\ status[d] = "none" => d \notin configured
    /\ d \in configured => ~ Asked(d) /\ ~ Waiting(d)
    /\ status[d] = "DESTROYED" => Spent(d) /\ d \notin tracked

WorkerOrdered(w, d) ==
    wk[w].pc # "idle" /\ wk[w].job.dep = d =>
        /\ wk[w].pc # "detached"
        /\ wk[w].job.type = "DESTROY" =>
             /\ wk[w].pc \in {"run", "cleanup", "done"} => Spent(d)
             /\ wk[w].pc \in {"cleanup", "done"} => d \notin tracked

Tidy(d) ==
    /\ d \notin strays
    /\ OneDeploy(d)
    /\ Ordered(d)
    /\ \A w \in Workers : WorkerOrdered(w, d)

\* Before the first stop no terraform run is without its process.
NoOrphans == stops = 0 => mode = "up" /\ orphans = {}

TidyUntilStop(d) == stops = 0 => Tidy(d)

-----------------------------------------------------------------------------

LEMMA OrphansNeedStops ==
    ASSUME TypeOK, NoOrphans, [Next]_vars
    PROVE  NoOrphans'
<1> USE VelzardAssumption DEF NoOrphans
<1>0. stops \in Nat
  BY DEF TypeOK
<1>1. ASSUME NEW r \in Reqs, Handler(r)
      PROVE  UNCHANGED <<mode, orphans, stops>>
  BY <1>1 DEF Handler, Deploy, DeployReplyLost, Destroy, AdminTerminate, BeginDestroy,
              MarkDestroying, AssumeRole, AssumeRoleFails, Push
<1>2. ASSUME NEW w \in Workers, Worker(w)
      PROVE  UNCHANGED <<mode, stops>> /\ (orphans = {} => orphans' = {})
  BY <1>2 DEF Worker, Take, Prepare, StepFails, StartTerraform, EndTerraform, RemoveWorkspace,
              FinishFailed, FinishDeploy, FinishDestroy
<1>3. CASE Process
  BY <1>0, <1>3 DEF Process, Crash, Shutdown, Exit, Boot
<1>4. CASE Environment
  BY <1>4 DEF Environment, WebhookUpdate, OrphanKilled, OrphanEnds, Reconcile, DeleteRows
<1>5. CASE UNCHANGED vars
  BY <1>5 DEF vars
<1> QED
  BY <1>1, <1>2, <1>3, <1>4, <1>5 DEF Next

\* An idle goroutine has no deploy job; a row that does not exist has no job at all.
LEMMA IdleDeploysNothing ==
    ASSUME TypeOK, NEW d \in Deployments
    PROVE  /\ \A r \in Reqs : req[r].pc = "idle" => req[r].job \notin DeploysOf(d)
           /\ \A w \in Workers : wk[w].pc = "idle" => wk[w].job \notin DeploysOf(d)
           /\ Idle.job \notin DeploysOf(d)
<1>1. NoJob \notin DeploysOf(d)
  BY VelzardAssumption DEF DeploysOf
<1> QED
  BY <1>1 DEF TypeOK, Idle, Running

LEMMA NothingYet ==
    ASSUME IInv, NEW d \in Deployments, status[d] = "none"
    PROVE  Spent(d) /\ \A w \in Workers : wk[w].pc # "idle" => wk[w].job.dep # d
<1> USE DEF IInv
<1>1. \A j \in Jobs : j.dep = d => ~ Held(j)
  BY DEF JobsHaveRows
<1>2. \A w \in Workers : wk[w].pc # "idle" => wk[w].job.dep # d
  <2> SUFFICES ASSUME NEW w \in Workers, wk[w].pc # "idle", wk[w].job.dep = d
               PROVE  FALSE
    OBVIOUS
  <2>1. wk[w].job \in Jobs /\ Held(wk[w].job)
    BY JobTypes DEF Working, Held
  <2> QED
    BY <1>1, <2>1
<1>3. ~ Begun(d)
  BY <1>2, IdleDeploysNothing DEF Begun, DeploysOf
<1>4. ~ Waiting(d)
  BY <1>1 DEF Waiting, DeploysOf, Held
<1>5. ~ Asked(d)
  <2> SUFFICES ASSUME NEW r \in Reqs, req[r].job \in DeploysOf(d)
               PROVE  FALSE
    BY DEF Asked
  <2>1. req[r].pc \in {"assume", "push"}
    BY IdleDeploysNothing, JobTypes DEF WritingIsDestroying, DeploysOf, Attempting
  <2>2. Held(req[r].job)
    BY <2>1 DEF Held
  <2> QED
    BY <1>1, <2>2 DEF DeploysOf
<1> QED
  BY <1>2, <1>3, <1>4, <1>5 DEF Spent

-----------------------------------------------------------------------------
(* Steps that bring no job and no server.                                  *)

\* Nobody comes to hold a deploy job of d who did not hold it before.
NoNewDeploy(d) ==
    /\ \A r \in Reqs : req'[r].job \in DeploysOf(d) => req[r].job \in DeploysOf(d)
    /\ UNCHANGED jobs
    /\ \A w \in Workers : wk'[w].job \in DeploysOf(d) => wk[w].job \in DeploysOf(d)

LEMMA NoNewDeployMeans ==
    ASSUME NEW d \in Deployments, NoNewDeploy(d)
    PROVE  /\ Asked(d)' => Asked(d)
           /\ Waiting(d)' => Waiting(d)
           /\ Begun(d)' => Begun(d)
           /\ Spent(d) => Spent(d)'
           /\ OneDeploy(d) => OneDeploy(d)'
<1>1. DeploysOf(d)' = DeploysOf(d)
  BY DEF DeploysOf
<1>2. /\ Asked(d)' => Asked(d)
      /\ Waiting(d)' => Waiting(d)
      /\ Begun(d)' => Begun(d)
  BY <1>1 DEF NoNewDeploy, Asked, Waiting, Begun
<1>3. OneDeploy(d) => OneDeploy(d)'
  BY <1>1, <1>2 DEF NoNewDeploy, OneDeploy, AtMostOne
<1> QED
  BY <1>2, <1>3 DEF Spent

LEMMA TidyFrame ==
    ASSUME NEW d \in Deployments, Tidy(d), NoNewDeploy(d),
           d \notin strays', d \in tracked' => d \in tracked, d \in configured' => d \in configured,
           status'[d] \in {"none", "DESTROYED"} => status'[d] = status[d],
           \A w \in Workers : wk'[w].pc # "idle" /\ wk'[w].job.dep = d =>
               \/ wk'[w] = wk[w]
               \/ wk'[w].pc \in {"prepare", "start", "failed"}
    PROVE  Tidy(d)'
<1>1. Ordered(d)'
  BY NoNewDeployMeans DEF Tidy, Ordered
<1>2. ASSUME NEW w \in Workers
      PROVE  WorkerOrdered(w, d)'
  BY NoNewDeployMeans DEF Tidy, WorkerOrdered
<1> QED
  BY <1>1, <1>2, NoNewDeployMeans DEF Tidy

-----------------------------------------------------------------------------
(* The steps of handlers.                                                  *)

LEMMA DeployTidies ==
    ASSUME IInv, NEW d \in Deployments, Tidy(d), NEW r \in Reqs, NEW u \in Users, Deploy(r, d, u)
    PROVE  Tidy(d)'
<1> USE DEF IInv
<1>1. DeploysOf(d)' = DeploysOf(d)
  BY DEF DeploysOf
<1>2. /\ status[d] = "none" /\ status'[d] = "PROVISIONING"
      /\ \A q \in Reqs : q # r => req'[q] = req[q]
      /\ UNCHANGED <<jobs, wk, tfVars>>
  BY DEF Deploy, CreateDeployment, TypeOK
<1>3. Spent(d) /\ \A w \in Workers : wk[w].pc # "idle" => wk[w].job.dep # d
  BY <1>2, NothingYet
<1>4. \A q \in Reqs : req'[q].job \in DeploysOf(d) => q = r
  BY <1>2, <1>3 DEF Spent, Asked
<1>5. ~ Waiting(d)' /\ ~ Begun(d)'
  BY <1>1, <1>2, <1>3 DEF Spent, Waiting, Begun
<1>6. OneDeploy(d)'
  BY <1>1, <1>2, <1>4, <1>5 DEF Tidy, OneDeploy
<1>7. Ordered(d)'
  BY <1>2 DEF Tidy, Ordered, tfVars
<1>8. \A w \in Workers : WorkerOrdered(w, d)'
  BY <1>2, <1>3 DEF WorkerOrdered
<1> QED
  BY <1>2, <1>6, <1>7, <1>8 DEF Tidy, tfVars

\* The job moves from its handler to the channel.
LEMMA PushTidies ==
    ASSUME IInv, NEW d \in Deployments, Tidy(d), NEW r \in Reqs, Push(r)
    PROVE  Tidy(d)'
<1> USE DEF IInv
<1>0. DeploysOf(d)' = DeploysOf(d) /\ \A j \in DeploysOf(d) : j \in Jobs
  BY DEF DeploysOf
<1> PICK x \in Jobs : req[r].job = x
  BY JobTypes DEF Push, Attempting
<1>1. /\ req'[r].job \notin DeploysOf(d)
      /\ \A q \in Reqs : q # r => req'[q] = req[q]
      /\ jobs \in Seq(Jobs) /\ jobs' = Append(jobs, x)
      /\ UNCHANGED <<dbVars, wk, tfVars>>
  BY IdleDeploysNothing DEF Push, TypeOK
<1>2. \A j \in Jobs : (\E i \in DOMAIN jobs' : jobs'[i] = j)
                         <=> j = x \/ \E i \in DOMAIN jobs : jobs[i] = j
  BY <1>1, PushedJobs
<1>3. Waiting(d)' => Waiting(d) \/ x \in DeploysOf(d)
  BY <1>0, <1>2 DEF Waiting
<1>4. Asked(d)' => Asked(d) /\ x \notin DeploysOf(d)
  BY <1>0, <1>1 DEF Asked, Tidy, OneDeploy
<1>5. x \in DeploysOf(d) => Asked(d)
  BY DEF Asked
<1>6. Begun(d)' <=> Begun(d)
  BY <1>0, <1>1 DEF Begun
<1>7. AtMostOne(jobs', DeploysOf(d))
  <2>1. x \in DeploysOf(d) => \A i \in DOMAIN jobs : jobs[i] \notin DeploysOf(d)
    BY <1>5 DEF Tidy, OneDeploy, Waiting
  <2> QED
    BY <1>1, <2>1, PushedOnce DEF Tidy, OneDeploy
<1>8. OneDeploy(d)'
  <2>1. \A p, q \in Reqs : req'[p].job \in DeploysOf(d) /\ req'[q].job \in DeploysOf(d) => p = q
    BY <1>1 DEF Tidy, OneDeploy
  <2>2. Waiting(d)' => ~ Asked(d)'
    BY <1>3, <1>4 DEF Tidy, OneDeploy
  <2>3. Begun(d)' => ~ Asked(d)' /\ ~ Waiting(d)'
    BY <1>3, <1>4, <1>5, <1>6 DEF Tidy, OneDeploy
  <2>4. AtMostOne(jobs, DeploysOf(d))'
    BY <1>0, <1>7 DEF AtMostOne
  <2> QED
    BY <1>0, <2>1, <2>2, <2>3, <2>4 DEF OneDeploy
<1>9. Spent(d) => Spent(d)'
  BY <1>3, <1>4, <1>5, <1>6 DEF Spent
<1>10. Ordered(d)'
  BY <1>1, <1>3, <1>4, <1>5, <1>9 DEF Tidy, Ordered, dbVars, tfVars
<1>11. \A w \in Workers : WorkerOrdered(w, d)'
  BY <1>1, <1>9 DEF Tidy, WorkerOrdered, tfVars
<1> QED
  BY <1>1, <1>8, <1>10, <1>11 DEF Tidy, tfVars

LEMMA HandlerTidies ==
    ASSUME IInv, NEW d \in Deployments, Tidy(d), NEW r \in Reqs, Handler(r)
    PROVE  Tidy(d)'
<1> USE DEF IInv
<1>0. /\ \A q \in Reqs : q # r => req'[q] = req[q]
      /\ UNCHANGED <<wk, tfVars>>
  BY DEF Handler, Deploy, DeployReplyLost, Destroy, AdminTerminate, BeginDestroy,
         MarkDestroying, AssumeRole, AssumeRoleFails, Push, TypeOK
<1>1. ASSUME req'[r].job \in DeploysOf(d) => req[r].job \in DeploysOf(d), UNCHANGED jobs,
             status'[d] \in {"none", "DESTROYED"} => status'[d] = status[d]
      PROVE  Tidy(d)'
  <2>1. NoNewDeploy(d)
    BY <1>0, <1>1 DEF NoNewDeploy
  <2> QED
    BY <1>0, <1>1, <2>1, TidyFrame DEF tfVars, Tidy
<1>2. ASSUME NEW e \in Deployments, NEW u \in Users, Deploy(r, e, u)
      PROVE  Tidy(d)'
  <2>1. CASE e = d
    BY <1>2, <2>1, DeployTidies
  <2>2. CASE e # d
    <3>1. req'[r].job = Job("DEPLOY", e, u)
      BY <1>2 DEF Deploy, TypeOK
    <3>2. req'[r].job \notin DeploysOf(d)
      BY <2>2, <3>1 DEF DeploysOf, Job
    <3> QED
      BY <1>1, <1>2, <2>2, <3>2 DEF Deploy, CreateDeployment, TypeOK
  <2> QED
    BY <2>1, <2>2
<1>3. ASSUME NEW e \in Deployments, NEW u \in Users, DeployReplyLost(r, e, u)
      PROVE  Tidy(d)'
  BY <1>1, <1>3 DEF DeployReplyLost, CreateDeployment, TypeOK
<1>4. ASSUME NEW e \in Deployments, NEW u \in Users, NEW refused, BeginDestroy(r, e, u, refused)
      PROVE  Tidy(d)'
  <2>1. req'[r].job = Job("DESTROY", e, u)
    BY <1>4 DEF BeginDestroy, TypeOK
  <2>2. req'[r].job \notin DeploysOf(d)
    BY <2>1 DEF DeploysOf, Job
  <2> QED
    BY <1>1, <1>4, <2>2 DEF BeginDestroy, dbVars
<1>5. CASE MarkDestroying(r) \/ AssumeRole(r)
  <2>1. req'[r].job = req[r].job
    BY <1>5, JobTypes DEF MarkDestroying, AssumeRole, Attempting, TypeOK
  <2>2. status'[d] = status[d] \/ status'[d] = "DESTROYING"
    <3>1. CASE MarkDestroying(r)
      BY <3>1 DEF MarkDestroying, UpdateStatus, WriteStatus, TypeOK
    <3>2. CASE AssumeRole(r)
      BY <3>2 DEF AssumeRole, dbVars
    <3> QED
      BY <1>5, <3>1, <3>2
  <2> QED
    BY <1>1, <1>5, <2>1, <2>2 DEF MarkDestroying, AssumeRole
<1>6. CASE AssumeRoleFails(r)
  <2>1. req'[r].job \notin DeploysOf(d)
    BY <1>6, IdleDeploysNothing DEF AssumeRoleFails, TypeOK
  <2>2. status'[d] = status[d] \/ status'[d] \in {"DESTROY_FAILED", "FAILED"}
    BY <1>6 DEF AssumeRoleFails, UpdateStatus, WriteStatus, FailedStatus, TypeOK
  <2> QED
    BY <1>1, <1>6, <2>1, <2>2 DEF AssumeRoleFails
<1>7. CASE Push(r)
  BY <1>7, PushTidies
<1> QED
  BY <1>2, <1>3, <1>4, <1>5, <1>6, <1>7 DEF Handler, Destroy, AdminTerminate

-----------------------------------------------------------------------------
(* The steps of workers.                                                   *)

\* The job moves from the channel to a worker.
LEMMA TakeTidies ==
    ASSUME IInv, NEW d \in Deployments, Tidy(d), NEW w \in Workers, Take(w)
    PROVE  Tidy(d)'
<1> USE DEF IInv
<1>0. DeploysOf(d)' = DeploysOf(d) /\ \A j \in DeploysOf(d) : j \in Jobs
  BY DEF DeploysOf
<1>1. /\ jobs \in Seq(Jobs) /\ jobs # <<>> /\ jobs' = Tail(jobs)
      /\ wk'[w].pc = "prepare" /\ wk'[w].job = Head(jobs)
      /\ \A v \in Workers : v # w => wk'[v] = wk[v]
      /\ UNCHANGED <<dbVars, req, tfVars>>
  BY DEF Take, TypeOK
<1> PICK x \in Jobs : Head(jobs) = x
  BY <1>1
<1>2. \A j \in Jobs : (\E i \in DOMAIN jobs : jobs[i] = j)
                         <=> j = x \/ \E i \in DOMAIN jobs' : jobs'[i] = j
  BY <1>1, TakenJobs
<1>3. /\ Waiting(d)' => Waiting(d)
      /\ x \in DeploysOf(d) => Waiting(d)
  BY <1>0, <1>2 DEF Waiting
<1>4. AtMostOne(jobs', DeploysOf(d)) /\ (x \in DeploysOf(d) => ~ Waiting(d)')
  BY <1>0, <1>1, TakenOnce DEF Tidy, OneDeploy, Waiting
<1>5. Asked(d)' <=> Asked(d)
  BY <1>0, <1>1 DEF Asked
<1>6. Begun(d)' => Begun(d) \/ x \in DeploysOf(d)
  BY <1>0, <1>1 DEF Begun
<1>7. OneDeploy(d)'
  <2>1. \A p, q \in Reqs : req'[p].job \in DeploysOf(d) /\ req'[q].job \in DeploysOf(d) => p = q
    BY <1>1 DEF Tidy, OneDeploy
  <2>2. Waiting(d)' => ~ Asked(d)'
    BY <1>3, <1>5 DEF Tidy, OneDeploy
  <2>3. Begun(d)' => ~ Asked(d)' /\ ~ Waiting(d)'
    BY <1>3, <1>4, <1>5, <1>6 DEF Tidy, OneDeploy
  <2>4. AtMostOne(jobs, DeploysOf(d))'
    BY <1>0, <1>4 DEF AtMostOne
  <2> QED
    BY <1>0, <2>1, <2>2, <2>3, <2>4 DEF OneDeploy
<1>8. Spent(d) => Spent(d)'
  BY <1>3, <1>5, <1>6 DEF Spent
<1>9. Ordered(d)'
  BY <1>1, <1>3, <1>5, <1>8 DEF Tidy, Ordered, dbVars, tfVars
<1>10. ASSUME NEW v \in Workers
       PROVE  WorkerOrdered(v, d)'
  <2>1. CASE v = w
    BY <1>1, <2>1 DEF WorkerOrdered
  <2>2. CASE v # w
    BY <1>1, <1>8, <2>2 DEF Tidy, WorkerOrdered, tfVars
  <2> QED
    BY <2>1, <2>2
<1> QED
  BY <1>1, <1>7, <1>9, <1>10 DEF Tidy, tfVars

\* A worker that keeps its job while it moves on.
LEMMA MoveTidies ==
    ASSUME IInv, NEW d \in Deployments, SerializedFor(d), Tidy(d), NEW w \in Workers,
           Prepare(w) \/ StepFails(w) \/ StartTerraform(w)
    PROVE  Tidy(d)'
<1> USE DEF IInv
<1> PICK x \in Jobs : wk[w].job = x
  BY JobTypes DEF Prepare, StepFails, StartTerraform, Working
<1>1. /\ wk'[w].job = x /\ wk[w].pc # "idle"
      /\ \A v \in Workers : v # w => wk'[v] = wk[v]
      /\ UNCHANGED <<dbVars, req, jobs>>
  BY JobTypes DEF Prepare, StepFails, StartTerraform, Goto, Working, TypeOK
<1>2. NoNewDeploy(d)
  BY <1>1 DEF NoNewDeploy
<1>3. CASE Prepare(w)
  <2>1. wk'[w].pc = "start"
    BY <1>3, JobTypes DEF Prepare, Goto, Working, TypeOK
  <2>2. UNCHANGED <<tracked, strays, status>>
    BY <1>3 DEF Prepare, WriteConfig, tfVars, dbVars
  <2>3. CASE d \in configured' => d \in configured
    BY <1>1, <1>2, <2>1, <2>2, <2>3, TidyFrame DEF Tidy
  <2>4. CASE d \notin configured /\ d \in configured'
    <3>1. x \in DeploysOf(d)
      BY <1>3, <2>4 DEF Prepare, WriteConfig, tfVars, DeploysOf, Jobs
    <3>2. Begun(d)
      BY <3>1 DEF Begun
    <3>3. ~ Asked(d)' /\ ~ Waiting(d)'
      BY <1>2, <3>2, NoNewDeployMeans DEF Tidy, OneDeploy
    <3>4. status[d] # "none"
      BY <1>1, <3>1, NothingYet DEF DeploysOf
    <3>5. Ordered(d)'
      BY <1>2, <2>2, <3>3, <3>4, NoNewDeployMeans DEF Tidy, Ordered
    <3>6. ASSUME NEW v \in Workers
          PROVE  WorkerOrdered(v, d)'
      <4>1. CASE v = w
        BY <2>1, <4>1 DEF WorkerOrdered
      <4>2. CASE v # w
        BY <1>1, <1>2, <2>2, <4>2, NoNewDeployMeans DEF Tidy, WorkerOrdered
      <4> QED
        BY <4>1, <4>2
    <3> QED
      BY <1>2, <2>2, <3>5, <3>6, NoNewDeployMeans DEF Tidy
  <2> QED
    BY <2>3, <2>4
<1>4. CASE StepFails(w)
  <2>1. wk'[w].pc = "failed"
    BY <1>4, JobTypes DEF StepFails, Goto, Working, TypeOK
  <2> QED
    BY <1>1, <1>2, <1>4, <2>1, TidyFrame DEF StepFails, tfVars, dbVars, Tidy
<1>5. CASE StartTerraform(w)
  <2>1. wk'[w].pc = "run" /\ UNCHANGED <<status, tfVars>>
    BY <1>5, JobTypes DEF StartTerraform, Goto, Working, TypeOK, dbVars
  <2>2. ASSUME x.dep = d, x.type = "DESTROY"
        PROVE  Spent(d)
    <3>1. ~ Asked(d) /\ ~ Waiting(d)
      BY <1>5, <2>2 DEF StartTerraform, Tidy, Ordered
    <3>2. ~ Begun(d)
      BY <1>1, <2>2, IdleDeploysNothing DEF SerializedFor, Begun, DeploysOf
    <3> QED
      BY <3>1, <3>2 DEF Spent
  <2>3. ASSUME NEW v \in Workers
        PROVE  WorkerOrdered(v, d)'
    <3>1. CASE v = w
      BY <1>1, <1>2, <2>1, <2>2, <3>1, NoNewDeployMeans DEF WorkerOrdered
    <3>2. CASE v # w
      BY <1>1, <1>2, <2>1, <3>2, NoNewDeployMeans DEF Tidy, WorkerOrdered, tfVars
    <3> QED
      BY <3>1, <3>2
  <2>4. Ordered(d)'
    BY <1>2, <2>1, NoNewDeployMeans DEF Tidy, Ordered, tfVars
  <2> QED
    BY <1>2, <2>1, <2>3, <2>4, NoNewDeployMeans DEF Tidy, tfVars
<1> QED
  BY <1>3, <1>4, <1>5

\* A terraform run ends, in its own directory and with the owner's account.
LEMMA EndTidies ==
    ASSUME IInv, NEW d \in Deployments, SerializedFor(d), Tidy(d), NEW w \in Workers,
           NEW ok \in BOOLEAN, EndTerraform(w, ok)
    PROVE  Tidy(d)'
<1> USE DEF IInv
<1> PICK x \in Jobs : wk[w].job = x
  BY JobTypes DEF EndTerraform, Running, Working
<1>1. /\ wk[w].pc \in Running
      /\ wk'[w].job = x
      /\ wk'[w].pc = IF ~ok THEN "failed" ELSE IF x.type = "DESTROY" THEN "cleanup" ELSE "done"
      /\ \A v \in Workers : v # w => wk'[v] = wk[v]
  BY JobTypes DEF EndTerraform, Goto, Working, TypeOK, Running
<1>2. UNCHANGED <<status, configured, req, jobs>>
  BY DEF EndTerraform, TerraformEnds, ApplyEnds, DestroyEnds, dbVars
<1>3. NoNewDeploy(d)
  BY <1>1, <1>2 DEF NoNewDeploy
<1>4. CASE x.dep # d
  <2>1. (d \in strays' <=> d \in strays) /\ (d \in tracked' <=> d \in tracked)
    BY <1>4 DEF EndTerraform, TerraformEnds, ApplyEnds, DestroyEnds
  <2> QED
    BY <1>1, <1>2, <1>3, <1>4, <2>1, TidyFrame DEF Tidy
<1>5. CASE x.dep = d
  <2>1. wk[w].pc = "run"
    BY <1>1, <1>5 DEF Tidy, WorkerOrdered, Running
  <2>2. x.creds = owner[d] /\ \A v \in Workers : wk[v].pc # "idle" /\ wk[v].job.dep = d => v = w
    BY <1>5, <2>1 DEF SerializedFor
  <2>3. \A v \in Workers : v # w => WorkerOrdered(v, d)'
    BY <1>1, <2>2 DEF WorkerOrdered
  <2>4. d \notin strays'
    BY <1>5, <2>1, <2>2 DEF EndTerraform, TerraformEnds, ApplyEnds, DestroyEnds, Mine, Tidy
  <2>5. CASE x.type = "DEPLOY"
    <3>1. Begun(d)
      BY <1>5, <2>5 DEF Begun, DeploysOf
    <3>2. status[d] # "DESTROYED"
      BY <3>1 DEF Tidy, Ordered, Spent
    <3>3. Ordered(d)'
      BY <1>2, <1>3, <3>2, NoNewDeployMeans DEF Tidy, Ordered
    <3>4. WorkerOrdered(w, d)'
      BY <1>1, <2>5 DEF WorkerOrdered
    <3> QED
      BY <1>3, <2>3, <2>4, <3>3, <3>4, NoNewDeployMeans DEF Tidy
  <2>6. CASE x.type = "DESTROY"
    <3>1. Spent(d)
      BY <1>5, <2>1, <2>6 DEF Tidy, WorkerOrdered
    <3>2. (d \in tracked' => d \in tracked) /\ (ok => d \notin tracked')
      BY <1>5, <2>1, <2>6 DEF EndTerraform, TerraformEnds, DestroyEnds
    <3>3. Ordered(d)'
      BY <1>2, <1>3, <3>2, NoNewDeployMeans DEF Tidy, Ordered
    <3>4. WorkerOrdered(w, d)'
      BY <1>1, <1>3, <2>6, <3>1, <3>2, NoNewDeployMeans DEF WorkerOrdered
    <3> QED
      BY <1>3, <2>3, <2>4, <3>3, <3>4, NoNewDeployMeans DEF Tidy
  <2> QED
    BY <2>5, <2>6 DEF Jobs
<1> QED
  BY <1>4, <1>5

\* The directory that goes tracks no server, and nobody else works in it.
LEMMA CleanupTidies ==
    ASSUME IInv, NEW d \in Deployments, SerializedFor(d), Tidy(d), NEW w \in Workers,
           RemoveWorkspace(w)
    PROVE  Tidy(d)'
<1> USE DEF IInv
<1> PICK x \in Jobs : wk[w].job = x
  BY JobTypes DEF RemoveWorkspace, Working
<1>1. /\ wk[w].pc = "cleanup" /\ x.type = "DESTROY"
      /\ wk'[w].pc = "done" /\ wk'[w].job = x
      /\ UNCHANGED <<status, req, jobs>>
  BY JobTypes DEF RemoveWorkspace, DeploysLeaveServers, Working, dbVars
<1>2. \A v \in Workers : v # w =>
          wk'[v].job = wk[v].job /\ (wk'[v] = wk[v] \/ (wk[v].pc = "run" /\ wk[v].job.dep = x.dep))
  <2> SUFFICES ASSUME NEW v \in Workers, v # w
               PROVE  /\ wk'[v].job = wk[v].job
                      /\ wk'[v] = wk[v] \/ (wk[v].pc = "run" /\ wk[v].job.dep = x.dep)
    OBVIOUS
  <2>1. wk'[v] = Detach(wk[v], x.dep)
    BY DEF RemoveWorkspace
  <2>2. CASE wk[v].pc = "run" /\ wk[v].job.dep = x.dep
    BY <2>1, <2>2, JobTypes DEF Detach, Working
  <2>3. CASE ~ (wk[v].pc = "run" /\ wk[v].job.dep = x.dep)
    BY <2>1, <2>3 DEF Detach
  <2> QED
    BY <2>2, <2>3
<1>3. NoNewDeploy(d)
  BY <1>1, <1>2 DEF NoNewDeploy
<1>4. CASE x.dep # d
  <2>1. /\ d \in strays' <=> d \in strays
        /\ d \in tracked' <=> d \in tracked
        /\ d \in configured' <=> d \in configured
    BY <1>4 DEF RemoveWorkspace, RemoveDirectory
  <2>2. \A v \in Workers : wk'[v].pc # "idle" /\ wk'[v].job.dep = d => wk'[v] = wk[v]
    BY <1>1, <1>2, <1>4
  <2> QED
    BY <1>1, <1>3, <2>1, <2>2, TidyFrame DEF Tidy
<1>5. CASE x.dep = d
  <2>1. Spent(d) /\ d \notin tracked
    BY <1>1, <1>5 DEF Tidy, WorkerOrdered
  <2>2. d \notin strays' /\ d \notin tracked' /\ d \notin configured'
    BY <1>5, <2>1 DEF RemoveWorkspace, RemoveDirectory, Tidy
  <2>3. \A v \in Workers : wk[v].pc # "idle" /\ wk[v].job.dep = d => v = w
    BY <1>1, <1>5 DEF SerializedFor
  <2>4. ASSUME NEW v \in Workers
        PROVE  WorkerOrdered(v, d)'
    <3>1. CASE v = w
      BY <1>1, <1>3, <2>1, <2>2, <3>1, NoNewDeployMeans DEF WorkerOrdered
    <3>2. CASE v # w
      BY <1>2, <1>5, <2>3, <3>2 DEF WorkerOrdered
    <3> QED
      BY <3>1, <3>2
  <2>5. Ordered(d)'
    BY <1>3, <2>1, <2>2, NoNewDeployMeans DEF Ordered
  <2> QED
    BY <1>3, <2>2, <2>4, <2>5, NoNewDeployMeans DEF Tidy
<1> QED
  BY <1>4, <1>5

\* A job ends; DESTROYED is written only after a destroy that nothing can follow.
LEMMA FinishTidies ==
    ASSUME IInv, NEW d \in Deployments, Tidy(d), NEW w \in Workers,
           FinishFailed(w) \/ FinishDeploy(w) \/ FinishDestroy(w)
    PROVE  Tidy(d)'
<1> USE DEF IInv
<1> PICK x \in Jobs : wk[w].job = x
  BY JobTypes DEF FinishFailed, FinishDeploy, FinishDestroy, Working
<1>1. /\ wk'[w] = Idle
      /\ \A v \in Workers : v # w => wk'[v] = wk[v]
      /\ UNCHANGED <<req, jobs, tfVars>>
  BY DEF FinishFailed, FinishDeploy, FinishDestroy, TypeOK
<1>2. NoNewDeploy(d)
  BY <1>1, IdleDeploysNothing DEF NoNewDeploy
<1>3. \A v \in Workers : wk'[v].pc # "idle" => wk'[v] = wk[v]
  BY <1>1 DEF Idle
<1>4. CASE status'[d] = status[d] \/ status'[d] \in {"FAILED", "DESTROY_FAILED"}
  BY <1>1, <1>2, <1>3, <1>4, TidyFrame DEF Tidy, tfVars
<1>5. CASE ~ (status'[d] = status[d] \/ status'[d] \in {"FAILED", "DESTROY_FAILED"})
  <2>1. FinishDestroy(w) /\ x.dep = d /\ status'[d] = "DESTROYED"
    BY <1>5 DEF FinishFailed, FinishDeploy, FinishDestroy, UpdateStatusAndError, WriteStatus,
                FailedStatus, TypeOK, dbVars, Jobs
  <2>2. Spent(d) /\ d \notin tracked
    BY <2>1 DEF FinishDestroy, Tidy, WorkerOrdered
  <2>3. Ordered(d)'
    BY <1>1, <1>2, <2>1, <2>2, NoNewDeployMeans DEF Tidy, Ordered, tfVars
  <2>4. \A v \in Workers : WorkerOrdered(v, d)'
    BY <1>1, <1>2, <1>3, NoNewDeployMeans DEF Tidy, WorkerOrdered, tfVars
  <2> QED
    BY <1>1, <1>2, <2>3, <2>4, NoNewDeployMeans DEF Tidy, tfVars
<1> QED
  BY <1>4, <1>5

-----------------------------------------------------------------------------

\* Callbacks that do not claim a server is gone, reconciliation and deletions.
LEMMA TableTidies ==
    ASSUME IInv, NEW d \in Deployments, Tidy(d), "DESTROYED" \notin WebhookStatuses,
           \/ \E e \in Deployments, s \in WebhookStatuses : WebhookUpdate(e, s)
           \/ Reconcile
           \/ \E us \in {{u} : u \in Users} \cup {Users} : DeleteRows(us)
    PROVE  Tidy(d)'
<1> USE DEF IInv
<1>1. UNCHANGED <<req, jobs, wk, tfVars>>
  BY DEF WebhookUpdate, Reconcile, DeleteRows
<1>2. status'[d] \in {"none", "DESTROYED"} => status'[d] = status[d]
  <2>1. CASE \E e \in Deployments, s \in WebhookStatuses : WebhookUpdate(e, s)
    BY <2>1, VelzardAssumption DEF WebhookUpdate, TypeOK
  <2>2. CASE Reconcile
    BY <2>2 DEF Reconcile, FailInFlight, TypeOK
  <2>3. CASE \E us \in {{u} : u \in Users} \cup {Users} : DeleteRows(us)
    BY <2>3 DEF DeleteRows, TypeOK
  <2> QED
    BY <2>1, <2>2, <2>3
<1>3. NoNewDeploy(d)
  BY <1>1 DEF NoNewDeploy
<1> QED
  BY <1>1, <1>2, <1>3, TidyFrame DEF Tidy, tfVars

LEMMA StaysTidy ==
    ASSUME IInv, NoOrphans, NEW d \in Deployments, SerializedFor(d), TidyUntilStop(d),
           "DESTROYED" \notin WebhookStatuses, [Next]_vars
    PROVE  TidyUntilStop(d)'
<1> USE VelzardAssumption
<1>0. stops \in Nat
  BY DEF IInv, TypeOK
<1> SUFFICES ASSUME stops' = 0
             PROVE  Tidy(d)'
  BY DEF TidyUntilStop
<1>1. ASSUME NEW r \in Reqs, Handler(r)
      PROVE  Tidy(d)'
  <2>1. UNCHANGED stops
    BY <1>1 DEF Handler, Deploy, DeployReplyLost, Destroy, AdminTerminate, BeginDestroy,
                MarkDestroying, AssumeRole, AssumeRoleFails, Push
  <2> QED
    BY <1>1, <2>1, HandlerTidies DEF TidyUntilStop
<1>2. ASSUME NEW w \in Workers, Worker(w)
      PROVE  Tidy(d)'
  <2>1. UNCHANGED stops
    BY <1>2 DEF Worker, Take, Prepare, StepFails, StartTerraform, EndTerraform, RemoveWorkspace,
                FinishFailed, FinishDeploy, FinishDestroy
  <2> QED
    BY <1>2, <2>1, TakeTidies, MoveTidies, EndTidies, CleanupTidies, FinishTidies
       DEF TidyUntilStop, Worker
<1>3. CASE Process
  BY <1>0, <1>3 DEF Process, Crash, Shutdown, Exit, Boot, NoOrphans
<1>4. CASE Environment
  <2>1. UNCHANGED stops
    BY <1>4 DEF Environment, WebhookUpdate, OrphanKilled, OrphanEnds, Reconcile, DeleteRows
  <2>2. orphans = {}
    BY <2>1 DEF NoOrphans
  <2> QED
    BY <1>4, <2>1, <2>2, TableTidies DEF Environment, TidyUntilStop
<1>5. CASE UNCHANGED vars
  <2>1. UNCHANGED <<status, req, jobs, wk, stops, tfVars>>
    BY <1>5 DEF vars, dbVars
  <2>2. NoNewDeploy(d)
    BY <2>1 DEF NoNewDeploy
  <2> QED
    BY <2>1, <2>2, TidyFrame DEF TidyUntilStop, Tidy, tfVars
<1> QED
  BY <1>1, <1>2, <1>3, <1>4, <1>5 DEF Next

LEMMA InitiallyTidy ==
    ASSUME Init
    PROVE  NoOrphans /\ \A d \in Deployments : TidyUntilStop(d)
<1> SUFFICES ASSUME NEW d \in Deployments
             PROVE  NoOrphans /\ Tidy(d)
  BY DEF TidyUntilStop, Init, NoOrphans
<1>1. NoOrphans /\ d \notin strays /\ d \notin tracked /\ d \notin configured
  BY DEF Init, TerraformInit, NoOrphans
<1>2. Spent(d)
  BY VelzardAssumption DEF Init, Idle, Spent, Asked, Waiting, Begun, DeploysOf
<1>3. OneDeploy(d)
  BY <1>2 DEF OneDeploy, AtMostOne, Spent, Asked, Waiting
<1>4. \A w \in Workers : WorkerOrdered(w, d)
  BY DEF Init, Idle, WorkerOrdered
<1> QED
  BY <1>1, <1>2, <1>3, <1>4 DEF Tidy, Ordered, Spent

\* Until the first stop, the server of a deployment whose jobs are run one at a time
\* with the owner's account is in its state file, and its row does not say DESTROYED.
THEOREM ServerStaysReclaimable ==
    ASSUME "DESTROYED" \notin WebhookStatuses, NEW d \in Deployments
    PROVE  Spec /\ []SerializedFor(d)
              => [](stops = 0 => d \notin strays /\ (d \in tracked => status[d] # "DESTROYED"))
<1>1. IInv /\ NoOrphans /\ [Next]_vars => NoOrphans'
  BY OrphansNeedStops DEF IInv
<1>2. IInv /\ NoOrphans /\ SerializedFor(d) /\ TidyUntilStop(d) /\ [Next]_vars => TidyUntilStop(d)'
  BY StaysTidy
<1>3. Init => NoOrphans /\ TidyUntilStop(d)
  BY InitiallyTidy
<1>4. TidyUntilStop(d)
        => (stops = 0 => d \notin strays /\ (d \in tracked => status[d] # "DESTROYED"))
  BY DEF TidyUntilStop, Tidy, Ordered
<1> QED
  BY <1>1, <1>2, <1>3, <1>4, Inductive, PTL DEF Spec

\* ... of all deployments.
THEOREM ServersStayReclaimable ==
    ASSUME "DESTROYED" \notin WebhookStatuses
    PROVE  Spec /\ []Serialized => []LiveReclaimable
<1> DEFINE AllTidy == \A d \in Deployments : TidyUntilStop(d)
<1>1. IInv /\ NoOrphans /\ [Next]_vars => NoOrphans'
  BY OrphansNeedStops DEF IInv
<1>2. IInv /\ NoOrphans /\ Serialized /\ AllTidy /\ [Next]_vars => AllTidy'
  BY StaysTidy DEF Serialized
<1>3. Init => NoOrphans /\ AllTidy
  BY InitiallyTidy
<1>4. IInv /\ AllTidy => LiveReclaimable
  BY DEF TidyUntilStop, Tidy, Ordered, LiveReclaimable, IInv, TypeOK, TerraformTypeOK, Deployments
<1> QED
  BY <1>1, <1>2, <1>3, <1>4, Inductive, PTL DEF Spec

-----------------------------------------------------------------------------
(* After a stop: only an apply that is killed loses a server.              *)

\* The terraform runs of this deployment that outlived their process work in its
\* directory, for its owner, and while there is one no worker is past the lock.
Kept(d) ==
    /\ \A o \in orphans : o.job.dep = d => o.pc = "run" /\ o.job.creds = owner[d]
    /\ \A w \in Workers :
          wk[w].pc # "idle" /\ wk[w].job.dep = d =>
              /\ wk[w].pc # "detached"
              /\ wk[w].pc \in {"run", "cleanup"} => \A o \in orphans : o.job.dep # d
              /\ wk[w].pc = "cleanup" => d \notin tracked

\* The user_id of a row is written by its INSERT alone.
LEMMA OwnersStay ==
    ASSUME TypeOK, [Next]_vars, NEW d \in Deployments, status[d] # "none"
    PROVE  owner'[d] = owner[d]
<1>1. ASSUME NEW r \in Reqs, Handler(r)
      PROVE  owner'[d] = owner[d]
  BY <1>1 DEF Handler, Deploy, DeployReplyLost, CreateDeployment, Destroy, AdminTerminate,
              BeginDestroy, MarkDestroying, AssumeRole, AssumeRoleFails, Push, UpdateStatus, dbVars,
              TypeOK
<1>2. ASSUME NEW w \in Workers, Worker(w)
      PROVE  UNCHANGED owner
  BY <1>2 DEF Worker, Take, Prepare, StepFails, StartTerraform, EndTerraform, RemoveWorkspace,
              FinishFailed, FinishDeploy, FinishDestroy, UpdateStatusAndError, dbVars
<1>3. CASE Process \/ Environment
  BY <1>3 DEF Process, Crash, Shutdown, Exit, Stop, Boot, RecoverOrphanedDeployments, FailInFlight,
              Environment, WebhookUpdate, OrphanKilled, OrphanEnds, Reconcile, DeleteRows, dbVars
<1>4. CASE UNCHANGED vars
  BY <1>4 DEF vars, dbVars
<1> QED
  BY <1>1, <1>2, <1>3, <1>4 DEF Next

\* A step that brings no run of d, and moves no worker of d to or past the lock.
LEMMA KeptFrame ==
    ASSUME IInv, [Next]_vars, NEW d \in Deployments, Kept(d),
           \A o \in orphans' : o.job.dep = d => o \in orphans,
           d \in tracked' => d \in tracked,
           \A w \in Workers : wk'[w].pc # "idle" /\ wk'[w].job.dep = d =>
               \/ wk'[w] = wk[w]
               \/ wk'[w].pc \in {"prepare", "start", "failed", "done"}
    PROVE  Kept(d)'
<1>1. \A o \in orphans : o.job.dep = d => owner'[d] = owner[d]
  BY OwnersStay DEF IInv, JobsHaveRows
<1> QED
  BY <1>1 DEF Kept

\* A worker's run in the directory ends: the state file has no second run to disturb.
LEMMA EndKeeps ==
    ASSUME IInv, [Next]_vars, NEW d \in Deployments, SerializedFor(d), Kept(d),
           NEW w \in Workers, NEW ok \in BOOLEAN, EndTerraform(w, ok)
    PROVE  Kept(d)' /\ (d \in strays' => d \in strays)
<1> USE DEF IInv
<1> PICK j \in Jobs : wk[w].job = j
  BY JobTypes DEF EndTerraform, Running, Working
<1>1. /\ wk[w].pc \in Running
      /\ wk'[w].job = j
      /\ wk'[w].pc = IF ~ok THEN "failed" ELSE IF j.type = "DESTROY" THEN "cleanup" ELSE "done"
      /\ \A v \in Workers : v # w => wk'[v] = wk[v]
      /\ UNCHANGED orphans
  BY JobTypes DEF EndTerraform, Goto, Working, TypeOK, Running
<1>2. CASE j.dep # d
  <2>1. (d \in strays' <=> d \in strays) /\ (d \in tracked' <=> d \in tracked)
    BY <1>2 DEF EndTerraform, TerraformEnds, ApplyEnds, DestroyEnds
  <2> QED
    BY <1>1, <1>2, <2>1, KeptFrame
<1>3. CASE j.dep = d
  <2>1. wk[w].pc = "run" /\ \A o \in orphans : o.job.dep # d
    BY <1>1, <1>3 DEF Kept, Running
  <2>2. j.creds = owner[d] /\ \A v \in Workers : wk[v].pc # "idle" /\ wk[v].job.dep = d => v = w
    BY <1>3, <2>1 DEF SerializedFor
  <2>3. d \in strays' => d \in strays
    BY <1>3, <2>1, <2>2 DEF EndTerraform, TerraformEnds, ApplyEnds, DestroyEnds, Mine
  <2>4. wk'[w].pc = "cleanup" => d \notin tracked'
    BY <1>1, <1>3, <2>1 DEF EndTerraform, TerraformEnds, DestroyEnds
  <2>5. \A v \in Workers : v # w => wk'[v].pc = "idle" \/ wk'[v].job.dep # d
    BY <1>1, <2>2
  <2>6. Kept(d)'
    BY <1>1, <2>1, <2>4, <2>5 DEF Kept
  <2> QED
    BY <2>3, <2>6
<1> QED
  BY <1>2, <1>3

LEMMA CleanupKeeps ==
    ASSUME IInv, [Next]_vars, NEW d \in Deployments, SerializedFor(d), Kept(d),
           NEW w \in Workers, RemoveWorkspace(w)
    PROVE  Kept(d)' /\ (d \in strays' => d \in strays)
<1> USE DEF IInv
<1> PICK e \in Deployments : wk[w].job.dep = e
  BY JobTypes DEF RemoveWorkspace, Working, Jobs
<1>1. wk[w].pc = "cleanup" /\ wk'[w].pc = "done"
  BY JobTypes DEF RemoveWorkspace, Working
<1>2. e = d => d \notin tracked /\ \A o \in orphans : o.job.dep # d
  BY <1>1 DEF Kept
<1>3. (d \in strays' => d \in strays) /\ (d \in tracked' => d \in tracked)
  BY <1>2 DEF RemoveWorkspace, RemoveDirectory
<1>4. \A v \in Workers : v # w =>
          wk'[v] = wk[v] \/ (e # d /\ wk'[v].job.dep = e)
  <2>1. ASSUME NEW v \in Workers, v # w, wk'[v] # wk[v]
        PROVE  e # d /\ wk'[v].job.dep = e
    <3>1. wk'[v] = Detach(wk[v], e) /\ wk[v].pc = "run" /\ wk[v].job.dep = e
      BY <2>1 DEF RemoveWorkspace, Detach
    <3>2. wk'[v].job = wk[v].job
      BY <3>1, JobTypes DEF Detach, Working
    <3>3. e # d
      BY <1>1, <2>1, <3>1 DEF SerializedFor
    <3> QED
      BY <3>1, <3>2, <3>3
  <2> QED
    BY <2>1
<1>5. ASSUME NEW o \in orphans', o.job.dep = d
      PROVE  o \in orphans
  <2> PICK p \in orphans : o = Detach(p, e)
    BY <1>5 DEF RemoveWorkspace
  <2>1. p \in [pc : Running, job : Jobs]
    BY DEF TypeOK
  <2>2. o.job = p.job
    BY <2>1 DEF Detach
  <2>3. e # d
    BY <1>2, <1>5, <2>2
  <2> QED
    BY <1>5, <2>2, <2>3 DEF Detach
<1> QED
  BY <1>1, <1>3, <1>4, <1>5, KeptFrame

LEMMA WorkerKeepsServers ==
    ASSUME IInv, [Next]_vars, NEW d \in Deployments, SerializedFor(d), Kept(d),
           NEW w \in Workers, Worker(w)
    PROVE  Kept(d)' /\ (d \in strays' => d \in strays)
<1> USE DEF IInv
<1>1. CASE Take(w) \/ Prepare(w) \/ StepFails(w)
  <2>1. \A v \in Workers : v # w => wk'[v] = wk[v]
    BY <1>1 DEF Take, Prepare, StepFails, Goto, TypeOK
  <2>2. wk'[w].pc \in {"prepare", "start", "failed"}
    BY <1>1, JobTypes DEF Take, Prepare, StepFails, Goto, Working, TypeOK
  <2>3. UNCHANGED <<orphans, tracked, strays>>
    BY <1>1 DEF Take, Prepare, StepFails, WriteConfig, tfVars
  <2> QED
    BY <2>1, <2>2, <2>3, KeptFrame
<1>2. CASE StartTerraform(w)
  <2> PICK j \in Jobs : wk[w].job = j
    BY <1>2, JobTypes DEF StartTerraform, Working
  <2>1. /\ \A v \in Workers : v # w => wk'[v] = wk[v]
        /\ wk'[w].pc = "run" /\ wk'[w].job = j
        /\ UNCHANGED <<owner, orphans, tracked, strays>>
    BY <1>2, JobTypes DEF StartTerraform, Goto, Working, TypeOK, tfVars, dbVars
  <2>2. j.dep = d => \A o \in orphans : o.job.dep # d
    BY <1>2 DEF StartTerraform, Locked, Kept
  <2> QED
    BY <2>1, <2>2 DEF Kept
<1>3. CASE \E ok \in BOOLEAN : EndTerraform(w, ok)
  BY <1>3, EndKeeps
<1>4. CASE RemoveWorkspace(w)
  BY <1>4, CleanupKeeps
<1>5. CASE FinishFailed(w) \/ FinishDeploy(w) \/ FinishDestroy(w)
  <2>1. /\ \A v \in Workers : v # w => wk'[v] = wk[v]
        /\ wk'[w].pc = "idle"
        /\ UNCHANGED <<orphans, tracked, strays>>
    BY <1>5 DEF FinishFailed, FinishDeploy, FinishDestroy, TypeOK, Idle, tfVars
  <2> QED
    BY <2>1, KeptFrame
<1> QED
  BY <1>1, <1>2, <1>3, <1>4, <1>5 DEF Worker

\* The runs that a stop leaves behind are those of the workers.
LEMMA StopKeeps ==
    ASSUME IInv, NEW d \in Deployments, SerializedFor(d), Kept(d), Stop
    PROVE  Kept(d)'
<1>1. ASSUME NEW o \in orphans', o.job.dep = d
      PROVE  o.pc = "run" /\ o.job.creds = owner'[d]
  <2>1. UNCHANGED owner
    BY DEF Stop, dbVars
  <2>2. CASE o \in orphans
    BY <1>1, <2>1, <2>2 DEF Kept
  <2>3. ASSUME NEW w \in Workers, wk[w].pc \in Running, o = wk[w]
        PROVE  o.pc = "run" /\ o.job.creds = owner[d]
    BY <1>1, <2>3 DEF Kept, SerializedFor, Running
  <2> QED
    BY <1>1, <2>1, <2>2, <2>3 DEF Stop
<1>2. \A w \in Workers : wk'[w].pc = "idle"
  BY DEF Stop, Idle
<1> QED
  BY <1>1, <1>2 DEF Kept

\* A run that outlived its process ends or is killed.
LEMMA OrphanKeeps ==
    ASSUME IInv, [Next]_vars, NEW d \in Deployments, Kept(d), NEW o \in orphans,
           OrphanKilled(o) \/ \E ok \in BOOLEAN : OrphanEnds(o, ok)
    PROVE  /\ Kept(d)'
           /\ d \in strays' \ strays =>
                 OrphanKilled(o) /\ o.pc = "run" /\ o.job.type = "DEPLOY" /\ o.job.dep = d
<1> USE DEF IInv
<1>0. UNCHANGED <<owner, wk>> /\ orphans' = orphans \ {o}
  BY DEF OrphanKilled, OrphanEnds, dbVars
<1>1. CASE o.job.dep # d
  <2>1. (d \in strays' <=> d \in strays) /\ (d \in tracked' <=> d \in tracked)
    BY <1>1 DEF OrphanKilled, ApplyKilled, OrphanEnds, TerraformEnds, ApplyEnds, DestroyEnds
  <2> QED
    BY <1>0, <2>1, KeptFrame
<1>2. CASE o.job.dep = d
  <2>1. o.pc = "run" /\ o.job.creds = owner[d]
    BY <1>2 DEF Kept
  <2>2. \A w \in Workers : wk[w].pc # "idle" /\ wk[w].job.dep = d => wk[w].pc # "cleanup"
    BY <1>2 DEF Kept
  <2>3. Kept(d)'
    BY <1>0, <2>2 DEF Kept
  <2>4. ASSUME NEW ok \in BOOLEAN, OrphanEnds(o, ok)
        PROVE  d \in strays' => d \in strays
    BY <1>2, <2>1, <2>4 DEF OrphanEnds, TerraformEnds, ApplyEnds, DestroyEnds, Mine
  <2> QED
    BY <1>2, <2>1, <2>3, <2>4 DEF OrphanKilled
<1> QED
  BY <1>1, <1>2

LEMMA StaysKept ==
    ASSUME IInv, NEW d \in Deployments, SerializedFor(d), Kept(d), [Next]_vars
    PROVE  /\ Kept(d)'
           /\ d \in strays' \ strays =>
                 \E o \in orphans \ orphans' :
                    o.pc = "run" /\ o.job.type = "DEPLOY" /\ o.job.dep = d
<1>1. ASSUME UNCHANGED <<orphans, wk, tfVars>>
      PROVE  Kept(d)' /\ UNCHANGED strays
  BY <1>1, KeptFrame DEF tfVars
<1>2. ASSUME NEW r \in Reqs, Handler(r)
      PROVE  UNCHANGED <<orphans, wk, tfVars>>
  BY <1>2 DEF Handler, Deploy, DeployReplyLost, Destroy, AdminTerminate, BeginDestroy,
              MarkDestroying, AssumeRole, AssumeRoleFails, Push
<1>3. ASSUME NEW w \in Workers, Worker(w)
      PROVE  Kept(d)' /\ (d \in strays' => d \in strays)
  BY <1>3, WorkerKeepsServers
<1>4. CASE Crash \/ Exit
  BY <1>4, StopKeeps DEF Crash, Exit, Stop, tfVars
<1>5. CASE Shutdown \/ Boot \/ UNCHANGED vars
  BY <1>1, <1>5 DEF Shutdown, Boot, vars, tfVars
<1>6. ASSUME NEW o \in orphans, OrphanKilled(o) \/ \E ok \in BOOLEAN : OrphanEnds(o, ok)
      PROVE  /\ Kept(d)'
             /\ d \in strays' \ strays =>
                   o \notin orphans' /\ o.pc = "run" /\ o.job.type = "DEPLOY" /\ o.job.dep = d
  BY <1>6, OrphanKeeps DEF OrphanKilled
<1>7. CASE Environment
  <2>1. \/ UNCHANGED <<orphans, wk, tfVars>>
        \/ \E o \in orphans : OrphanKilled(o) \/ \E ok \in BOOLEAN : OrphanEnds(o, ok)
    BY <1>7 DEF Environment, WebhookUpdate, Reconcile, DeleteRows
  <2> QED
    BY <1>1, <1>6, <2>1
<1> QED
  BY <1>1, <1>2, <1>3, <1>4, <1>5, <1>6, <1>7 DEF Next, Process

\* Through crashes, restarts and a recovery that fails rows whose terraform still runs,
\* a server is lost only by killing an apply that outlived its process, as long as the
\* jobs of each deployment run one at a time and with the owner's account.
THEOREM OnlyKillsLoseServers == Spec /\ []Serialized => LostOnlyByKills
<1> DEFINE AllKept == \A d \in Deployments : Kept(d)
           Lost == \A d \in strays' \ strays :
                      \E o \in orphans \ orphans' :
                         o.pc = "run" /\ o.job.type = "DEPLOY" /\ o.job.dep = d
<1>1. Init => AllKept
  BY DEF Init, Idle, Kept
<1>2. IInv /\ Serialized /\ AllKept /\ [Next]_vars => AllKept'
  BY StaysKept DEF Serialized
<1>3. IInv /\ IInv' /\ Serialized /\ AllKept /\ [Next]_vars => [Lost]_vars
  <2> SUFFICES ASSUME IInv, IInv', Serialized, AllKept, [Next]_vars
               PROVE  Lost
    OBVIOUS
  <2>1. strays' \subseteq Deployments
    BY DEF IInv, TypeOK, TerraformTypeOK, Deployments
  <2> QED
    BY <2>1, StaysKept DEF Serialized
<1>4. [][Lost]_vars <=> LostOnlyByKills
  BY DEF LostOnlyByKills
<1> QED
  BY <1>1, <1>2, <1>3, <1>4, Inductive, PTL DEF Spec

-----------------------------------------------------------------------------
(* One worker and one account.                                             *)

RowsOwned == \A d \in Deployments : status[d] # "none" => owner[d] \in Users

LEMMA RowsStayOwned ==
    ASSUME TypeOK, RowsOwned, [Next]_vars
    PROVE  RowsOwned'
<1>1. CASE \E r \in Reqs, d \in Deployments, u \in Users :
              Deploy(r, d, u) \/ DeployReplyLost(r, d, u)
  BY <1>1 DEF Deploy, DeployReplyLost, CreateDeployment, RowsOwned, TypeOK
<1>2. CASE ~ \E r \in Reqs, d \in Deployments, u \in Users :
              Deploy(r, d, u) \/ DeployReplyLost(r, d, u)
  <2>1. UNCHANGED owner /\ \A d \in Deployments : status[d] = "none" => status'[d] = "none"
    <3>1. ASSUME NEW r \in Reqs, Handler(r)
          PROVE  UNCHANGED owner /\ \A d \in Deployments : status[d] = "none" => status'[d] = "none"
      BY <1>2, <3>1 DEF Handler, Destroy, AdminTerminate, BeginDestroy, MarkDestroying, AssumeRole,
                  AssumeRoleFails, Push, UpdateStatus, WriteStatus, Present, TypeOK, dbVars
    <3>2. ASSUME NEW w \in Workers, Worker(w)
          PROVE  UNCHANGED owner /\ \A d \in Deployments : status[d] = "none" => status'[d] = "none"
      <4>1. CASE FinishFailed(w) \/ FinishDestroy(w)
        BY <4>1 DEF FinishFailed, FinishDestroy, UpdateStatusAndError, WriteStatus, Present, TypeOK
      <4>2. CASE ~ (FinishFailed(w) \/ FinishDestroy(w))
        BY <3>2, <4>2 DEF Worker, Take, Prepare, StepFails, StartTerraform, EndTerraform,
                          RemoveWorkspace, FinishDeploy, dbVars
      <4> QED
        BY <4>1, <4>2
    <3>3. CASE Process
      BY <3>3 DEF Process, Crash, Shutdown, Exit, Stop, Boot, RecoverOrphanedDeployments,
                  FailInFlight, InFlight, TypeOK, dbVars
    <3>4. CASE Environment
      BY <3>4 DEF Environment, WebhookUpdate, OrphanKilled, OrphanEnds, Reconcile, FailInFlight,
                  InFlight, DeleteRows, Present, TypeOK, dbVars
    <3>5. CASE UNCHANGED vars
      BY <3>5 DEF vars, dbVars
    <3> QED
      BY <3>1, <3>2, <3>3, <3>4, <3>5 DEF Next
  <2> QED
    BY <2>1 DEF RowsOwned
<1> QED
  BY <1>1, <1>2

\* One worker never has two jobs, and with one account every job has the owner's.
LEMMA OneWorkerSerializes ==
    ASSUME \A v, w \in Workers : v = w,
           \A u, v \in Users : u = v
    PROVE  Spec => []Serialized
<1>1. Init => RowsOwned
  BY DEF Init, RowsOwned
<1>2. IInv /\ RowsOwned /\ [Next]_vars => RowsOwned'
  BY RowsStayOwned DEF IInv
<1>3. IInv /\ RowsOwned => Serialized
  <2> SUFFICES ASSUME IInv, RowsOwned, NEW w \in Workers, wk[w].pc # "idle"
               PROVE  wk[w].job.creds = owner[wk[w].job.dep]
    BY DEF Serialized, SerializedFor
  <2>1. wk[w].job \in Jobs
    BY JobTypes DEF IInv, Working
  <2>2. status[wk[w].job.dep] # "none"
    BY <2>1 DEF IInv, JobsHaveRows, Held
  <2>3. owner[wk[w].job.dep] \in Users
    BY <2>1, <2>2 DEF RowsOwned, Jobs
  <2> QED
    BY <2>1, <2>3 DEF Jobs
<1> QED
  BY <1>1, <1>2, <1>3, Inductive, PTL DEF Spec

\* What the run checks of the servers before the first stop holds for any number of
\* deployments and handlers.
THEOREM OneWorkerOneAccount ==
    ASSUME "DESTROYED" \notin WebhookStatuses,
           \A v, w \in Workers : v = w,
           \A u, v \in Users : u = v
    PROVE  Spec => []LiveReclaimable
BY OneWorkerSerializes, ServersStayReclaimable, PTL

\* ... and what it checks of them after a stop.
THEOREM OneWorkerOnlyKillsLose ==
    ASSUME \A v, w \in Workers : v = w,
           \A u, v \in Users : u = v
    PROVE  Spec => LostOnlyByKills
BY OneWorkerSerializes, OnlyKillsLoseServers, PTL
=============================================================================
