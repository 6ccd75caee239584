-------------------------- MODULE ZegionServerProofs --------------------------
(* When the ephemeral engine loses no server: as long as a pull request has *)
(* its jobs one at a time and with the owner's credentials, its server      *)
(* stays in its state file until the first stop, and after a stop is lost   *)
(* only by killing an apply that outlived its process.                      *)
EXTENDS ZegionProofs

\* No two workers have a job of this pull request at the same time, and a worker that
\* has one has it with the owner's credentials.
SerializedFor(e) ==
    \A w \in Workers :
        wk[w].pc # "idle" /\ wk[w].job.env = e =>
            /\ wk[w].job.creds = owner[e]
            /\ \A v \in Workers : wk[v].pc # "idle" /\ wk[v].job.env = e => v = w

Serialized == \A e \in Envs : SerializedFor(e)

\* No server of this pull request is lost, and no directory is removed that may still
\* track one.
Tidy(e) ==
    /\ e \notin strays
    /\ \A w \in Workers :
          wk[w].job.env = e /\ wk[w].pc # "idle" =>
              /\ wk[w].pc # "detached"
              /\ wk[w].pc = "cleanup" => e \notin tracked

\* Before the first stop no terraform run is without its process.
NoOrphans == stops = 0 => mode = "up" /\ orphans = {}

TidyUntilStop(e) == stops = 0 => Tidy(e)

-----------------------------------------------------------------------------

LEMMA OrphansNeedStops ==
    ASSUME IInv, NoOrphans, [Next]_vars
    PROVE  NoOrphans'
<1> USE ZegionAssumption DEF NoOrphans
<1>0. stops \in Nat
  BY DEF IInv, TypeOK
<1>1. ASSUME NEW r \in Reqs, Handler(r)
      PROVE  UNCHANGED <<mode, orphans, stops>>
  BY <1>1 DEF Handler, GithubWebhook, UpsertReplyLost, Terminate, AdminTerminate, ReadRow,
              MarkDestroying, AdminMarkAndPanic, RoleMissing, AssumeRole, AssumeRoleFails, Push
<1>2. ASSUME NEW w \in Workers, Worker(w)
      PROVE  UNCHANGED <<mode, stops>> /\ (orphans = {} => orphans' = {})
  BY <1>2 DEF Worker, Take, Prepare, StepFails, StartTerraform, EndTerraform, RemoveWorkspace,
              FinishFailed, FinishProvision, FinishDestroy
<1>3. CASE Process
  BY <1>0, <1>3 DEF Process, Crash, Shutdown, Exit, Boot
<1>4. CASE Environment
  BY <1>4 DEF Environment, MarkBuilt, OrphanKilled, OrphanEnds, Reconcile, DeleteRows
<1>5. CASE UNCHANGED vars
  BY <1>5 DEF vars
<1> QED
  BY <1>1, <1>2, <1>3, <1>4, <1>5 DEF Next

\* A step that leaves the servers of e alone and moves no worker of e to "detached" or
\* to "cleanup" keeps e tidy.
LEMMA TidyFrame ==
    ASSUME NEW e \in Envs, Tidy(e),
           e \notin strays',
           e \in tracked' => e \in tracked,
           \A w \in Workers : wk'[w].pc # "idle" /\ wk'[w].job.env = e =>
               \/ wk'[w].pc \notin {"detached", "cleanup"}
               \/ wk[w].pc = wk'[w].pc /\ wk[w].job.env = e
    PROVE  Tidy(e)'
BY DEF Tidy

LEMMA WorkerTidies ==
    ASSUME IInv, NEW e \in Envs, SerializedFor(e), Tidy(e), NEW w \in Workers, Worker(w)
    PROVE  Tidy(e)'
<1> USE DEF IInv
<1>1. CASE Take(w) \/ Prepare(w) \/ StepFails(w) \/ StartTerraform(w)
  <2>1. \A v \in Workers : v # w => wk'[v] = wk[v]
    BY <1>1 DEF Take, Prepare, StepFails, StartTerraform, Goto, TypeOK
  <2>2. wk'[w].pc \in {"prepare", "start", "failed", "run"}
    BY <1>1, JobTypes DEF Take, Prepare, StepFails, StartTerraform, Goto, Working
  <2>3. UNCHANGED <<tracked, strays>>
    BY <1>1 DEF Take, Prepare, StepFails, StartTerraform, WriteConfig, tfVars
  <2> QED
    BY <2>1, <2>2, <2>3, TidyFrame DEF Tidy
<1>2. ASSUME NEW ok \in BOOLEAN, EndTerraform(w, ok)
      PROVE  Tidy(e)'
  <2> PICK j \in Jobs : wk[w].job = j
    BY <1>2, JobTypes DEF EndTerraform, Running, Working
  <2>1. /\ wk[w].pc \in Running
        /\ wk'[w].job = j
        /\ wk'[w].pc = IF ~ok THEN "failed" ELSE IF j.type = "DESTROY" THEN "cleanup" ELSE "done"
        /\ \A v \in Workers : v # w => wk'[v] = wk[v]
    BY <1>2, JobTypes DEF EndTerraform, Goto, Working
  <2>2. CASE j.env # e
    <3>1. (e \in strays' <=> e \in strays) /\ (e \in tracked' <=> e \in tracked)
      BY <1>2, <2>2 DEF EndTerraform, TerraformEnds, ApplyEnds, DestroyEnds
    <3> QED
      BY <2>1, <2>2, <3>1, TidyFrame DEF Tidy
  <2>3. CASE j.env = e
    <3>1. wk[w].pc = "run"
      BY <2>1, <2>3 DEF Tidy, Running
    <3>2. j.creds = owner[e] /\ \A v \in Workers : wk[v].pc # "idle" /\ wk[v].job.env = e => v = w
      BY <2>3, <3>1 DEF SerializedFor
    <3>3. e \notin strays'
      BY <1>2, <2>3, <3>1, <3>2 DEF EndTerraform, TerraformEnds, ApplyEnds, DestroyEnds, Tidy
    <3>4. wk'[w].pc = "cleanup" => e \notin tracked'
      BY <1>2, <2>1, <2>3, <3>1, <3>2 DEF EndTerraform, TerraformEnds, DestroyEnds
    <3>5. \A v \in Workers : v # w => wk'[v].pc = "idle" \/ wk'[v].job.env # e
      BY <2>1, <3>2
    <3> QED
      BY <2>1, <3>3, <3>4, <3>5 DEF Tidy
  <2> QED
    BY <2>2, <2>3
<1>3. CASE RemoveWorkspace(w)
  <2> PICK d \in Envs : wk[w].job.env = d
    BY <1>3, JobTypes DEF RemoveWorkspace
  <2>1. wk[w].pc = "cleanup" /\ wk'[w].pc = "done"
    BY <1>3, JobTypes DEF RemoveWorkspace, Working
  <2>2. e = d => e \notin tracked
    BY <2>1 DEF Tidy
  <2>3. e \notin strays' /\ (e \in tracked' => e \in tracked)
    BY <1>3, <2>2 DEF RemoveWorkspace, RemoveDirectory, Tidy
  <2>4. \A v \in Workers : v # w =>
            wk'[v] = wk[v] \/ (d # e /\ wk'[v].job.env = d /\ wk[v].job.env = d)
    <3>1. ASSUME NEW v \in Workers, v # w, wk'[v] # wk[v]
          PROVE  d # e /\ wk'[v].job.env = d /\ wk[v].job.env = d
      <4>1. wk'[v] = Detach(wk[v], d) /\ wk[v].pc = "run" /\ wk[v].job.env = d
        BY <1>3, <3>1 DEF RemoveWorkspace, Detach
      <4>2. wk'[v].job = wk[v].job
        BY <4>1, JobTypes DEF Detach, Working
      <4>3. d # e
        BY <2>1, <3>1, <4>1 DEF SerializedFor
      <4> QED
        BY <4>1, <4>2, <4>3
    <3> QED
      BY <3>1
  <2> QED
    BY <2>1, <2>3, <2>4, TidyFrame
<1>4. CASE FinishFailed(w) \/ FinishProvision(w) \/ FinishDestroy(w)
  <2>1. /\ \A v \in Workers : v # w => wk'[v] = wk[v]
        /\ wk'[w].pc = "idle"
    BY <1>4 DEF FinishFailed, FinishProvision, FinishDestroy, TypeOK, Idle
  <2>2. UNCHANGED <<tracked, strays>>
    BY <1>4 DEF FinishFailed, FinishProvision, FinishDestroy, tfVars
  <2> QED
    BY <2>1, <2>2, TidyFrame DEF Tidy
<1> QED
  BY <1>1, <1>2, <1>3, <1>4 DEF Worker

LEMMA StaysTidy ==
    ASSUME IInv, NoOrphans, NEW e \in Envs, SerializedFor(e), TidyUntilStop(e), [Next]_vars
    PROVE  TidyUntilStop(e)'
<1> USE ZegionAssumption
<1>0. stops \in Nat
  BY DEF IInv, TypeOK
<1> SUFFICES ASSUME stops' = 0
             PROVE  Tidy(e)'
  BY DEF TidyUntilStop
<1>1. ASSUME NEW r \in Reqs, Handler(r)
      PROVE  UNCHANGED <<wk, stops, tfVars>>
  BY <1>1 DEF Handler, GithubWebhook, UpsertReplyLost, Terminate, AdminTerminate, ReadRow,
              MarkDestroying, AdminMarkAndPanic, RoleMissing, AssumeRole, AssumeRoleFails, Push
<1>2. ASSUME UNCHANGED <<wk, stops, tfVars>>
      PROVE  Tidy(e)'
  BY <1>2 DEF TidyUntilStop, Tidy, tfVars
<1>3. ASSUME NEW w \in Workers, Worker(w)
      PROVE  Tidy(e)'
  <2>1. UNCHANGED stops
    BY <1>3 DEF Worker, Take, Prepare, StepFails, StartTerraform, EndTerraform, RemoveWorkspace,
                FinishFailed, FinishProvision, FinishDestroy
  <2> QED
    BY <1>3, <2>1, WorkerTidies DEF TidyUntilStop
<1>4. CASE Process
  BY <1>0, <1>4 DEF Process, Crash, Shutdown, Exit, Boot, NoOrphans
<1>5. CASE Environment
  <2>1. UNCHANGED stops
    BY <1>5 DEF Environment, MarkBuilt, OrphanKilled, OrphanEnds, Reconcile, DeleteRows
  <2>2. orphans = {}
    BY <2>1 DEF NoOrphans
  <2>3. UNCHANGED <<wk, tfVars>>
    BY <1>5, <2>2 DEF Environment, MarkBuilt, Reconcile, DeleteRows
  <2> QED
    BY <1>2, <2>1, <2>3
<1>6. CASE UNCHANGED vars
  BY <1>2, <1>6 DEF vars
<1> QED
  BY <1>1, <1>2, <1>3, <1>4, <1>5, <1>6 DEF Next

LEMMA InitiallyTidy ==
    ASSUME Init
    PROVE  NoOrphans /\ \A e \in Envs : TidyUntilStop(e)
BY DEF Init, TerraformInit, Idle, NoOrphans, TidyUntilStop, Tidy

\* Until the first stop a pull request's server is in a state file, as long as the jobs
\* of this pull request (not of others) run one at a time and with the owner's account.
THEOREM ServerStaysTracked ==
    ASSUME NEW e \in Envs
    PROVE  Spec /\ []SerializedFor(e) => [](stops = 0 => e \notin strays)
<1>1. IInv /\ NoOrphans /\ [Next]_vars => NoOrphans'
  BY OrphansNeedStops
<1>2. IInv /\ NoOrphans /\ SerializedFor(e) /\ TidyUntilStop(e) /\ [Next]_vars => TidyUntilStop(e)'
  BY StaysTidy
<1>3. Init => NoOrphans /\ TidyUntilStop(e)
  BY InitiallyTidy
<1>4. TidyUntilStop(e) => (stops = 0 => e \notin strays)
  BY DEF TidyUntilStop, Tidy
<1> QED
  BY <1>1, <1>2, <1>3, <1>4, Inductive, PTL DEF Spec

\* ... of all servers: as long as every pull request's jobs are run in this way.
THEOREM ServersStayTracked == Spec /\ []Serialized => []ServersTracked
<1> DEFINE AllTidy == \A e \in Envs : TidyUntilStop(e)
<1>1. IInv /\ NoOrphans /\ [Next]_vars => NoOrphans'
  BY OrphansNeedStops
<1>2. IInv /\ NoOrphans /\ Serialized /\ AllTidy /\ [Next]_vars => AllTidy'
  BY StaysTidy DEF Serialized
<1>3. Init => NoOrphans /\ AllTidy
  BY InitiallyTidy
<1>4. IInv /\ AllTidy => ServersTracked
  BY DEF TidyUntilStop, Tidy, ServersTracked, IInv, TypeOK, TerraformTypeOK
<1> QED
  BY <1>1, <1>2, <1>3, <1>4, Inductive, PTL DEF Spec

-----------------------------------------------------------------------------
(* Whose the rows are that jobs are about.                                 *)

\* The row has been inserted: it has an owner.
Known(e) == status[e] # "none" /\ owner[e] \in Users

With(j) ==
    \/ \E r \in Reqs : req[r].pc # "idle" /\ req[r].job = j
    \/ Queued(j)
    \/ WithWorker(j)

JobsKnown == \A j \in Jobs : With(j) => Known(j.env)

\* An upsert finds the row of its own user; nothing else writes the owner, and nothing
\* makes a row one that was never inserted.
LEMMA KnownStays ==
    ASSUME TypeOK, [Next]_vars, NEW e \in Envs, Known(e)
    PROVE  Known(e)' /\ owner'[e] = owner[e]
<1> SUFFICES status'[e] # "none" /\ owner'[e] = owner[e]
  BY DEF Known
<1> USE DEF Known
<1>1. ASSUME NEW r \in Reqs, Handler(r)
      PROVE  status'[e] # "none" /\ owner'[e] = owner[e]
  <2>1. ASSUME NEW f \in Envs, NEW u \in Users, NEW p \in PullRequests,
               NEW t \in {"PROVISION", "DESTROY"},
               GithubWebhook(r, f, u, p, t) \/ UpsertReplyLost(r, f, u, p, t)
        PROVE  status'[e] # "none" /\ owner'[e] = owner[e]
    <3>1. e = f => owner[e] = u
      BY <2>1 DEF GithubWebhook, UpsertReplyLost, UpsertEnvironment, RowFor
    <3>2. owner' = [owner EXCEPT ![f] = u] /\ status' = [status EXCEPT ![f] = StatusOf(t)]
      BY <2>1 DEF GithubWebhook, UpsertReplyLost, UpsertEnvironment, Put
    <3> QED
      BY <3>1, <3>2 DEF StatusOf, TypeOK
  <2>2. CASE MarkDestroying(r) \/ AssumeRoleFails(r)
    BY <2>2 DEF MarkDestroying, AssumeRoleFails, UpdateStatus, Put, Miss, TypeOK, dbVars
  <2>3. CASE AdminMarkAndPanic(r)
    BY <2>3 DEF AdminMarkAndPanic, Miss, TypeOK, dbVars
  <2>4. CASE \/ \E f \in Envs : AdminTerminate(r, f) \/ \E u \in Users : Terminate(r, f, u)
             \/ RoleMissing(r) \/ AssumeRole(r) \/ Push(r)
    BY <2>4 DEF AdminTerminate, Terminate, ReadRow, RoleMissing, AssumeRole, Push, dbVars
  <2> QED
    BY <1>1, <2>1, <2>2, <2>3, <2>4 DEF Handler
<1>2. ASSUME NEW w \in Workers, Worker(w)
      PROVE  status'[e] # "none" /\ owner'[e] = owner[e]
  <2>1. CASE FinishFailed(w) \/ FinishDestroy(w)
    BY <2>1 DEF FinishFailed, FinishDestroy, UpdateStatus, Put, Miss, TypeOK
  <2>2. CASE ~ (FinishFailed(w) \/ FinishDestroy(w))
    BY <1>2, <2>2 DEF Worker, Take, Prepare, StepFails, StartTerraform, EndTerraform,
                      RemoveWorkspace, FinishProvision, dbVars
  <2> QED
    BY <2>1, <2>2
<1>3. CASE Process
  BY <1>3 DEF Process, Crash, Shutdown, Exit, Stop, Boot, RecoverOrphanedEnvironments,
              FailInFlight, InFlight, TypeOK, dbVars
<1>4. CASE Environment
  BY <1>4 DEF Environment, MarkBuilt, OrphanKilled, OrphanEnds, Reconcile, FailInFlight,
              InFlight, DeleteRows, TypeOK, dbVars
<1>5. CASE UNCHANGED vars
  BY <1>5 DEF vars, dbVars
<1> QED
  BY <1>1, <1>2, <1>3, <1>4, <1>5 DEF Next

\* Whatever a step puts somewhere was somewhere, or its row was just read or written.
LEMMA JobsStayKnown ==
    ASSUME IInv, JobsKnown, [Next]_vars
    PROVE  JobsKnown'
<1> USE DEF IInv
<1> SUFFICES ASSUME NEW j \in Jobs, With(j)'
             PROVE  With(j) \/ Known(j.env)'
  BY KnownStays DEF JobsKnown, Jobs
<1>1. ASSUME NEW r \in Reqs, Handler(r)
      PROVE  With(j) \/ Known(j.env)'
  <2>0. /\ \A q \in Reqs : q # r => req'[q] = req[q]
        /\ UNCHANGED wk
    BY <1>1 DEF Handler, GithubWebhook, UpsertReplyLost, Terminate, AdminTerminate, ReadRow,
                MarkDestroying, AdminMarkAndPanic, RoleMissing, AssumeRole, AssumeRoleFails,
                Push, TypeOK
  <2>1. Queued(j)' => With(j)
    <3>1. CASE Push(r)
      <4>1. req[r].job \in Jobs /\ jobs \in Seq(Jobs) /\ req[r].pc # "idle"
        BY <3>1, JobTypes DEF Push, Attempting, TypeOK
      <4>2. Queued(j)' <=> j = req[r].job \/ Queued(j)
        BY <3>1, <4>1, PushedJobs DEF Push, Queued
      <4> QED
        BY <4>1, <4>2 DEF With
    <3>2. CASE ~ Push(r)
      <4>1. UNCHANGED jobs
        BY <1>1, <3>2 DEF Handler, GithubWebhook, UpsertReplyLost, Terminate, AdminTerminate,
                          ReadRow, MarkDestroying, AdminMarkAndPanic, RoleMissing, AssumeRole,
                          AssumeRoleFails
      <4> QED
        BY <4>1 DEF Queued, With
    <3> QED
      BY <3>1, <3>2
  <2>2. WithWorker(j)' => With(j)
    BY <2>0 DEF WithWorker, With
  <2>3. ASSUME req'[r].pc # "idle", req'[r].job = j
        PROVE  With(j) \/ Known(j.env)'
    <3>1. ASSUME NEW e \in Envs, NEW u \in Users, NEW p \in PullRequests,
                 NEW t \in {"PROVISION", "DESTROY"}, GithubWebhook(r, e, u, p, t)
          PROVE  Known(j.env)'
      <4>1. j = Job(t, e, u)
        BY <2>3, <3>1 DEF GithubWebhook, TypeOK
      <4>2. Known(e)'
        BY <3>1 DEF GithubWebhook, UpsertEnvironment, Put, StatusOf, Known, TypeOK
      <4> QED
        BY <4>1, <4>2 DEF Job
    <3>2. ASSUME NEW e \in Envs, NEW u, NEW refused, NEW pc, ReadRow(r, e, u, refused, pc)
          PROVE  Known(j.env)'
      <4>1. j = Job("DESTROY", e, u)
        BY <2>3, <3>2 DEF ReadRow, TypeOK
      <4>2. Known(e)'
        BY <3>2 DEF ReadRow, dbVars, RowsOwned, Present, Known
      <4> QED
        BY <4>1, <4>2 DEF Job
    <3>3. CASE MarkDestroying(r) \/ AssumeRole(r)
      <4>1. req[r].pc # "idle" /\ req[r].job = j
        BY <2>3, <3>3, JobTypes DEF MarkDestroying, AssumeRole, Attempting
      <4> QED
        BY <4>1 DEF With
    <3>4. CASE AdminMarkAndPanic(r) \/ RoleMissing(r) \/ AssumeRoleFails(r) \/ Push(r)
      BY <2>3, <3>4 DEF AdminMarkAndPanic, RoleMissing, AssumeRoleFails, Push, Idle, TypeOK
    <3>5. ASSUME NEW e \in Envs, NEW u \in Users, NEW p \in PullRequests,
                 NEW t \in {"PROVISION", "DESTROY"}, UpsertReplyLost(r, e, u, p, t)
          PROVE  With(j)
      BY <2>3, <3>5 DEF UpsertReplyLost, With
    <3> QED
      BY <1>1, <3>1, <3>2, <3>3, <3>4, <3>5 DEF Handler, Terminate, AdminTerminate
  <2> QED
    BY <2>0, <2>1, <2>2, <2>3 DEF With
<1>2. ASSUME NEW w \in Workers, Worker(w)
      PROVE  With(j)
  <2>1. CASE Take(w)
    <3>1. Queued(j) <=> j = Head(jobs) \/ Queued(j)'
      BY <2>1, TakenJobs DEF Take, Queued, TypeOK
    <3>2. WithWorker(j)' => j = Head(jobs) \/ WithWorker(j)
      BY <2>1 DEF Take, WithWorker, TypeOK
    <3> QED
      BY <2>1, <3>1, <3>2 DEF Take, With
  <2>2. CASE ~ Take(w)
    <3>1. UNCHANGED <<req, jobs>>
      BY <1>2, <2>2 DEF Worker, Prepare, StepFails, StartTerraform, EndTerraform,
                        RemoveWorkspace, FinishFailed, FinishProvision, FinishDestroy
    <3>2. \A v \in Workers : wk'[v].pc # "idle" => wk[v].pc # "idle" /\ wk'[v].job = wk[v].job
      <4>1. CASE RemoveWorkspace(w)
        BY <4>1, JobTypes DEF RemoveWorkspace, Detach, Working
      <4>2. CASE Prepare(w) \/ StepFails(w) \/ StartTerraform(w)
                 \/ \E ok \in BOOLEAN : EndTerraform(w, ok)
        BY <4>2, JobTypes DEF Prepare, StepFails, StartTerraform, EndTerraform, Goto, Working,
                              Running
      <4>3. CASE FinishFailed(w) \/ FinishProvision(w) \/ FinishDestroy(w)
        BY <4>3, JobTypes DEF FinishFailed, FinishProvision, FinishDestroy
      <4> QED
        BY <1>2, <2>2, <4>1, <4>2, <4>3 DEF Worker
    <3> QED
      BY <3>1, <3>2 DEF With, Queued, WithWorker
  <2> QED
    BY <2>1, <2>2
<1>3. CASE Crash \/ Exit
  BY <1>3 DEF Crash, Exit, Stop, Idle, With, Queued, WithWorker
<1>4. CASE Shutdown \/ Boot \/ Environment \/ UNCHANGED vars
  <2>1. UNCHANGED <<req, jobs, wk>>
    BY <1>4 DEF Shutdown, Boot, Environment, MarkBuilt, OrphanKilled, OrphanEnds, Reconcile,
                DeleteRows, vars
  <2> QED
    BY <2>1 DEF With, Queued, WithWorker
<1> QED
  BY <1>1, <1>2, <1>3, <1>4 DEF Next, Process

LEMMA KnownAlways == Spec => []JobsKnown
<1>1. Init => JobsKnown
  BY DEF Init, Idle, JobsKnown, With, Queued, WithWorker
<1>2. IInv /\ JobsKnown /\ [Next]_vars => JobsKnown'
  BY JobsStayKnown
<1> QED
  BY <1>1, <1>2, Inductive, PTL DEF Spec

-----------------------------------------------------------------------------
(* After a stop: only an apply that is killed loses a server.              *)

\* The terraform runs of this pull request that outlived their process work in its
\* directory, for its owner, and while there is one no worker is past the lock.
Kept(e) ==
    /\ \A o \in orphans : o.job.env = e => o.pc = "run" /\ o.job.creds = owner[e] /\ Known(e)
    /\ \A w \in Workers :
          wk[w].pc # "idle" /\ wk[w].job.env = e =>
              /\ wk[w].pc # "detached"
              /\ wk[w].pc \in {"run", "cleanup"} => \A o \in orphans : o.job.env # e
              /\ wk[w].pc = "cleanup" => e \notin tracked

\* A step that brings no run of e, and moves no worker of e to or past the lock.
LEMMA KeptFrame ==
    ASSUME IInv, [Next]_vars, NEW e \in Envs, Kept(e),
           \A o \in orphans' : o.job.env = e => o \in orphans,
           e \in tracked' => e \in tracked,
           \A w \in Workers : wk'[w].pc # "idle" /\ wk'[w].job.env = e =>
               \/ wk'[w] = wk[w]
               \/ wk'[w].pc \in {"prepare", "start", "failed", "done"}
    PROVE  Kept(e)'
<1>1. \A o \in orphans : o.job.env = e => owner'[e] = owner[e] /\ Known(e)'
  BY KnownStays DEF IInv, Kept
<1> QED
  BY <1>1 DEF Kept

\* A worker's run in the directory ends: the state file has no second run to disturb.
LEMMA EndKeeps ==
    ASSUME IInv, [Next]_vars, NEW e \in Envs, SerializedFor(e), Kept(e),
           NEW w \in Workers, NEW ok \in BOOLEAN, EndTerraform(w, ok)
    PROVE  Kept(e)' /\ (e \in strays' => e \in strays)
<1> USE DEF IInv
<1> PICK j \in Jobs : wk[w].job = j
  BY JobTypes DEF EndTerraform, Running, Working
<1>1. /\ wk[w].pc \in Running
      /\ wk'[w].job = j
      /\ wk'[w].pc = IF ~ok THEN "failed" ELSE IF j.type = "DESTROY" THEN "cleanup" ELSE "done"
      /\ \A v \in Workers : v # w => wk'[v] = wk[v]
      /\ UNCHANGED orphans
  BY JobTypes DEF EndTerraform, Goto, Working, TypeOK, Running
<1>2. CASE j.env # e
  <2>1. (e \in strays' <=> e \in strays) /\ (e \in tracked' <=> e \in tracked)
    BY <1>2 DEF EndTerraform, TerraformEnds, ApplyEnds, DestroyEnds
  <2> QED
    BY <1>1, <1>2, <2>1, KeptFrame
<1>3. CASE j.env = e
  <2>1. wk[w].pc = "run" /\ \A o \in orphans : o.job.env # e
    BY <1>1, <1>3 DEF Kept, Running
  <2>2. j.creds = owner[e] /\ \A v \in Workers : wk[v].pc # "idle" /\ wk[v].job.env = e => v = w
    BY <1>3, <2>1 DEF SerializedFor
  <2>3. e \in strays' => e \in strays
    BY <1>3, <2>1, <2>2 DEF EndTerraform, TerraformEnds, ApplyEnds, DestroyEnds
  <2>4. wk'[w].pc = "cleanup" => e \notin tracked'
    BY <1>1, <1>3, <2>1 DEF EndTerraform, TerraformEnds, DestroyEnds
  <2>5. \A v \in Workers : v # w => wk'[v].pc = "idle" \/ wk'[v].job.env # e
    BY <1>1, <2>2
  <2>6. Kept(e)'
    BY <1>1, <2>1, <2>4, <2>5 DEF Kept
  <2> QED
    BY <2>3, <2>6
<1> QED
  BY <1>2, <1>3

LEMMA CleanupKeeps ==
    ASSUME IInv, [Next]_vars, NEW e \in Envs, SerializedFor(e), Kept(e),
           NEW w \in Workers, RemoveWorkspace(w)
    PROVE  Kept(e)' /\ (e \in strays' => e \in strays)
<1> USE DEF IInv
<1> PICK d \in Envs : wk[w].job.env = d
  BY JobTypes DEF RemoveWorkspace, Working, Jobs
<1>1. wk[w].pc = "cleanup" /\ wk'[w].pc = "done"
  BY JobTypes DEF RemoveWorkspace, Working
<1>2. d = e => e \notin tracked /\ \A o \in orphans : o.job.env # e
  BY <1>1 DEF Kept
<1>3. (e \in strays' => e \in strays) /\ (e \in tracked' => e \in tracked)
  BY <1>2 DEF RemoveWorkspace, RemoveDirectory
<1>4. \A v \in Workers : v # w =>
          wk'[v] = wk[v] \/ (d # e /\ wk'[v].job.env = d)
  <2>1. ASSUME NEW v \in Workers, v # w, wk'[v] # wk[v]
        PROVE  d # e /\ wk'[v].job.env = d
    <3>1. wk'[v] = Detach(wk[v], d) /\ wk[v].pc = "run" /\ wk[v].job.env = d
      BY <2>1 DEF RemoveWorkspace, Detach
    <3>2. wk'[v].job = wk[v].job
      BY <3>1, JobTypes DEF Detach, Working
    <3>3. d # e
      BY <1>1, <2>1, <3>1 DEF SerializedFor
    <3> QED
      BY <3>1, <3>2, <3>3
  <2> QED
    BY <2>1
<1>5. ASSUME NEW o \in orphans', o.job.env = e
      PROVE  o \in orphans
  <2> PICK p \in orphans : o = Detach(p, d)
    BY <1>5 DEF RemoveWorkspace
  <2>1. p \in [pc : Running, job : Jobs]
    BY DEF TypeOK
  <2>2. o.job = p.job
    BY <2>1 DEF Detach
  <2>3. d # e
    BY <1>2, <1>5, <2>2
  <2> QED
    BY <1>5, <2>2, <2>3 DEF Detach
<1> QED
  BY <1>1, <1>3, <1>4, <1>5, KeptFrame

LEMMA WorkerKeepsServers ==
    ASSUME IInv, [Next]_vars, NEW e \in Envs, SerializedFor(e), Kept(e),
           NEW w \in Workers, Worker(w)
    PROVE  Kept(e)' /\ (e \in strays' => e \in strays)
<1> USE DEF IInv
<1>1. CASE Take(w) \/ Prepare(w) \/ StepFails(w)
  <2>1. \A v \in Workers : v # w => wk'[v] = wk[v]
    BY <1>1 DEF Take, Prepare, StepFails, Goto, TypeOK
  <2>2. wk'[w].pc \in {"prepare", "start", "failed"}
    BY <1>1, JobTypes DEF Take, Prepare, StepFails, Goto, Working, TypeOK
  <2>3. UNCHANGED <<orphans, tracked, strays>>
    BY <1>1 DEF Take, Prepare, StepFails, WriteConfig, tfVars
  <2> QED
    BY <2>1, <2>2, <2>3, KeptFrame
<1>2. CASE StartTerraform(w)
  <2> PICK j \in Jobs : wk[w].job = j
    BY <1>2, JobTypes DEF StartTerraform, Working
  <2>1. /\ \A v \in Workers : v # w => wk'[v] = wk[v]
        /\ wk'[w].pc = "run" /\ wk'[w].job = j
        /\ UNCHANGED <<status, owner, orphans, tracked, strays>>
    BY <1>2, JobTypes DEF StartTerraform, Goto, Working, TypeOK, tfVars, dbVars
  <2>2. j.env = e => \A o \in orphans : o.job.env # e
    BY <1>2 DEF StartTerraform, Locked, Kept
  <2> QED
    BY <2>1, <2>2 DEF Kept, Known
<1>3. CASE \E ok \in BOOLEAN : EndTerraform(w, ok)
  BY <1>3, EndKeeps
<1>4. CASE RemoveWorkspace(w)
  BY <1>4, CleanupKeeps
<1>5. CASE FinishFailed(w) \/ FinishProvision(w) \/ FinishDestroy(w)
  <2>1. /\ \A v \in Workers : v # w => wk'[v] = wk[v]
        /\ wk'[w].pc = "idle"
        /\ UNCHANGED <<orphans, tracked, strays>>
    BY <1>5 DEF FinishFailed, FinishProvision, FinishDestroy, TypeOK, Idle, tfVars
  <2> QED
    BY <2>1, KeptFrame
<1> QED
  BY <1>1, <1>2, <1>3, <1>4, <1>5 DEF Worker

\* The runs that a stop leaves behind are those of the workers.
LEMMA StopKeeps ==
    ASSUME IInv, JobsKnown, NEW e \in Envs, SerializedFor(e), Kept(e), Stop
    PROVE  Kept(e)'
<1>1. UNCHANGED <<status, owner>>
  BY DEF Stop, dbVars
<1>2. ASSUME NEW o \in orphans', o.job.env = e
      PROVE  o.pc = "run" /\ o.job.creds = owner[e] /\ Known(e)
  <2>1. CASE o \in orphans
    BY <1>2, <2>1 DEF Kept
  <2>2. ASSUME NEW w \in Workers, wk[w].pc \in Running, o = wk[w]
        PROVE  o.pc = "run" /\ o.job.creds = owner[e] /\ Known(e)
    <3>1. wk[w].pc = "run" /\ wk[w].job.creds = owner[e]
      BY <1>2, <2>2 DEF Kept, SerializedFor, Running
    <3>2. wk[w].job \in Jobs /\ With(wk[w].job)
      BY <3>1, JobTypes DEF IInv, Working, With, WithWorker
    <3> QED
      BY <1>2, <2>2, <3>1, <3>2 DEF JobsKnown
  <2> QED
    BY <1>2, <2>1, <2>2 DEF Stop
<1>3. \A w \in Workers : wk'[w].pc = "idle"
  BY DEF Stop, Idle
<1> QED
  BY <1>1, <1>2, <1>3 DEF Kept, Known

\* A run that outlived its process ends or is killed.
LEMMA OrphanKeeps ==
    ASSUME IInv, [Next]_vars, NEW e \in Envs, Kept(e), NEW o \in orphans,
           OrphanKilled(o) \/ \E ok \in BOOLEAN : OrphanEnds(o, ok)
    PROVE  /\ Kept(e)'
           /\ e \in strays' \ strays =>
                 OrphanKilled(o) /\ o.pc = "run" /\ o.job.type = "PROVISION" /\ o.job.env = e
<1> USE DEF IInv
<1>0. UNCHANGED <<status, owner, wk>> /\ orphans' = orphans \ {o}
  BY DEF OrphanKilled, OrphanEnds, dbVars
<1>1. CASE o.job.env # e
  <2>1. (e \in strays' <=> e \in strays) /\ (e \in tracked' <=> e \in tracked)
    BY <1>1 DEF OrphanKilled, ApplyKilled, OrphanEnds, TerraformEnds, ApplyEnds, DestroyEnds
  <2> QED
    BY <1>0, <2>1, KeptFrame
<1>2. CASE o.job.env = e
  <2>1. o.pc = "run" /\ o.job.creds = owner[e]
    BY <1>2 DEF Kept
  <2>2. \A w \in Workers : wk[w].pc # "idle" /\ wk[w].job.env = e => wk[w].pc # "cleanup"
    BY <1>2 DEF Kept
  <2>3. Kept(e)'
    BY <1>0, <2>2 DEF Kept, Known
  <2>4. ASSUME NEW ok \in BOOLEAN, OrphanEnds(o, ok)
        PROVE  e \in strays' => e \in strays
    BY <1>2, <2>1, <2>4 DEF OrphanEnds, TerraformEnds, ApplyEnds, DestroyEnds
  <2> QED
    BY <1>2, <2>1, <2>3, <2>4 DEF OrphanKilled
<1> QED
  BY <1>1, <1>2

LEMMA StaysKept ==
    ASSUME IInv, JobsKnown, NEW e \in Envs, SerializedFor(e), Kept(e), [Next]_vars
    PROVE  /\ Kept(e)'
           /\ e \in strays' \ strays =>
                 \E o \in orphans \ orphans' :
                    o.pc = "run" /\ o.job.type = "PROVISION" /\ o.job.env = e
<1>1. ASSUME UNCHANGED <<orphans, wk, tfVars>>
      PROVE  Kept(e)' /\ UNCHANGED strays
  BY <1>1, KeptFrame DEF tfVars
<1>2. ASSUME NEW r \in Reqs, Handler(r)
      PROVE  UNCHANGED <<orphans, wk, tfVars>>
  BY <1>2 DEF Handler, GithubWebhook, UpsertReplyLost, Terminate, AdminTerminate, ReadRow,
              MarkDestroying, AdminMarkAndPanic, RoleMissing, AssumeRole, AssumeRoleFails, Push
<1>3. ASSUME NEW w \in Workers, Worker(w)
      PROVE  Kept(e)' /\ (e \in strays' => e \in strays)
  BY <1>3, WorkerKeepsServers
<1>4. CASE Crash \/ Exit
  BY <1>4, StopKeeps DEF Crash, Exit, Stop, tfVars
<1>5. CASE Shutdown \/ Boot \/ UNCHANGED vars
  BY <1>1, <1>5 DEF Shutdown, Boot, vars, tfVars
<1>6. ASSUME NEW o \in orphans, OrphanKilled(o) \/ \E ok \in BOOLEAN : OrphanEnds(o, ok)
      PROVE  /\ Kept(e)'
             /\ e \in strays' \ strays =>
                   o \notin orphans' /\ o.pc = "run" /\ o.job.type = "PROVISION" /\ o.job.env = e
  BY <1>6, OrphanKeeps DEF OrphanKilled
<1>7. CASE Environment
  <2>1. \/ UNCHANGED <<orphans, wk, tfVars>>
        \/ \E o \in orphans : OrphanKilled(o) \/ \E ok \in BOOLEAN : OrphanEnds(o, ok)
    BY <1>7 DEF Environment, MarkBuilt, Reconcile, DeleteRows
  <2> QED
    BY <1>1, <1>6, <2>1
<1> QED
  BY <1>1, <1>2, <1>3, <1>4, <1>5, <1>6, <1>7 DEF Next, Process

\* Through crashes, restarts and a recovery that fails rows whose terraform still runs,
\* a server is lost only by killing an apply that outlived its process, as long as the
\* jobs of each pull request run one at a time and with the owner's account.
THEOREM OnlyKillsLoseServers == Spec /\ []Serialized => LostOnlyByKills
<1> DEFINE AllKept == \A e \in Envs : Kept(e)
           Lost == \A e \in strays' \ strays :
                      \E o \in orphans \ orphans' :
                         o.pc = "run" /\ o.job.type = "PROVISION" /\ o.job.env = e
<1>1. Init => AllKept
  BY DEF Init, Idle, Kept
<1>2. IInv /\ JobsKnown /\ Serialized /\ AllKept /\ [Next]_vars => AllKept'
  BY StaysKept DEF Serialized
<1>3. IInv /\ IInv' /\ JobsKnown /\ Serialized /\ AllKept /\ [Next]_vars => [Lost]_vars
  <2> SUFFICES ASSUME IInv, IInv', JobsKnown, Serialized, AllKept, [Next]_vars
               PROVE  Lost
    OBVIOUS
  <2>1. strays' \subseteq Envs
    BY DEF IInv, TypeOK, TerraformTypeOK
  <2> QED
    BY <2>1, StaysKept DEF Serialized
<1>4. [][Lost]_vars <=> LostOnlyByKills
  BY DEF LostOnlyByKills
<1> QED
  BY <1>1, <1>2, <1>3, <1>4, Inductive, KnownAlways, PTL DEF Spec

-----------------------------------------------------------------------------
(* One worker and one account.                                             *)

\* One worker never has two jobs, and with one account every job has the owner's.
LEMMA OneWorkerSerializes ==
    ASSUME \A v, w \in Workers : v = w,
           \A u, v \in Users : u = v
    PROVE  Spec => []Serialized
<1>1. IInv /\ JobsKnown => Serialized
  <2> SUFFICES ASSUME IInv, JobsKnown, NEW w \in Workers, wk[w].pc # "idle"
               PROVE  wk[w].job.creds = owner[wk[w].job.env]
    BY DEF Serialized, SerializedFor
  <2>1. wk[w].job \in Jobs
    BY JobTypes DEF IInv, Working
  <2>2. owner[wk[w].job.env] \in Users
    BY <2>1 DEF JobsKnown, With, WithWorker, Known
  <2> QED
    BY <2>1, <2>2 DEF Jobs
<1> QED
  BY <1>1, Inductive, KnownAlways, PTL

\* What the run checks of the servers before the first stop holds for any number of pull
\* requests, environments and handlers.
THEOREM OneWorkerOneAccount ==
    ASSUME \A v, w \in Workers : v = w,
           \A u, v \in Users : u = v
    PROVE  Spec => []ServersTracked
BY OneWorkerSerializes, ServersStayTracked, PTL

\* ... and what it checks of them after a stop.
THEOREM OneWorkerOnlyKillsLose ==
    ASSUME \A v, w \in Workers : v = w,
           \A u, v \in Users : u = v
    PROVE  Spec => LostOnlyByKills
BY OneWorkerSerializes, OnlyKillsLoseServers, PTL
=============================================================================
