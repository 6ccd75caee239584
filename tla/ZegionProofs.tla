----------------------------- MODULE ZegionProofs -----------------------------
(* Proofs about the ephemeral engine, for every number of environments,     *)
(* pull requests, handlers, workers, users and stops, and every capacity.   *)
EXTENDS Zegion, QueueLemmas, TLAPS

Attempting == [pc : {"write", "adminwrite", "marked", "delivered", "push"}, job : Jobs]
Working == [pc : {"prepare", "start", "cleanup", "done", "failed"} \cup Running, job : Jobs]

-----------------------------------------------------------------------------
(* Type correctness.                                                       *)

TableOK ==
    /\ status \in [Envs -> Statuses]
    /\ owner \in [Envs -> Users \cup {"none"}]
    /\ pr \in [Envs -> PullRequests \cup {"none"}]
    /\ stale \subseteq Envs
    /\ stranded \subseteq Envs

\* Writes, upserts and recovery keep the types of the table.
LEMMA UpdateTypes ==
    ASSUME TypeOK, NEW e \in Envs, NEW s \in Statuses, UpdateStatus(e, s)
    PROVE  TableOK'
BY DEF TypeOK, TableOK, UpdateStatus, Put, Miss

LEMMA UpsertTypes ==
    ASSUME TypeOK, NEW e \in Envs, NEW u \in Users, NEW p \in PullRequests, NEW s \in Statuses,
           UpsertEnvironment(e, u, p, s)
    PROVE  TableOK'
BY DEF TypeOK, TableOK, UpsertEnvironment, Put

LEMMA RecoveryTypes ==
    ASSUME TypeOK, RecoverOrphanedEnvironments \/ FailInFlight
    PROVE  TableOK'
BY DEF TypeOK, TableOK, RecoverOrphanedEnvironments, FailInFlight, Statuses

\* A row has an owner from its upsert on; AdminTerminate relies on it.
RowsOwned == \A e \in Envs : Present(e) => owner[e] \in Users

LEMMA UpdatesOwned ==
    ASSUME TypeOK, RowsOwned, NEW e \in Envs, NEW s, UpdateStatus(e, s)
    PROVE  RowsOwned'
BY DEF TypeOK, RowsOwned, Present, UpdateStatus, Put, Miss

\* Terraform runs keep the types of the directories and of the cloud.
LEMMA TerraformTypes ==
    ASSUME TerraformTypeOK, NEW e \in Envs, NEW att, NEW mine, NEW ok,
           \/ ApplyEnds(e, att, ok) \/ DestroyEnds(e, att, mine, ok)
           \/ ApplyKilled(e, att)
           \/ WriteConfig(e) \/ RemoveDirectory(e)
    PROVE  TerraformTypeOK'
BY DEF TerraformTypeOK, ApplyEnds, DestroyEnds, ApplyKilled, WriteConfig, RemoveDirectory

\* What a handler or a worker that is not idle holds.
LEMMA JobTypes ==
    ASSUME TypeOK
    PROVE  /\ req \in [Reqs -> {Idle} \cup Attempting]
           /\ wk \in [Workers -> {Idle} \cup Working]
           /\ Idle.pc = "idle" /\ Idle.job = NoJob
           /\ \A r \in Reqs : req[r].pc # "idle" => req[r] \in Attempting /\ req[r].job.env \in Envs
           /\ \A w \in Workers : wk[w].pc # "idle" => wk[w] \in Working /\ wk[w].job.env \in Envs
           /\ \A o \in orphans : o.job \in Jobs /\ o.job.env \in Envs
BY DEF TypeOK, Idle, Attempting, Working, Jobs

LEMMA HandlerTypes ==
    ASSUME TypeOK, RowsOwned, NEW r \in Reqs, Handler(r)
    PROVE  TypeOK'
<1> USE ZegionAssumption
<1> USE DEF tfVars, dbVars, TerraformTypeOK
<1>0. /\ req \in [Reqs -> {Idle} \cup Attempting]
      /\ req[r].pc # "idle" => req[r] \in Attempting /\ req[r].job.env \in Envs
      /\ Idle.pc = "idle"
  BY JobTypes
<1>1. ASSUME NEW pc \in {"write", "adminwrite", "marked", "delivered", "push"}, NEW j \in Jobs,
             req' = [req EXCEPT ![r] = [pc |-> pc, job |-> j]]
      PROVE  req' \in [Reqs -> {Idle} \cup Attempting]
  BY <1>0, <1>1 DEF Attempting
<1>2. CASE \E e \in Envs, u \in Users, p \in PullRequests, t \in {"PROVISION", "DESTROY"} :
             GithubWebhook(r, e, u, p, t)
  <2> PICK e \in Envs, u \in Users, p \in PullRequests, t \in {"PROVISION", "DESTROY"} :
             GithubWebhook(r, e, u, p, t)
    BY <1>2
  <2>1. StatusOf(t) \in Statuses /\ Job(t, e, u) \in Jobs
    BY DEF StatusOf, Statuses, Job, Jobs
  <2>2. TableOK'
    BY <2>1, UpsertTypes DEF GithubWebhook
  <2>3. req' \in [Reqs -> {Idle} \cup Attempting]
    BY <1>1, <2>1 DEF GithubWebhook
  <2> QED
    BY <2>2, <2>3 DEF GithubWebhook, TypeOK, TableOK, Attempting
<1>3. CASE \E e \in Envs, u \in Users, p \in PullRequests, t \in {"PROVISION", "DESTROY"} :
             UpsertReplyLost(r, e, u, p, t)
  BY <1>3 DEF UpsertReplyLost, StatusOf, Statuses, TypeOK
<1>4. CASE \E e \in Envs : AdminTerminate(r, e) \/ \E u \in Users : Terminate(r, e, u)
  <2>1. ASSUME NEW e \in Envs, NEW u \in Users, NEW refused, NEW pc \in {"write", "adminwrite"},
               ReadRow(r, e, u, refused, pc)
        PROVE  TypeOK'
    <3>1. Job("DESTROY", e, u) \in Jobs
      BY DEF Job, Jobs
    <3>2. req' \in [Reqs -> {Idle} \cup Attempting]
      BY <1>1, <2>1, <3>1 DEF ReadRow
    <3> QED
      BY <2>1, <3>2 DEF ReadRow, TypeOK, Attempting
  <2>2. CASE \E e \in Envs, u \in Users : Terminate(r, e, u)
    BY <2>1, <2>2 DEF Terminate
  <2>3. ASSUME NEW e \in Envs, AdminTerminate(r, e)
        PROVE  TypeOK'
    <3>1. owner[e] \in Users
      BY <2>3 DEF AdminTerminate, ReadRow, RowsOwned
    <3> QED
      BY <2>1, <2>3, <3>1 DEF AdminTerminate
  <2> QED
    BY <1>4, <2>2, <2>3
<1>5. CASE MarkDestroying(r)
  <2>1. TableOK'
    BY <1>0, <1>5, UpdateTypes DEF MarkDestroying, Statuses
  <2>2. req' \in [Reqs -> {Idle} \cup Attempting]
    BY <1>0, <1>5 DEF MarkDestroying, Attempting
  <2> QED
    BY <1>5, <2>1, <2>2 DEF MarkDestroying, TypeOK, TableOK, Attempting
<1>6. CASE AdminMarkAndPanic(r)
  BY <1>0, <1>6 DEF AdminMarkAndPanic, Miss, TypeOK, Statuses
<1>7. CASE RoleMissing(r)
  BY <1>0, <1>7 DEF RoleMissing, TypeOK
<1>8. CASE AssumeRole(r)
  <2>1. req' \in [Reqs -> {Idle} \cup Attempting]
    BY <1>0, <1>8 DEF AssumeRole, Attempting
  <2> QED
    BY <1>8, <2>1 DEF AssumeRole, TypeOK, Attempting
<1>9. CASE AssumeRoleFails(r)
  <2>1. TableOK'
    BY <1>0, <1>9, UpdateTypes DEF AssumeRoleFails, Statuses
  <2> QED
    BY <1>9, <2>1 DEF AssumeRoleFails, TypeOK, TableOK
<1>10. CASE Push(r)
  <2>1. req[r].job \in Jobs
    BY <1>0, <1>10 DEF Push, Attempting
  <2> QED
    BY <1>10, <2>1 DEF Push, TypeOK
<1> QED
  BY <1>2, <1>3, <1>4, <1>5, <1>6, <1>7, <1>8, <1>9, <1>10 DEF Handler

LEMMA WorkerTypes ==
    ASSUME TypeOK, NEW w \in Workers, Worker(w)
    PROVE  TypeOK'
<1> USE ZegionAssumption
<1> USE DEF dbVars
<1>0. /\ wk \in [Workers -> {Idle} \cup Working]
      /\ wk[w].pc # "idle" => wk[w] \in Working /\ wk[w].job.env \in Envs
      /\ Idle.pc = "idle"
  BY JobTypes
<1>1. CASE Take(w)
  <2>1. Head(jobs) \in Jobs /\ Tail(jobs) \in Seq(Jobs) /\ Len(Tail(jobs)) = Len(jobs) - 1
    BY <1>1 DEF Take, TypeOK
  <2>2. Len(jobs') <= QCap
    BY <1>1, <2>1 DEF Take, TypeOK
  <2>3. wk' \in [Workers -> {Idle} \cup Working]
    BY <1>0, <1>1, <2>1 DEF Take, Working
  <2> QED
    BY <1>1, <2>1, <2>2, <2>3 DEF Take, TypeOK, Working, TerraformTypeOK, tfVars
<1>2. ASSUME NEW pc \in {"prepare", "start", "cleanup", "done", "failed"} \cup Running,
             wk[w].pc # "idle", Goto(w, pc)
      PROVE  wk' \in [Workers -> {Idle} \cup Working]
  BY <1>0, <1>2 DEF Goto, Working
<1>3. CASE Prepare(w)
  <2>1. wk' \in [Workers -> {Idle} \cup Working]
    BY <1>2, <1>3 DEF Prepare
  <2>2. TerraformTypeOK'
    BY <1>0, <1>3, TerraformTypes DEF Prepare, TypeOK, TerraformTypeOK, tfVars
  <2> QED
    BY <1>3, <2>1, <2>2 DEF Prepare, TypeOK, Working
<1>4. CASE StepFails(w)
  <2>1. wk' \in [Workers -> {Idle} \cup Working]
    BY <1>2, <1>4 DEF StepFails
  <2> QED
    BY <1>4, <2>1 DEF StepFails, TypeOK, Working, tfVars, TerraformTypeOK
<1>5. CASE StartTerraform(w)
  <2>1. wk' \in [Workers -> {Idle} \cup Working]
    BY <1>2, <1>5 DEF StartTerraform, Running
  <2> QED
    BY <1>5, <2>1 DEF StartTerraform, TypeOK, Working, tfVars, TerraformTypeOK
<1>6. CASE \E ok \in BOOLEAN : EndTerraform(w, ok)
  <2>1. wk' \in [Workers -> {Idle} \cup Working]
    BY <1>2, <1>6 DEF EndTerraform, Running
  <2>2. TerraformTypeOK'
    BY <1>0, <1>6, TerraformTypes DEF EndTerraform, TerraformEnds, TypeOK, Running
  <2> QED
    BY <1>6, <2>1, <2>2 DEF EndTerraform, TypeOK, Working
<1>7. CASE RemoveWorkspace(w)
  <2>1. \A v \in Workers : Detach(wk[v], wk[w].job.env) \in {Idle} \cup Working
    BY <1>0 DEF Detach, Working, Running
  <2>2. [wk[w] EXCEPT !.pc = "done"] \in Working
    BY <1>0, <1>7 DEF RemoveWorkspace, Working
  <2>3. wk' \in [Workers -> {Idle} \cup Working]
    BY <1>7, <2>1, <2>2 DEF RemoveWorkspace
  <2>4. orphans' \subseteq [pc : Running, job : Jobs]
    BY <1>7 DEF RemoveWorkspace, Detach, TypeOK, Running
  <2>5. TerraformTypeOK'
    BY <1>0, <1>7, TerraformTypes DEF RemoveWorkspace, TypeOK
  <2> QED
    BY <1>7, <2>3, <2>4, <2>5 DEF RemoveWorkspace, TypeOK, Working
<1>8. CASE FinishFailed(w) \/ FinishDestroy(w)
  <2>1. TableOK'
    BY <1>0, <1>8, UpdateTypes DEF FinishFailed, FinishDestroy, Statuses
  <2>2. wk' = [wk EXCEPT ![w] = Idle]
    BY <1>8 DEF FinishFailed, FinishDestroy
  <2> QED
    BY <1>0, <1>8, <2>1, <2>2
       DEF FinishFailed, FinishDestroy, TypeOK, TableOK, Working, tfVars, TerraformTypeOK
<1>9. CASE FinishProvision(w)
  BY <1>0, <1>9 DEF FinishProvision, TypeOK, Working, tfVars, TerraformTypeOK
<1> QED
  BY <1>1, <1>3, <1>4, <1>5, <1>6, <1>7, <1>8, <1>9 DEF Worker

LEMMA ProcessTypes ==
    ASSUME TypeOK, Process
    PROVE  TypeOK'
<1> USE ZegionAssumption
<1>1. ASSUME Stop
      PROVE  /\ mode' \in {"up", "draining", "down"}
             /\ req' \in [Reqs -> {Idle} \cup Attempting]
             /\ jobs' \in Seq(Jobs) /\ Len(jobs') <= QCap
             /\ wk' \in [Workers -> {Idle} \cup Working]
             /\ orphans' \subseteq [pc : Running, job : Jobs]
             /\ UNCHANGED <<dbVars, tfVars>>
  <2>1. \A w \in Workers : wk[w].pc \in Running => wk[w] \in [pc : Running, job : Jobs]
    BY DEF TypeOK, Idle, Running
  <2> QED
    BY <1>1, <2>1 DEF Stop, TypeOK
<1>2. CASE Crash
  BY <1>1, <1>2 DEF Crash, TypeOK, Attempting, Working, dbVars, tfVars, TerraformTypeOK
<1>3. CASE Shutdown
  BY <1>3 DEF Shutdown, TypeOK, dbVars, tfVars, TerraformTypeOK
<1>4. CASE Exit
  BY <1>1, <1>4 DEF Exit, TypeOK, Attempting, Working, dbVars, tfVars, TerraformTypeOK
<1>5. CASE Boot
  <2>1. TableOK'
    BY <1>5, RecoveryTypes DEF Boot
  <2> QED
    BY <1>5, <2>1 DEF Boot, TypeOK, TableOK, tfVars, TerraformTypeOK
<1> QED
  BY <1>2, <1>3, <1>4, <1>5 DEF Process

LEMMA EnvironmentTypes ==
    ASSUME TypeOK, Environment
    PROVE  TypeOK'
<1> USE ZegionAssumption
<1>1. CASE \E p \in PullRequests : MarkBuilt(p)
  BY <1>1 DEF MarkBuilt, TypeOK, Statuses, tfVars, TerraformTypeOK
<1>2. ASSUME NEW o \in orphans, OrphanKilled(o) \/ \E ok \in BOOLEAN : OrphanEnds(o, ok)
      PROVE  TypeOK'
  <2>1. o.job.env \in Envs
    BY JobTypes
  <2>2. TerraformTypeOK'
    BY <1>2, <2>1, TerraformTypes DEF OrphanKilled, OrphanEnds, TerraformEnds, TypeOK
  <2>3. /\ UNCHANGED <<mode, status, owner, pr, stale, req, jobs, wk, stops>>
        /\ stranded' \subseteq stranded \cup live
        /\ orphans' = orphans \ {o}
    BY <1>2 DEF OrphanKilled, OrphanEnds, dbVars
  <2> QED
    BY <2>2, <2>3 DEF TypeOK, live, TerraformTypeOK
<1>3. CASE Reconcile
  BY <1>3, RecoveryTypes DEF Reconcile, TypeOK, TableOK, tfVars, TerraformTypeOK
<1>4. CASE \E us \in {{u} : u \in Users} \cup {Users} : DeleteRows(us)
  BY <1>4 DEF DeleteRows, TypeOK, tfVars, TerraformTypeOK, Statuses
<1> QED
  BY <1>1, <1>2, <1>3, <1>4 DEF Environment

LEMMA RowsStayOwned ==
    ASSUME TypeOK, RowsOwned, [Next]_vars
    PROVE  RowsOwned'
<1>1. ASSUME NEW r \in Reqs, Handler(r)
      PROVE  RowsOwned'
  <2>1. CASE \E e \in Envs, u \in Users, p \in PullRequests, t \in {"PROVISION", "DESTROY"} :
               GithubWebhook(r, e, u, p, t) \/ UpsertReplyLost(r, e, u, p, t)
    BY <2>1 DEF GithubWebhook, UpsertReplyLost, UpsertEnvironment, Put, TypeOK, RowsOwned, Present
  <2>2. CASE MarkDestroying(r) \/ AssumeRoleFails(r)
    <3>1. req[r].job.env \in Envs
      BY <2>2, JobTypes DEF MarkDestroying, AssumeRoleFails
    <3> QED
      BY <2>2, <3>1, UpdatesOwned DEF MarkDestroying, AssumeRoleFails, RowsOwned, Present, dbVars
  <2>3. CASE AdminMarkAndPanic(r)
    BY <2>3 DEF AdminMarkAndPanic, Miss, dbVars, TypeOK, RowsOwned, Present
  <2>4. CASE \/ \E e \in Envs : AdminTerminate(r, e) \/ \E u \in Users : Terminate(r, e, u)
             \/ RoleMissing(r) \/ AssumeRole(r) \/ Push(r)
    BY <2>4 DEF AdminTerminate, Terminate, ReadRow, RoleMissing, AssumeRole, Push, dbVars,
                RowsOwned, Present
  <2> QED
    BY <1>1, <2>1, <2>2, <2>3, <2>4 DEF Handler
<1>2. ASSUME NEW w \in Workers, Worker(w)
      PROVE  RowsOwned'
  <2>1. CASE FinishFailed(w) \/ FinishDestroy(w)
    <3>1. wk[w].job.env \in Envs
      BY <2>1, JobTypes DEF FinishFailed, FinishDestroy
    <3> QED
      BY <2>1, <3>1, UpdatesOwned DEF FinishFailed, FinishDestroy
  <2>2. CASE ~ (FinishFailed(w) \/ FinishDestroy(w))
    <3>1. UNCHANGED dbVars
      BY <1>2, <2>2 DEF Worker, Take, Prepare, StepFails, StartTerraform, EndTerraform,
                        RemoveWorkspace, FinishProvision
    <3> QED
      BY <3>1 DEF dbVars, RowsOwned, Present
  <2> QED
    BY <2>1, <2>2
<1>3. CASE Process
  BY <1>3 DEF Process, Crash, Shutdown, Exit, Stop, Boot, RecoverOrphanedEnvironments,
              FailInFlight, InFlight, TypeOK, RowsOwned, Present, dbVars
<1>4. CASE Environment
  BY <1>4 DEF Environment, MarkBuilt, OrphanKilled, OrphanEnds, Reconcile, FailInFlight,
              InFlight, DeleteRows, TypeOK, RowsOwned, Present, dbVars
<1>5. CASE UNCHANGED vars
  BY <1>5 DEF vars, dbVars, RowsOwned, Present
<1> QED
  BY <1>1, <1>2, <1>3, <1>4, <1>5 DEF Next

LEMMA TypesKept ==
    ASSUME TypeOK, RowsOwned, [Next]_vars
    PROVE  (TypeOK /\ RowsOwned)'
<1>1. CASE Next
  BY <1>1, HandlerTypes, WorkerTypes, ProcessTypes, EnvironmentTypes, RowsStayOwned DEF Next
<1>2. CASE UNCHANGED vars
  BY <1>2, RowsStayOwned DEF vars, dbVars, tfVars, TypeOK, TerraformTypeOK
<1> QED
  BY <1>1, <1>2

LEMMA Typing == Spec => [](TypeOK /\ RowsOwned)
<1>1. Init => TypeOK /\ RowsOwned
  BY ZegionAssumption
     DEF Init, TypeOK, TerraformInit, TerraformTypeOK, Statuses, RowsOwned, Present
<1> QED
  BY <1>1, TypesKept, PTL DEF Spec

\* Every reachable state of the engine is well typed; in particular the channel
\* never holds more than QCap jobs, whatever GitHub delivers.
THEOREM TypeCorrect == Spec => []TypeOK
BY Typing, PTL

-----------------------------------------------------------------------------
(* Where destroy jobs go.                                                  *)

\* Only a destroy job is with a handler between its status write and STS.
WritingIsDestroying ==
    \A r \in Reqs : req[r].pc \in {"write", "marked"} => req[r].job.type = "DESTROY"

\* Only a destroy removes a directory.
CleaningIsDestroying ==
    \A w \in Workers : wk[w].pc = "cleanup" => wk[w].job.type = "DESTROY"

\* A row that says a destroy job is on its way.
Claims(e) == status[e] = "DESTROYING" /\ e \notin stale \cup stranded

Carrying == {"marked", "delivered", "push"}

WithHandler(j) == \E r \in Reqs : req[r].pc \in Carrying /\ req[r].job = j
Queued(j) == \E i \in DOMAIN jobs : jobs[i] = j
WithWorker(j) == \E w \in Workers : wk[w].pc # "idle" /\ wk[w].job = j

LEMMA HeldParts == \A j : Held(j) <=> WithHandler(j) \/ Queued(j) \/ WithWorker(j)
BY DEF Held, WithHandler, Queued, WithWorker, Carrying

LEMMA HeldPartsNext == \A j : Held(j)' <=> WithHandler(j)' \/ Queued(j)' \/ WithWorker(j)'
BY DEF Held, WithHandler, Queued, WithWorker, Carrying

\* A handler that moves on keeps its job and everybody else's.
LEMMA HandlerHolds ==
    ASSUME TypeOK, NEW r \in Reqs,
           \A q \in Reqs : q # r => req'[q] = req[q],
           req[r].pc \in Carrying => req'[r].pc \in Carrying /\ req'[r].job = req[r].job,
           UNCHANGED <<jobs, wk>>
    PROVE  \A j \in Jobs : Held(j) => Held(j)'
<1> SUFFICES ASSUME NEW j \in Jobs, Held(j)
             PROVE  Held(j)'
  OBVIOUS
<1>1. WithHandler(j) => WithHandler(j)'
  BY DEF WithHandler
<1>2. UNCHANGED <<Queued(j), WithWorker(j)>>
  BY DEF Queued, WithWorker
<1> QED
  BY <1>1, <1>2, HeldParts, HeldPartsNext

\* A handler that ends drops its own job and no other.
LEMMA HandlerDrops ==
    ASSUME TypeOK, NEW r \in Reqs, req' = [req EXCEPT ![r] = Idle], UNCHANGED <<jobs, wk>>
    PROVE  \A j \in Jobs : Held(j) => Held(j)' \/ j = req[r].job
<1> SUFFICES ASSUME NEW j \in Jobs, Held(j), j # req[r].job
             PROVE  Held(j)'
  OBVIOUS
<1>1. \A q \in Reqs : q # r => req'[q] = req[q]
  BY DEF TypeOK
<1>2. WithHandler(j) => WithHandler(j)'
  BY <1>1 DEF WithHandler
<1>3. UNCHANGED <<Queued(j), WithWorker(j)>>
  BY DEF Queued, WithWorker
<1> QED
  BY <1>2, <1>3, HeldParts, HeldPartsNext

\* Workers that keep their jobs, and a worker that ends one.
LEMMA WorkersHold ==
    ASSUME TypeOK, UNCHANGED <<req, jobs>>,
           \A v \in Workers : wk[v].pc # "idle" => wk'[v].pc # "idle" /\ wk'[v].job = wk[v].job
    PROVE  \A j \in Jobs : Held(j) => Held(j)'
<1> SUFFICES ASSUME NEW j \in Jobs, Held(j)
             PROVE  Held(j)'
  OBVIOUS
<1>1. WithWorker(j) => WithWorker(j)'
  BY DEF WithWorker
<1>2. UNCHANGED <<Queued(j), WithHandler(j)>>
  BY DEF Queued, WithHandler
<1> QED
  BY <1>1, <1>2, HeldParts, HeldPartsNext

LEMMA WorkerDrops ==
    ASSUME TypeOK, NEW w \in Workers, wk' = [wk EXCEPT ![w] = Idle], UNCHANGED <<req, jobs>>
    PROVE  \A j \in Jobs : Held(j) => Held(j)' \/ j = wk[w].job
<1> SUFFICES ASSUME NEW j \in Jobs, Held(j), j # wk[w].job
             PROVE  Held(j)'
  OBVIOUS
<1>1. \A v \in Workers : v # w => wk'[v] = wk[v]
  BY DEF TypeOK
<1>2. WithWorker(j) => WithWorker(j)'
  BY <1>1 DEF WithWorker
<1>3. UNCHANGED <<Queued(j), WithHandler(j)>>
  BY DEF Queued, WithHandler
<1> QED
  BY <1>2, <1>3, HeldParts, HeldPartsNext

\* The channel hands a job on.
LEMMA PushHolds ==
    ASSUME TypeOK, NEW r \in Reqs, Push(r)
    PROVE  \A j \in Jobs : Held(j) => Held(j)'
<1> SUFFICES ASSUME NEW j \in Jobs, Held(j)
             PROVE  Held(j)'
  OBVIOUS
<1>1. req[r].job \in Jobs /\ jobs \in Seq(Jobs)
  BY JobTypes DEF Push, Attempting, TypeOK
<1>2. Queued(j)' <=> j = req[r].job \/ Queued(j)
  BY <1>1, PushedJobs DEF Push, Queued
<1>3. \A q \in Reqs : q # r => req'[q] = req[q]
  BY DEF Push, TypeOK
<1>4. WithHandler(j) => WithHandler(j)' \/ j = req[r].job
  BY <1>3 DEF WithHandler
<1>5. UNCHANGED WithWorker(j)
  BY DEF Push, WithWorker
<1> QED
  BY <1>2, <1>4, <1>5, HeldParts, HeldPartsNext

LEMMA TakeHolds ==
    ASSUME TypeOK, NEW w \in Workers, Take(w)
    PROVE  \A j \in Jobs : Held(j) => Held(j)'
<1> SUFFICES ASSUME NEW j \in Jobs, Held(j)
             PROVE  Held(j)'
  OBVIOUS
<1>1. Queued(j) <=> j = Head(jobs) \/ Queued(j)'
  BY TakenJobs DEF Take, Queued, TypeOK
<1>2. /\ wk'[w].pc = "prepare" /\ wk'[w].job = Head(jobs)
      /\ \A v \in Workers : v # w => wk'[v] = wk[v]
  BY DEF Take, TypeOK
<1>3. /\ j = Head(jobs) => WithWorker(j)'
      /\ WithWorker(j) => WithWorker(j)'
  BY <1>2 DEF WithWorker, Take
<1>4. UNCHANGED WithHandler(j)
  BY DEF Take, WithHandler
<1> QED
  BY <1>1, <1>3, <1>4, HeldParts, HeldPartsNext

-----------------------------------------------------------------------------
(* Rows and destroy jobs.                                                  *)

IInv == TypeOK /\ RowsOwned /\ WritingIsDestroying /\ CleaningIsDestroying /\ DestroyingOwned

LEMMA DestroyJobs ==
    \A e \in Envs : /\ JobFor("DESTROY", e)
                          <=> \E j \in Jobs : j.type = "DESTROY" /\ j.env = e /\ Held(j)
                    /\ JobFor("DESTROY", e)'
                          <=> \E j \in Jobs : j.type = "DESTROY" /\ j.env = e /\ Held(j)'
<1>1. \A e \in Envs, u \in Users :
         /\ Job("DESTROY", e, u) \in Jobs
         /\ Job("DESTROY", e, u).type = "DESTROY"
         /\ Job("DESTROY", e, u).env = e
  BY DEF Job, Jobs
<1>2. \A j \in Jobs : j.type = "DESTROY" => j.creds \in Users /\ j = Job("DESTROY", j.env, j.creds)
  BY DEF Job, Jobs
<1> QED
  BY <1>1, <1>2 DEF JobFor

\* A step keeps the property when no row comes to claim a destroy job without one, and
\* a destroy job disappears only when its row stops to claim it or has another one.
LEMMA FrameSuffices ==
    ASSUME DestroyingOwned,
           mode' # "down" => mode # "down",
           \A e \in Envs : Claims(e)' => Claims(e) \/ JobFor("DESTROY", e)',
           \A j \in Jobs : Held(j) /\ j.type = "DESTROY" =>
                 Held(j)' \/ ~ Claims(j.env)' \/ JobFor("DESTROY", j.env)'
    PROVE  DestroyingOwned'
<1> SUFFICES ASSUME mode' # "down", NEW e \in Envs, Claims(e)'
             PROVE  JobFor("DESTROY", e)'
  BY DEF DestroyingOwned, Claims
<1>1. CASE Claims(e)
  <2>1. JobFor("DESTROY", e)
    BY <1>1 DEF DestroyingOwned, Claims
  <2> QED
    BY <2>1, DestroyJobs
<1> QED
  BY <1>1

\* A status write other than DESTROYING ends the claim of its row and starts none.
LEMMA WritesSettle ==
    ASSUME TypeOK, NEW e \in Envs, NEW s, s # "DESTROYING", UpdateStatus(e, s)
    PROVE  ~ Claims(e)' /\ \A f \in Envs : Claims(f)' => Claims(f)
BY DEF TypeOK, UpdateStatus, Put, Miss, Present, Claims

LEMMA HandlerKeeps ==
    ASSUME IInv, NEW r \in Reqs, Handler(r)
    PROVE  DestroyingOwned'
<1> USE DEF IInv
<1>0. UNCHANGED mode
  BY DEF Handler, GithubWebhook, UpsertReplyLost, Terminate, AdminTerminate, ReadRow,
         MarkDestroying, AdminMarkAndPanic, RoleMissing, AssumeRole, AssumeRoleFails, Push
<1>1. ASSUME NEW e \in Envs, NEW u \in Users, NEW p \in PullRequests,
             NEW t \in {"PROVISION", "DESTROY"}, GithubWebhook(r, e, u, p, t)
      PROVE  DestroyingOwned'
  <2>1. \A j \in Jobs : Held(j) => Held(j)'
    BY <1>1, HandlerHolds DEF GithubWebhook, Free, Carrying, TypeOK
  <2>2. \A f \in Envs : f # e => (Claims(f)' => Claims(f))
    BY <1>1 DEF GithubWebhook, UpsertEnvironment, Put, Claims, TypeOK
  <2>3. CASE t = "PROVISION"
    <3>1. ~ Claims(e)'
      BY <1>1, <2>3 DEF GithubWebhook, UpsertEnvironment, Put, Claims, TypeOK, StatusOf
    <3> QED
      BY <1>0, <2>1, <2>2, <3>1, FrameSuffices
  <2>4. CASE t = "DESTROY"
    <3>1. req'[r].pc = "delivered" /\ req'[r].job = Job("DESTROY", e, u)
      BY <1>1, <2>4 DEF GithubWebhook, TypeOK
    <3>2. Held(Job("DESTROY", e, u))'
      BY <3>1 DEF Held
    <3>3. JobFor("DESTROY", e)'
      BY <3>2 DEF JobFor
    <3> QED
      BY <1>0, <2>1, <2>2, <3>3, FrameSuffices
  <2> QED
    BY <2>3, <2>4
<1>2. ASSUME NEW e \in Envs, NEW u \in Users, NEW p \in PullRequests,
             NEW t \in {"PROVISION", "DESTROY"}, UpsertReplyLost(r, e, u, p, t)
      PROVE  DestroyingOwned'
  <2>1. \A j \in Jobs : Held(j) => Held(j)'
    BY <1>2 DEF UpsertReplyLost, Held
  <2>2. \A f \in Envs : Claims(f)' => Claims(f)
    BY <1>2 DEF UpsertReplyLost, Claims, TypeOK
  <2> QED
    BY <1>0, <2>1, <2>2, FrameSuffices
<1>3. ASSUME NEW e \in Envs, NEW u, NEW refused, NEW pc, ReadRow(r, e, u, refused, pc)
      PROVE  DestroyingOwned'
  <2>1. \A j \in Jobs : Held(j) => Held(j)'
    BY <1>3, HandlerHolds DEF ReadRow, Free, Carrying, TypeOK
  <2>2. \A f \in Envs : Claims(f)' => Claims(f)
    BY <1>3 DEF ReadRow, Claims, dbVars
  <2> QED
    BY <1>0, <2>1, <2>2, FrameSuffices
<1>4. CASE MarkDestroying(r)
  <2> PICK j \in Jobs, e \in Envs : req[r].job = j /\ j.env = e
    BY <1>4, JobTypes DEF MarkDestroying, Attempting
  <2>1. /\ j.type = "DESTROY"
        /\ req'[r].pc = "marked" /\ req'[r].job = j
    BY <1>4, JobTypes DEF MarkDestroying, Attempting, WritingIsDestroying
  <2>2. \A k \in Jobs : Held(k) => Held(k)'
    BY <1>4, HandlerHolds DEF MarkDestroying, Carrying, TypeOK
  <2>3. Held(j)'
    BY <2>1 DEF Held, TypeOK
  <2>4. JobFor("DESTROY", e)'
    BY <2>1, <2>3, DestroyJobs
  <2>5. \A f \in Envs : f # e => (Claims(f)' => Claims(f))
    BY <1>4 DEF MarkDestroying, UpdateStatus, Put, Miss, Claims, TypeOK
  <2> QED
    BY <1>0, <2>2, <2>4, <2>5, FrameSuffices
<1>5. CASE AdminMarkAndPanic(r)
  <2> PICK e \in Envs : req[r].job.env = e
    BY <1>5, JobTypes DEF AdminMarkAndPanic
  <2>1. \A j \in Jobs : Held(j) => Held(j)'
    BY <1>5, HandlerHolds DEF AdminMarkAndPanic, Carrying, TypeOK
  <2>2. \A f \in Envs : Claims(f)' => Claims(f) \/ JobFor("DESTROY", f)
    BY <1>5 DEF AdminMarkAndPanic, Miss, Claims, TypeOK, dbVars
  <2>3. \A f \in Envs : JobFor("DESTROY", f) => JobFor("DESTROY", f)'
    BY <2>1, DestroyJobs
  <2> QED
    BY <1>0, <2>1, <2>2, <2>3, FrameSuffices
<1>6. CASE RoleMissing(r)
  <2> PICK e \in Envs : req[r].job.env = e
    BY <1>6, JobTypes DEF RoleMissing
  <2>1. \A j \in Jobs : Held(j) => Held(j)' \/ j.env = e
    BY <1>6, HandlerDrops DEF RoleMissing
  <2>2. /\ Claims(e)' => JobFor("DESTROY", e)'
        /\ \A f \in Envs : Claims(f)' => Claims(f)
    BY <1>6 DEF RoleMissing, Claims, TypeOK
  <2> QED
    BY <1>0, <2>1, <2>2, FrameSuffices
<1>7. CASE AssumeRole(r)
  <2>1. req'[r].pc = "push" /\ req'[r].job = req[r].job
    BY <1>7, JobTypes DEF AssumeRole, Attempting
  <2>2. \A j \in Jobs : Held(j) => Held(j)'
    BY <1>7, <2>1, HandlerHolds DEF AssumeRole, Carrying, TypeOK
  <2>3. \A f \in Envs : Claims(f)' => Claims(f)
    BY <1>7 DEF AssumeRole, Claims, dbVars
  <2> QED
    BY <1>0, <2>2, <2>3, FrameSuffices
<1>8. CASE AssumeRoleFails(r)
  <2> PICK e \in Envs : req[r].job.env = e
    BY <1>8, JobTypes DEF AssumeRoleFails
  <2>1. \A j \in Jobs : Held(j) => Held(j)' \/ j.env = e
    BY <1>8, HandlerDrops DEF AssumeRoleFails
  <2>2. UpdateStatus(e, "DESTROY_FAILED") \/ UpdateStatus(e, "FAILED")
    BY <1>8 DEF AssumeRoleFails
  <2>3. ~ Claims(e)' /\ \A f \in Envs : Claims(f)' => Claims(f)
    BY <2>2, WritesSettle
  <2> QED
    BY <1>0, <2>1, <2>3, FrameSuffices
<1>9. CASE Push(r)
  <2>1. \A f \in Envs : Claims(f)' => Claims(f)
    BY <1>9 DEF Push, Claims, dbVars
  <2> QED
    BY <1>0, <1>9, <2>1, PushHolds, FrameSuffices
<1> QED
  BY <1>1, <1>2, <1>3, <1>4, <1>5, <1>6, <1>7, <1>8, <1>9 DEF Handler, Terminate, AdminTerminate

LEMMA WorkerKeeps ==
    ASSUME IInv, NEW w \in Workers, Worker(w)
    PROVE  DestroyingOwned'
<1> USE DEF IInv
<1>0. UNCHANGED mode
  BY DEF Worker, Take, Prepare, StepFails, StartTerraform, EndTerraform, RemoveWorkspace,
         FinishFailed, FinishProvision, FinishDestroy
<1>1. ASSUME UNCHANGED dbVars, \A j \in Jobs : Held(j) => Held(j)' \/ j.type = "PROVISION"
      PROVE  DestroyingOwned'
  <2>1. \A f \in Envs : Claims(f)' => Claims(f)
    BY <1>1 DEF Claims, dbVars
  <2> QED
    BY <1>0, <1>1, <2>1, FrameSuffices
<1>2. CASE Take(w)
  BY <1>1, <1>2, TakeHolds DEF Take
<1>3. ASSUME NEW pc, pc # "idle", wk[w].pc # "idle", Goto(w, pc), UNCHANGED <<req, jobs, dbVars>>
      PROVE  DestroyingOwned'
  <2>1. \A v \in Workers : wk[v].pc # "idle" => wk'[v].pc # "idle" /\ wk'[v].job = wk[v].job
    BY <1>3, JobTypes DEF Goto, Working
  <2> QED
    BY <1>1, <1>3, <2>1, WorkersHold
<1>4. CASE \/ Prepare(w) \/ StepFails(w) \/ StartTerraform(w)
           \/ \E ok \in BOOLEAN : EndTerraform(w, ok)
  BY <1>3, <1>4 DEF Prepare, StepFails, StartTerraform, EndTerraform, Running
<1>5. CASE RemoveWorkspace(w)
  <2>1. \A v \in Workers : wk[v].pc # "idle" => wk'[v].pc # "idle" /\ wk'[v].job = wk[v].job
    BY <1>5, JobTypes DEF RemoveWorkspace, Detach, Working
  <2> QED
    BY <1>1, <1>5, <2>1, WorkersHold DEF RemoveWorkspace
<1>6. CASE FinishFailed(w) \/ FinishDestroy(w)
  <2> PICK e \in Envs : wk[w].job.env = e
    BY <1>6, JobTypes DEF FinishFailed, FinishDestroy
  <2>1. \A j \in Jobs : Held(j) => Held(j)' \/ j.env = e
    BY <1>6, WorkerDrops DEF FinishFailed, FinishDestroy
  <2>2. \E s \in {"DESTROY_FAILED", "FAILED", "DESTROYED"} : UpdateStatus(e, s)
    BY <1>6 DEF FinishFailed, FinishDestroy
  <2>3. ~ Claims(e)' /\ \A f \in Envs : Claims(f)' => Claims(f)
    BY <2>2, WritesSettle
  <2> QED
    BY <1>0, <2>1, <2>3, FrameSuffices
<1>7. CASE FinishProvision(w)
  BY <1>1, <1>7, WorkerDrops DEF FinishProvision
<1> QED
  BY <1>2, <1>4, <1>5, <1>6, <1>7 DEF Worker

LEMMA ProcessKeeps ==
    ASSUME IInv, Process
    PROVE  DestroyingOwned'
<1> USE DEF IInv
<1>1. CASE Crash \/ Exit
  BY <1>1 DEF Crash, Exit, Stop, DestroyingOwned
<1>2. CASE Shutdown
  <2>1. \A f \in Envs : Claims(f)' => Claims(f)
    BY <1>2 DEF Shutdown, Claims, dbVars
  <2>2. \A j \in Jobs : Held(j) => Held(j)'
    BY <1>2 DEF Shutdown, Held
  <2> QED
    BY <1>2, <2>1, <2>2, FrameSuffices DEF Shutdown
<1>3. CASE Boot
  <2>1. \A f \in Envs : ~ Claims(f)'
    BY <1>3 DEF Boot, RecoverOrphanedEnvironments, FailInFlight, InFlight, Claims, TypeOK
  <2> QED
    BY <2>1 DEF DestroyingOwned, Claims
<1> QED
  BY <1>1, <1>2, <1>3 DEF Process

LEMMA EnvironmentKeeps ==
    ASSUME IInv, Environment
    PROVE  DestroyingOwned'
<1> USE DEF IInv
<1>1. UNCHANGED <<mode, req, jobs, wk>>
  BY DEF Environment, MarkBuilt, OrphanKilled, OrphanEnds, Reconcile, DeleteRows
<1>2. \A f \in Envs : Claims(f)' => Claims(f)
  BY DEF Environment, MarkBuilt, OrphanKilled, OrphanEnds, Reconcile, FailInFlight, InFlight,
         DeleteRows, Claims, TypeOK, dbVars
<1>3. \A j \in Jobs : Held(j) => Held(j)'
  BY <1>1 DEF Held
<1> QED
  BY <1>1, <1>2, <1>3, FrameSuffices

\* A handler starts to carry a job that is not a destroy job only at "delivered".
LEMMA StaysDestroying ==
    ASSUME IInv, [Next]_vars
    PROVE  WritingIsDestroying'
<1> USE DEF IInv
<1>1. ASSUME NEW r \in Reqs, Handler(r)
      PROVE  WritingIsDestroying'
  <2>1. \A q \in Reqs : q # r => req'[q] = req[q]
    BY <1>1 DEF Handler, GithubWebhook, UpsertReplyLost, Terminate, AdminTerminate, ReadRow,
                MarkDestroying, AdminMarkAndPanic, RoleMissing, AssumeRole, AssumeRoleFails,
                Push, TypeOK
  <2>2. req'[r].pc \in {"write", "marked"} => req'[r].job.type = "DESTROY"
    BY <1>1, JobTypes
       DEF Handler, GithubWebhook, UpsertReplyLost, Terminate, AdminTerminate, ReadRow,
           MarkDestroying, AdminMarkAndPanic, RoleMissing, AssumeRole, AssumeRoleFails,
           Push, Attempting, Job, WritingIsDestroying
  <2> QED
    BY <2>1, <2>2 DEF WritingIsDestroying
<1>2. CASE Crash \/ Exit
  BY <1>2 DEF Crash, Exit, Stop, Idle, WritingIsDestroying
<1>3. CASE \/ \E w \in Workers : Worker(w)
           \/ Shutdown \/ Boot \/ Environment
  <2>1. UNCHANGED req
    BY <1>3 DEF Worker, Take, Prepare, StepFails, StartTerraform, EndTerraform,
                RemoveWorkspace, FinishFailed, FinishProvision, FinishDestroy, Shutdown, Boot,
                Environment, MarkBuilt, OrphanKilled, OrphanEnds, Reconcile, DeleteRows
  <2> QED
    BY <2>1 DEF WritingIsDestroying
<1>4. CASE UNCHANGED vars
  BY <1>4 DEF vars, WritingIsDestroying
<1> QED
  BY <1>1, <1>2, <1>3, <1>4 DEF Next, Process

\* A worker comes to remove a directory only when its destroy has succeeded.
LEMMA CleansDestroying ==
    ASSUME IInv, [Next]_vars
    PROVE  CleaningIsDestroying'
<1> USE DEF IInv, CleaningIsDestroying
<1>1. ASSUME NEW w \in Workers, Worker(w)
      PROVE  CleaningIsDestroying'
  <2>1. CASE RemoveWorkspace(w)
    <3>1. \A v \in Workers : wk'[v].pc = "cleanup" => wk[v].pc = "cleanup" /\ wk'[v].job = wk[v].job
      BY <2>1, JobTypes DEF RemoveWorkspace, Detach, Working
    <3> QED
      BY <3>1
  <2>2. CASE ~ RemoveWorkspace(w)
    <3>1. \A v \in Workers : v # w => wk'[v] = wk[v]
      BY <1>1, <2>2 DEF Worker, Take, Prepare, StepFails, StartTerraform, EndTerraform, Goto,
                        FinishFailed, FinishProvision, FinishDestroy, TypeOK
    <3>2. wk'[w].pc = "cleanup" => wk'[w].job.type = "DESTROY"
      <4>1. CASE \E ok \in BOOLEAN : EndTerraform(w, ok)
        <5>1. wk'[w].job = wk[w].job
          BY <4>1, JobTypes DEF EndTerraform, Goto, Working, Running
        <5>2. wk'[w].pc = "cleanup" => wk[w].job.type = "DESTROY"
          BY <4>1, JobTypes DEF EndTerraform, Goto, Working, Running
        <5> QED
          BY <5>1, <5>2
      <4>2. CASE ~ \E ok \in BOOLEAN : EndTerraform(w, ok)
        BY <1>1, <2>2, <4>2, JobTypes
           DEF Worker, Take, Prepare, StepFails, StartTerraform, Goto, FinishFailed,
               FinishProvision, FinishDestroy, Working
      <4> QED
        BY <4>1, <4>2
    <3> QED
      BY <3>1, <3>2
  <2> QED
    BY <2>1, <2>2
<1>2. CASE Crash \/ Exit
  BY <1>2 DEF Crash, Exit, Stop, Idle
<1>3. CASE \/ \E r \in Reqs : Handler(r)
           \/ Shutdown \/ Boot \/ Environment
  <2>1. UNCHANGED wk
    BY <1>3 DEF Handler, GithubWebhook, UpsertReplyLost, Terminate, AdminTerminate, ReadRow,
                MarkDestroying, AdminMarkAndPanic, RoleMissing, AssumeRole, AssumeRoleFails,
                Push, Shutdown, Boot, Environment, MarkBuilt, OrphanKilled, OrphanEnds,
                Reconcile, DeleteRows
  <2> QED
    BY <2>1
<1>4. CASE UNCHANGED vars
  BY <1>4 DEF vars
<1> QED
  BY <1>1, <1>2, <1>3, <1>4 DEF Next, Process

LEMMA Inductive == Spec => []IInv
<1>1. Init => IInv
  <2> SUFFICES ASSUME Init
               PROVE  IInv
    OBVIOUS
  <2>1. TypeOK /\ RowsOwned
    BY ZegionAssumption
       DEF Init, TypeOK, TerraformInit, TerraformTypeOK, Statuses, RowsOwned, Present
  <2>2. WritingIsDestroying /\ CleaningIsDestroying /\ DestroyingOwned
    BY DEF Init, Idle, WritingIsDestroying, CleaningIsDestroying, DestroyingOwned
  <2> QED
    BY <2>1, <2>2 DEF IInv
<1>2. IInv /\ [Next]_vars => IInv'
  <2> SUFFICES ASSUME IInv, [Next]_vars
               PROVE  IInv'
    OBVIOUS
  <2>1. (TypeOK /\ RowsOwned)'
    BY TypesKept DEF IInv
  <2>2. WritingIsDestroying' /\ CleaningIsDestroying'
    BY StaysDestroying, CleansDestroying
  <2>3. DestroyingOwned'
    <3>1. CASE Next
      BY <3>1, HandlerKeeps, WorkerKeeps, ProcessKeeps, EnvironmentKeeps DEF Next
    <3>2. CASE UNCHANGED vars
      BY <3>2 DEF vars, dbVars, IInv, DestroyingOwned, JobFor, Held
    <3> QED
      BY <3>1, <3>2
  <2> QED
    BY <2>1, <2>2, <2>3 DEF IInv
<1> QED
  BY <1>1, <1>2, PTL DEF Spec

\* However deliveries, terminates, reports, lost writes, restarts and deletions mix,
\* DESTROYING means a destroy job, but for a lost write or a handler that left it so.
THEOREM DestroyingIsOwned == Spec => []DestroyingOwned
BY Inductive, PTL DEF IInv

-----------------------------------------------------------------------------
(* The refinement.                                                         *)

\* A worker is idle exactly when it holds no job.
LEMMA IdleHasNoJob ==
    ASSUME TypeOK, NEW w \in Workers
    PROVE  /\ wk[w].pc = "idle" => wk[w].job = NoJob
           /\ wk[w].pc # "idle" => wk[w].job \in Jobs /\ wk[w].job # NoJob
BY ZegionAssumption DEF TypeOK, Idle, Running

\* Steps that leave the channel alone and every worker its job.
LEMMA QuietSteps ==
    ASSUME UNCHANGED jobs, \A w \in Workers : wk'[w].job = wk[w].job
    PROVE  UNCHANGED Pool!poolVars
BY DEF Pool!poolVars

\* Steps that change the job of one worker.
LEMMA BusyChanges ==
    ASSUME NEW w \in Workers, NEW j, wk'[w].job = j,
           \A v \in Workers : v # w => wk'[v] = wk[v]
    PROVE  [v \in Workers |-> wk[v].job]' = [[v \in Workers |-> wk[v].job] EXCEPT ![w] = j]
<1> DEFINE Busy == [v \in Workers |-> wk[v].job]
           Changed == [Busy EXCEPT ![w] = j]
<1>1. Busy' = [v \in Workers |-> wk'[v].job]
  OBVIOUS
<1>2. Changed = [v \in Workers |-> IF v = w THEN j ELSE wk[v].job]
  OBVIOUS
<1>3. \A v \in Workers : wk'[v].job = IF v = w THEN j ELSE wk[v].job
  OBVIOUS
<1> QED
  BY <1>1, <1>2, <1>3, Zenon

\* Steps that end a job.
LEMMA FinishSteps ==
    ASSUME TypeOK, NEW w \in Workers, wk[w].pc # "idle",
           wk' = [wk EXCEPT ![w] = Idle], UNCHANGED jobs
    PROVE  Pool!Finish(w)
<1>1. wk[w].job # NoJob
  BY IdleHasNoJob
<1>2. wk'[w].job = NoJob /\ \A v \in Workers : v # w => wk'[v] = wk[v]
  BY DEF TypeOK, Idle
<1> QED
  BY <1>1, <1>2, BusyChanges DEF Pool!Finish

LEMMA HandlerSteps ==
    ASSUME TypeOK, NEW r \in Reqs, Handler(r)
    PROVE  Pool!Next \/ UNCHANGED Pool!poolVars
<1>1. CASE Push(r)
  <2>1. req[r].job \in Jobs
    BY <1>1 DEF Push, TypeOK, Idle
  <2>2. Pool!Accept(req[r].job)
    BY <1>1 DEF Push, Pool!Accept
  <2> QED
    BY <2>1, <2>2 DEF Pool!Next
<1>2. CASE ~ Push(r)
  <2>1. UNCHANGED <<jobs, wk>>
    BY <1>2 DEF Handler, GithubWebhook, UpsertReplyLost, Terminate, AdminTerminate, ReadRow,
                MarkDestroying, AdminMarkAndPanic, RoleMissing, AssumeRole, AssumeRoleFails
  <2> QED
    BY <2>1, QuietSteps
<1> QED
  BY <1>1, <1>2

LEMMA WorkerSteps ==
    ASSUME TypeOK, NEW w \in Workers, Worker(w)
    PROVE  Pool!Next \/ UNCHANGED Pool!poolVars
<1>1. CASE Take(w)
  <2>1. wk[w].job = NoJob
    BY <1>1, IdleHasNoJob DEF Take
  <2>2. wk'[w].job = Head(jobs) /\ \A v \in Workers : v # w => wk'[v] = wk[v]
    BY <1>1 DEF Take, TypeOK
  <2>3. Pool!Begin(w)
    BY <1>1, <2>1, <2>2, BusyChanges DEF Take, Pool!Begin
  <2> QED
    BY <2>3 DEF Pool!Next
<1>2. ASSUME NEW pc, Goto(w, pc), UNCHANGED jobs
      PROVE  UNCHANGED Pool!poolVars
  <2>1. \A v \in Workers : wk'[v].job = wk[v].job
    BY <1>2, JobTypes DEF Goto, TypeOK, Idle, Running
  <2> QED
    BY <1>2, <2>1, QuietSteps
<1>3. CASE Prepare(w) \/ StepFails(w) \/ StartTerraform(w)
  BY <1>2, <1>3 DEF Prepare, StepFails, StartTerraform
<1>4. CASE \E ok \in BOOLEAN : EndTerraform(w, ok)
  <2> PICK ok \in BOOLEAN : EndTerraform(w, ok)
    BY <1>4
  <2> QED
    BY <1>2 DEF EndTerraform
<1>5. CASE RemoveWorkspace(w)
  <2>1. \A v \in Workers : wk'[v].job = wk[v].job
    <3>1. \A v \in Workers : Detach(wk[v], wk[w].job.env).job = wk[v].job
      BY DEF Detach, TypeOK, Idle, Running
    <3>2. [wk[w] EXCEPT !.pc = "done"].job = wk[w].job
      BY DEF TypeOK, Idle, Running
    <3> QED
      BY <1>5, <3>1, <3>2 DEF RemoveWorkspace
  <2> QED
    BY <1>5, <2>1, QuietSteps DEF RemoveWorkspace
<1>6. CASE FinishFailed(w) \/ FinishProvision(w) \/ FinishDestroy(w)
  <2>1. Pool!Finish(w)
    BY <1>6, FinishSteps DEF FinishFailed, FinishProvision, FinishDestroy
  <2> QED
    BY <2>1 DEF Pool!Next
<1> QED
  BY <1>1, <1>3, <1>4, <1>5, <1>6 DEF Worker

LEMMA OtherSteps ==
    ASSUME Process \/ Environment
    PROVE  Pool!Next \/ UNCHANGED Pool!poolVars
<1>1. CASE Crash \/ Exit
  <2>1. Pool!Lose
    BY <1>1 DEF Crash, Exit, Stop, Idle, Pool!Lose
  <2> QED
    BY <2>1 DEF Pool!Next
<1>2. CASE Shutdown \/ Boot \/ Environment
  <2>1. UNCHANGED <<jobs, wk>>
    BY <1>2 DEF Shutdown, Boot, Environment, MarkBuilt, OrphanKilled, OrphanEnds,
                Reconcile, DeleteRows
  <2> QED
    BY <2>1, QuietSteps
<1> QED
  BY <1>1, <1>2 DEF Process

\* Every behaviour of the engine is one of the pool: accepted jobs are begun once, in
\* order, by one worker, and are lost with the process only.  (That they are begun
\* and finished at all is the part of ImplementsPool that needs fairness.)
THEOREM PoolRefined == Spec => Pool!Init /\ [][Pool!Next]_(Pool!poolVars)
<1>1. Init => Pool!Init
  BY DEF Init, Idle, Pool!Init
<1>2. TypeOK /\ [Next]_vars => [Pool!Next]_(Pool!poolVars)
  <2> SUFFICES ASSUME TypeOK, [Next]_vars
               PROVE  Pool!Next \/ UNCHANGED Pool!poolVars
    OBVIOUS
  <2>1. CASE Next
    BY <2>1, HandlerSteps, WorkerSteps, OtherSteps DEF Next
  <2>2. CASE UNCHANGED vars
    BY <2>2, QuietSteps DEF vars
  <2> QED
    BY <2>1, <2>2
<1> QED
  BY <1>1, <1>2, TypeCorrect, PTL DEF Spec
=============================================================================
