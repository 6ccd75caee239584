---------------------------- MODULE VelzardProofs ----------------------------
(* Proofs about the production engine, for every number of deployments,     *)
(* handlers, workers, users and stops, and every channel capacity.          *)
EXTENDS Velzard, QueueLemmas, TLAPS

Attempting == [pc : {"write", "assume", "push"}, job : Jobs]
Working == [pc : {"prepare", "start", "cleanup", "done", "failed"} \cup Running, job : Jobs]

-----------------------------------------------------------------------------
(* Type correctness.                                                       *)

\* A status write keeps the types of the table.
LEMMA UpdateTypes ==
    ASSUME TypeOK, NEW d \in Deployments, NEW s \in Statuses,
           UpdateStatus(d, s) \/ UpdateStatusAndError(d, s)
    PROVE  /\ status' \in [Deployments -> Statuses]
           /\ owner' \in [Deployments -> Users \cup {"none"}]
           /\ stamped' \subseteq Deployments
           /\ stale' \subseteq Deployments
BY DEF TypeOK, UpdateStatus, UpdateStatusAndError, WriteStatus

\* So does the failing of every row in flight.
LEMMA FailInFlightTypes ==
    ASSUME TypeOK, FailInFlight
    PROVE  /\ status' \in [Deployments -> Statuses]
           /\ owner' \in [Deployments -> Users \cup {"none"}]
           /\ stamped' \subseteq Deployments
           /\ stale' \subseteq Deployments
BY DEF TypeOK, FailInFlight, Statuses

\* Terraform runs keep the types of the directories and of the cloud.
LEMMA TerraformTypes ==
    ASSUME TerraformTypeOK, NEW e \in Envs, NEW att, NEW mine, NEW ok,
           \/ ApplyEnds(e, att, ok) \/ DestroyEnds(e, att, mine, ok)
           \/ ApplyKilled(e, att)
           \/ WriteConfig(e) \/ RemoveDirectory(e)
    PROVE  TerraformTypeOK'
BY DEF TerraformTypeOK, ApplyEnds, DestroyEnds, ApplyKilled, WriteConfig, RemoveDirectory

\* What a handler or a worker that is not idle holds.
LEMMA JobTypes ==
    ASSUME TypeOK
    PROVE  /\ \A r \in Reqs : req[r].pc # "idle" => req[r] \in Attempting
           /\ \A w \in Workers : wk[w].pc # "idle" => wk[w] \in Working
           /\ \A o \in orphans : o.job \in Jobs
BY DEF TypeOK, Idle, Attempting, Working

LEMMA HandlerTypes ==
    ASSUME TypeOK, NEW r \in Reqs, Handler(r)
    PROVE  TypeOK'
<1> USE VelzardAssumption
<1>1. CASE \E d \in Deployments, u \in Users : Deploy(r, d, u)
  BY <1>1 DEF TypeOK, Deploy, CreateDeployment, Statuses, Jobs, Job, TerraformTypeOK, tfVars
<1>2. CASE \E d \in Deployments, u \in Users : DeployReplyLost(r, d, u)
  BY <1>2 DEF TypeOK, DeployReplyLost, CreateDeployment, Statuses, TerraformTypeOK, tfVars
<1>3. CASE \E d \in Deployments, u \in Users : Destroy(r, d, u) \/ AdminTerminate(r, d, u)
  BY <1>3 DEF TypeOK, Destroy, AdminTerminate, BeginDestroy, Jobs, Job, TerraformTypeOK,
              tfVars, dbVars
<1>4. CASE MarkDestroying(r)
  <2>1. req[r] \in Attempting
    BY <1>4, JobTypes DEF MarkDestroying
  <2>2. req[r].job.dep \in Deployments /\ "DESTROYING" \in Statuses
    BY <2>1 DEF Attempting, Jobs, Statuses
  <2>3. req' \in [Reqs -> {Idle} \cup Attempting]
    BY <1>4, <2>1 DEF MarkDestroying, TypeOK, Attempting
  <2> QED
    BY <1>4, <2>2, <2>3, UpdateTypes DEF MarkDestroying, TypeOK, Attempting,
       TerraformTypeOK, tfVars
<1>5. CASE AssumeRole(r)
  <2>1. req[r] \in Attempting
    BY <1>5, JobTypes DEF AssumeRole
  <2>2. req' \in [Reqs -> {Idle} \cup Attempting]
    BY <1>5, <2>1 DEF AssumeRole, TypeOK, Attempting
  <2> QED
    BY <1>5, <2>2 DEF AssumeRole, TypeOK, Attempting, TerraformTypeOK, tfVars, dbVars
<1>6. CASE AssumeRoleFails(r)
  <2>1. req[r] \in Attempting
    BY <1>6, JobTypes DEF AssumeRoleFails
  <2>2. req[r].job.dep \in Deployments /\ FailedStatus(req[r].job) \in Statuses
    BY <2>1 DEF Attempting, Jobs, Statuses, FailedStatus
  <2> QED
    BY <1>6, <2>2, UpdateTypes DEF AssumeRoleFails, TypeOK, TerraformTypeOK, tfVars
<1>7. CASE Push(r)
  <2>1. req[r] \in Attempting
    BY <1>7, JobTypes DEF Push
  <2>2. req[r].job \in Jobs
    BY <2>1 DEF Attempting
  <2>3. jobs' \in Seq(Jobs) /\ Len(jobs') = Len(jobs) + 1 /\ Len(jobs) < QCap
    BY <1>7, <2>2 DEF Push, TypeOK
  <2>4. Len(jobs') <= QCap
    BY <2>3 DEF TypeOK
  <2> QED
    BY <1>7, <2>3, <2>4 DEF Push, TypeOK, TerraformTypeOK, tfVars, dbVars
<1> QED
  BY <1>1, <1>2, <1>3, <1>4, <1>5, <1>6, <1>7 DEF Handler

LEMMA WorkerTypes ==
    ASSUME TypeOK, NEW w \in Workers, Worker(w)
    PROVE  TypeOK'
<1> USE VelzardAssumption
<1>0. /\ wk \in [Workers -> {Idle} \cup Working]
      /\ Idle.pc = "idle"
  BY DEF TypeOK, Working, Idle
<1>1. CASE Take(w)
  <2>1. Head(jobs) \in Jobs /\ Tail(jobs) \in Seq(Jobs) /\ Len(Tail(jobs)) = Len(jobs) - 1
    BY <1>1 DEF Take, TypeOK
  <2>2. Len(jobs') <= QCap
    BY <1>1, <2>1 DEF Take, TypeOK
  <2>3. wk' \in [Workers -> {Idle} \cup Working]
    BY <1>0, <1>1, <2>1 DEF Take, Working
  <2> QED
    BY <1>1, <2>1, <2>2, <2>3 DEF Take, TypeOK, Working, TerraformTypeOK, tfVars, dbVars
<1>2. ASSUME NEW pc \in {"prepare", "start", "cleanup", "done", "failed"} \cup Running,
             wk[w].pc # "idle", Goto(w, pc)
      PROVE  wk' \in [Workers -> {Idle} \cup Working]
  BY <1>0, <1>2 DEF Goto, Working
<1>3. wk[w].pc # "idle" => /\ wk[w].job \in Jobs
                           /\ wk[w].job.dep \in Deployments
                           /\ FailedStatus(wk[w].job) \in Statuses
  BY JobTypes DEF Working, Jobs, FailedStatus, Statuses
<1>4. CASE Prepare(w)
  <2>1. wk' \in [Workers -> {Idle} \cup Working]
    BY <1>2, <1>4 DEF Prepare
  <2>2. TerraformTypeOK'
    BY <1>3, <1>4, TerraformTypes DEF Prepare, TypeOK, TerraformTypeOK, tfVars, Deployments
  <2> QED
    BY <1>4, <2>1, <2>2 DEF Prepare, TypeOK, Working, dbVars
<1>5. CASE StepFails(w)
  <2>1. wk' \in [Workers -> {Idle} \cup Working]
    BY <1>2, <1>5 DEF StepFails
  <2> QED
    BY <1>5, <2>1 DEF StepFails, TypeOK, Working, dbVars, tfVars, TerraformTypeOK
<1>6. CASE StartTerraform(w)
  <2>1. wk' \in [Workers -> {Idle} \cup Working]
    BY <1>2, <1>6 DEF StartTerraform, Running
  <2> QED
    BY <1>6, <2>1 DEF StartTerraform, TypeOK, Working, dbVars, tfVars, TerraformTypeOK
<1>7. CASE \E ok \in BOOLEAN : EndTerraform(w, ok)
  <2>1. wk' \in [Workers -> {Idle} \cup Working]
    BY <1>2, <1>7 DEF EndTerraform, Running
  <2>2. TerraformTypeOK'
    BY <1>3, <1>7, TerraformTypes DEF EndTerraform, TerraformEnds, TypeOK, Deployments, Running
  <2> QED
    BY <1>7, <2>1, <2>2 DEF EndTerraform, TypeOK, Working, dbVars
<1>8. CASE RemoveWorkspace(w)
  <2>1. \A v \in Workers : Detach(wk[v], wk[w].job.dep) \in {Idle} \cup Working
    BY <1>0 DEF Detach, Working, Running
  <2>2. [wk[w] EXCEPT !.pc = "done"] \in Working
    BY <1>0, <1>8 DEF RemoveWorkspace, Working
  <2>3. wk' \in [Workers -> {Idle} \cup Working]
    BY <1>8, <2>1, <2>2 DEF RemoveWorkspace
  <2>4. orphans' \subseteq [pc : Running, job : Jobs]
    BY <1>8 DEF RemoveWorkspace, Detach, TypeOK, Running
  <2>5. TerraformTypeOK'
    BY <1>3, <1>8, TerraformTypes DEF RemoveWorkspace, TypeOK, Deployments
  <2> QED
    BY <1>8, <2>3, <2>4, <2>5 DEF RemoveWorkspace, TypeOK, Working, dbVars
<1>9. CASE FinishFailed(w)
  BY <1>0, <1>3, <1>9, UpdateTypes DEF FinishFailed, TypeOK, Working, tfVars, TerraformTypeOK
<1>10. CASE FinishDeploy(w)
  BY <1>0, <1>10 DEF FinishDeploy, TypeOK, Working, tfVars, TerraformTypeOK, dbVars
<1>11. CASE FinishDestroy(w)
  <2>1. "DESTROYED" \in Statuses
    BY DEF Statuses
  <2> QED
    BY <1>0, <1>3, <1>11, <2>1, UpdateTypes
       DEF FinishDestroy, TypeOK, Working, tfVars, TerraformTypeOK
<1> QED
  BY <1>1, <1>4, <1>5, <1>6, <1>7, <1>8, <1>9, <1>10, <1>11 DEF Worker

LEMMA ProcessTypes ==
    ASSUME TypeOK, Process
    PROVE  TypeOK'
<1> USE VelzardAssumption
<1>1. ASSUME Stop
      PROVE  /\ mode' \in {"up", "draining", "down"}
             /\ req' \in [Reqs -> {Idle} \cup Attempting]
             /\ jobs' \in Seq(Jobs) /\ Len(jobs') <= QCap
             /\ wk' \in [Workers -> {Idle} \cup Working]
             /\ orphans' \subseteq [pc : Running, job : Jobs]
             /\ UNCHANGED <<dbVars, gauge, tfVars>>
  <2>1. \A w \in Workers : wk[w].pc \in Running => wk[w] \in [pc : Running, job : Jobs]
    BY DEF TypeOK, Idle, Running
  <2> QED
    BY <1>1, <2>1 DEF Stop, TypeOK
<1>2. CASE Crash
  BY <1>1, <1>2 DEF Crash, TypeOK, Attempting, Working, dbVars, tfVars, TerraformTypeOK
<1>3. CASE Shutdown
  BY <1>3 DEF Shutdown, TypeOK, dbVars, tfVars, TerraformTypeOK
<1>4. CASE Exit
  BY <1>1, <1>4 DEF Exit, TypeOK, Attempting, Working, dbVars, tfVars, TerraformTypeOK
<1>5. CASE Boot
  <2>1. /\ status' \in [Deployments -> Statuses]
        /\ owner' \in [Deployments -> Users \cup {"none"}]
        /\ stamped' \subseteq Deployments
        /\ stale' \subseteq Deployments
    BY <1>5, FailInFlightTypes DEF Boot, RecoverOrphanedDeployments, TypeOK
  <2> QED
    BY <1>5, <2>1 DEF Boot, TypeOK, tfVars, TerraformTypeOK
<1> QED
  BY <1>2, <1>3, <1>4, <1>5 DEF Process

LEMMA EnvironmentTypes ==
    ASSUME TypeOK, Environment
    PROVE  TypeOK'
<1> USE VelzardAssumption
<1>1. CASE \E d \in Deployments, s \in WebhookStatuses : WebhookUpdate(d, s)
  BY <1>1 DEF WebhookUpdate, TypeOK, tfVars, TerraformTypeOK
<1>2. ASSUME NEW o \in orphans, OrphanKilled(o) \/ \E ok \in BOOLEAN : OrphanEnds(o, ok)
      PROVE  TypeOK'
  <2>1. o.job.dep \in Envs
    BY JobTypes DEF Jobs, Deployments
  <2>2. TerraformTypeOK'
    BY <1>2, <2>1, TerraformTypes DEF OrphanKilled, OrphanEnds, TerraformEnds, TypeOK
  <2> QED
    BY <1>2, <2>2 DEF OrphanKilled, OrphanEnds, TypeOK, dbVars
<1>3. CASE Reconcile
  BY <1>3, FailInFlightTypes DEF Reconcile, TypeOK, tfVars, TerraformTypeOK
<1>4. CASE \E us \in {{u} : u \in Users} \cup {Users} : DeleteRows(us)
  BY <1>4 DEF DeleteRows, TypeOK, tfVars, TerraformTypeOK, Statuses
<1> QED
  BY <1>1, <1>2, <1>3, <1>4 DEF Environment

LEMMA InitTyped == Init => TypeOK
BY VelzardAssumption DEF Init, TypeOK, TerraformInit, TerraformTypeOK, Statuses

\* Every reachable state of the engine is well typed; in particular the channel
\* never holds more than QCap jobs.
THEOREM TypeCorrect == Spec => []TypeOK
<1>1. Init => TypeOK
  BY InitTyped
<1>2. TypeOK /\ [Next]_vars => TypeOK'
  <2> SUFFICES ASSUME TypeOK, [Next]_vars
               PROVE  TypeOK'
    OBVIOUS
  <2>1. CASE Next
    BY <2>1, HandlerTypes, WorkerTypes, ProcessTypes, EnvironmentTypes DEF Next
  <2>2. CASE UNCHANGED vars
    BY <2>2 DEF vars, dbVars, tfVars, TypeOK, TerraformTypeOK
  <2> QED
    BY <2>1, <2>2
<1> QED
  BY <1>1, <1>2, PTL DEF Spec

-----------------------------------------------------------------------------
(* Where jobs go.  Most steps hand a job on; some add one or drop one.     *)

Handover ==
    \/ \E r \in Reqs : \/ \E d \in Deployments, u \in Users :
                            Destroy(r, d, u) \/ AdminTerminate(r, d, u)
                       \/ AssumeRole(r)
                       \/ Push(r)
    \/ \E w \in Workers : \/ Take(w) \/ Prepare(w) \/ StepFails(w) \/ StartTerraform(w)
                          \/ \E ok \in BOOLEAN : EndTerraform(w, ok)
                          \/ RemoveWorkspace(w)

\* Handing a job on neither loses nor adds one.
LEMMA HandoverKeeps ==
    ASSUME TypeOK, Handover
    PROVE  \A j \in Jobs : Held(j)' <=> Held(j)
<1> SUFFICES ASSUME NEW j \in Jobs
             PROVE  Held(j)' <=> Held(j)
  OBVIOUS
<1>0. /\ req \in [Reqs -> {Idle} \cup Attempting]
      /\ wk \in [Workers -> {Idle} \cup Working]
      /\ jobs \in Seq(Jobs)
      /\ Idle.pc = "idle"
  BY DEF TypeOK, Idle, Attempting, Working
<1>1. CASE \E r \in Reqs, d \in Deployments, u \in Users :
              Destroy(r, d, u) \/ AdminTerminate(r, d, u)
  BY <1>0, <1>1 DEF Destroy, AdminTerminate, BeginDestroy, Free, Held, dbVars, Attempting
<1>2. CASE \E r \in Reqs : AssumeRole(r)
  BY <1>0, <1>2 DEF AssumeRole, Held, Attempting
<1>3. ASSUME NEW r \in Reqs, Push(r)
      PROVE  Held(j)' <=> Held(j)
  <2>1. req[r].job \in Jobs
    BY <1>0, <1>3 DEF Push, Attempting
  <2>2. (\E i \in DOMAIN jobs' : jobs'[i] = j)
           <=> j = req[r].job \/ \E i \in DOMAIN jobs : jobs[i] = j
    BY <1>0, <1>3, <2>1, PushedJobs DEF Push
  <2>3. (\E q \in Reqs : req[q].pc \in {"assume", "push"} /\ req[q].job = j)
           <=> \/ j = req[r].job
               \/ \E q \in Reqs : req'[q].pc \in {"assume", "push"} /\ req'[q].job = j
    BY <1>0, <1>3 DEF Push, Attempting
  <2> QED
    BY <1>3, <2>2, <2>3 DEF Push, Held
<1>4. ASSUME NEW w \in Workers, Take(w)
      PROVE  Held(j)' <=> Held(j)
  <2>1. (\E i \in DOMAIN jobs : jobs[i] = j)
           <=> j = Head(jobs) \/ \E i \in DOMAIN jobs' : jobs'[i] = j
    BY <1>0, <1>4, TakenJobs DEF Take
  <2>2. (\E v \in Workers : wk'[v].pc # "idle" /\ wk'[v].job = j)
           <=> j = Head(jobs) \/ \E v \in Workers : wk[v].pc # "idle" /\ wk[v].job = j
    BY <1>0, <1>4 DEF Take
  <2> QED
    BY <1>4, <2>1, <2>2 DEF Take, Held
<1>5. ASSUME NEW w \in Workers, NEW pc, pc # "idle", wk[w].pc # "idle", Goto(w, pc),
             UNCHANGED <<req, jobs>>
      PROVE  Held(j)' <=> Held(j)
  BY <1>0, <1>5 DEF Goto, Held, Working
<1>6. CASE \E w \in Workers : \/ Prepare(w) \/ StepFails(w) \/ StartTerraform(w)
                              \/ \E ok \in BOOLEAN : EndTerraform(w, ok)
  BY <1>5, <1>6 DEF Prepare, StepFails, StartTerraform, EndTerraform, Running
<1>7. ASSUME NEW w \in Workers, RemoveWorkspace(w)
      PROVE  Held(j)' <=> Held(j)
  <2>1. ASSUME NEW v \in Workers
        PROVE  (wk'[v].pc # "idle" /\ wk'[v].job = j) <=> (wk[v].pc # "idle" /\ wk[v].job = j)
    BY <1>0, <1>7 DEF RemoveWorkspace, Detach, Working
  <2>2. req' = req /\ jobs' = jobs
    BY <1>7 DEF RemoveWorkspace
  <2>3. (\E v \in Workers : wk'[v].pc # "idle" /\ wk'[v].job = j)
           <=> \E v \in Workers : wk[v].pc # "idle" /\ wk[v].job = j
    BY <2>1
  <2> QED
    BY <2>2, <2>3 DEF Held
<1> QED
  BY <1>1, <1>2, <1>3, <1>4, <1>6, <1>7 DEF Handover

\* A handler that has just written its row adds its job.
LEMMA HeldAdds ==
    ASSUME TypeOK, NEW r \in Reqs, NEW x \in Jobs, req[r].pc \in {"idle", "write"},
           req' = [req EXCEPT ![r] = [pc |-> "assume", job |-> x]],
           UNCHANGED <<jobs, wk>>
    PROVE  \A j \in Jobs : Held(j)' <=> Held(j) \/ j = x
<1> SUFFICES ASSUME NEW j \in Jobs
             PROVE  Held(j)' <=> Held(j) \/ j = x
  OBVIOUS
<1>1. (\E q \in Reqs : req'[q].pc \in {"assume", "push"} /\ req'[q].job = j)
         <=> j = x \/ \E q \in Reqs : req[q].pc \in {"assume", "push"} /\ req[q].job = j
  BY DEF TypeOK
<1> QED
  BY <1>1 DEF Held

\* A handler or a worker that goes idle drops its own job and no other.
LEMMA HandlerDrops ==
    ASSUME TypeOK, NEW r \in Reqs, req' = [req EXCEPT ![r] = Idle], UNCHANGED <<jobs, wk>>
    PROVE  \A j \in Jobs : /\ Held(j)' => Held(j)
                           /\ Held(j) => Held(j)' \/ j = req[r].job
<1> SUFFICES ASSUME NEW j \in Jobs
             PROVE  (Held(j)' => Held(j)) /\ (Held(j) => Held(j)' \/ j = req[r].job)
  OBVIOUS
<1>1. \A q \in Reqs : q # r => req'[q] = req[q]
  BY DEF TypeOK
<1>2. req'[r].pc = "idle"
  BY DEF TypeOK, Idle
<1> QED
  BY <1>1, <1>2 DEF Held

LEMMA WorkerDrops ==
    ASSUME TypeOK, NEW w \in Workers, wk' = [wk EXCEPT ![w] = Idle], UNCHANGED <<jobs, req>>
    PROVE  \A j \in Jobs : /\ Held(j)' => Held(j)
                           /\ Held(j) => Held(j)' \/ j = wk[w].job
<1> SUFFICES ASSUME NEW j \in Jobs
             PROVE  (Held(j)' => Held(j)) /\ (Held(j) => Held(j)' \/ j = wk[w].job)
  OBVIOUS
<1>1. \A v \in Workers : v # w => wk'[v] = wk[v]
  BY DEF TypeOK
<1>2. wk'[w].pc = "idle"
  BY DEF TypeOK, Idle
<1> QED
  BY <1>1, <1>2 DEF Held

-----------------------------------------------------------------------------
(* What happens to rows.                                                   *)

\* A row that asks nothing of anybody: neither in flight nor stale.
Closed(d) == d \in stale \/ status[d] \notin {"PROVISIONING", "DESTROYING"}

\* Every row keeps its status, and what marks it stale, or is moved to a status that
\* is neither of the two in flight.
Settles ==
    \A d \in Deployments :
        \/ status'[d] = status[d] /\ (d \in stale => d \in stale' \/ ~Present(d))
        \/ status'[d] \notin {"none", "PROVISIONING", "DESTROYING"}

LEMMA WritesSettle ==
    ASSUME TypeOK, NEW d \in Deployments, NEW s,
           s \notin {"none", "PROVISIONING", "DESTROYING"},
           UpdateStatus(d, s) \/ UpdateStatusAndError(d, s)
    PROVE  /\ Settles
           /\ Closed(d)'
BY DEF TypeOK, UpdateStatus, UpdateStatusAndError, WriteStatus, Settles, Closed, Present

LEMMA RecoverySettles ==
    ASSUME TypeOK, FailInFlight
    PROVE  Settles /\ \A d \in Deployments : Closed(d)'
BY DEF TypeOK, FailInFlight, InFlight, Settles, Closed

\* A run takes away a server only of a row that has left PROVISIONING.
ServersKept == \A d \in live : d \in live' \/ LeftProvisioning(d)

-----------------------------------------------------------------------------
(* The frame of the induction: what a step must respect for the invariant  *)
(* to hold after it.                                                       *)

Frame ==
    /\ Settles
    /\ mode' # "down" => mode # "down" \/ \A d \in Deployments : Closed(d)'
    /\ \A j \in Jobs : Held(j)' => Held(j)
    /\ mode' # "down" =>
         \A j \in Jobs : Held(j) =>
            \/ Held(j)'
            \/ Closed(j.dep)'
            \/ j.type = "DEPLOY" /\ (LeftProvisioning(j.dep) \/ j.dep \in live)'
    /\ \A r \in Reqs : req'[r].pc = "write" =>
          /\ req'[r].job \in Jobs
          /\ req'[r].job.type = "DESTROY"
          /\ status[req'[r].job.dep] # "none"
    /\ \A w \in Workers :
          /\ wk'[w].pc = "done" => \/ wk[w].pc = "done" /\ wk'[w].job = wk[w].job
                                   \/ wk'[w].job.type = "DESTROY"
                                   \/ wk'[w].job.dep \in live'
          /\ wk'[w].pc = "cleanup" => wk'[w].job.type = "DESTROY"
    /\ \A o \in orphans' : \/ \E p \in orphans : o.job = p.job
                           \/ o.job \in Jobs /\ Held(o.job)
    /\ ServersKept

LEMMA FrameSuffices ==
    ASSUME IInv, Frame, TypeOK'
    PROVE  IInv'
<1>0. /\ TypeOK /\ JobsHaveRows /\ DestroyJobsAccepted /\ WritingIsDestroying
      /\ DeploysLeaveServers /\ DestroyingOwned /\ ProvisioningAccounted
  BY DEF IInv
<1>1. ASSUME NEW d \in Deployments, LeftProvisioning(d), status[d] # "none"
      PROVE  LeftProvisioning(d)'
  BY <1>1 DEF Frame, Settles, LeftProvisioning, Present
<1>2. ASSUME NEW d \in Deployments, status[d] # "none"
      PROVE  status'[d] # "none"
  BY <1>2 DEF Frame, Settles
<1>3. \A j \in Jobs : j.dep \in Deployments
  BY DEF Jobs
<1>4. \A o \in orphans : o.job \in Jobs
  BY <1>0, JobTypes
<1>5. JobsHaveRows'
  <2>1. \A j \in Jobs : Held(j)' => status'[j.dep] # "none"
    BY <1>0, <1>2, <1>3 DEF Frame, JobsHaveRows
  <2>2. \A r \in Reqs : req'[r].pc = "write" => status'[req'[r].job.dep] # "none"
    BY <1>2, <1>3 DEF Frame
  <2>3. \A o \in orphans' : status'[o.job.dep] # "none"
    BY <1>0, <1>2, <1>3, <1>4 DEF Frame, JobsHaveRows
  <2> QED
    BY <2>1, <2>2, <2>3 DEF JobsHaveRows
<1>6. DestroyJobsAccepted'
  <2>1. ASSUME NEW j \in Jobs, j.type = "DESTROY", Held(j)'
        PROVE  LeftProvisioning(j.dep)'
    <3>1. Held(j)
      BY <2>1 DEF Frame
    <3> QED
      BY <1>0, <1>1, <1>3, <2>1, <3>1 DEF DestroyJobsAccepted, JobsHaveRows
  <2>2. ASSUME NEW o \in orphans', o.job.type = "DESTROY"
        PROVE  LeftProvisioning(o.job.dep)'
    <3>1. CASE \E p \in orphans : o.job = p.job
      BY <1>0, <1>1, <1>3, <1>4, <2>2, <3>1 DEF DestroyJobsAccepted, JobsHaveRows
    <3>2. CASE o.job \in Jobs /\ Held(o.job)
      BY <1>0, <1>1, <1>3, <2>2, <3>2 DEF DestroyJobsAccepted, JobsHaveRows
    <3> QED
      BY <3>1, <3>2 DEF Frame
  <2> QED
    BY <2>1, <2>2 DEF DestroyJobsAccepted
<1>7. WritingIsDestroying'
  BY DEF WritingIsDestroying, Frame
<1>8. DeploysLeaveServers'
  <2>1. ASSUME NEW w \in Workers, wk'[w].pc = "done", wk'[w].job.type = "DEPLOY"
        PROVE  (LeftProvisioning(wk[w].job.dep) \/ wk[w].job.dep \in live)'
    <3>1. CASE wk[w].pc = "done" /\ wk'[w].job = wk[w].job
      <4>0. Held(wk[w].job) /\ wk[w].job \in Jobs
        BY <1>0, <3>1, JobTypes DEF Working, Held
      <4>1. PICK d \in Deployments : d = wk[w].job.dep
        BY <1>3, <4>0
      <4>2. status[d] # "none"
        BY <1>0, <4>0, <4>1 DEF JobsHaveRows
      <4>3. LeftProvisioning(d) \/ d \in live
        BY <1>0, <2>1, <3>1, <4>1 DEF DeploysLeaveServers
      <4>4. LeftProvisioning(d)' \/ d \in live'
        BY <1>1, <4>1, <4>2, <4>3 DEF Frame, ServersKept
      <4> QED
        BY <3>1, <4>1, <4>4 DEF LeftProvisioning
    <3>2. CASE wk'[w].job.dep \in live'
      BY <3>2
    <3> QED
      BY <2>1, <3>1, <3>2 DEF Frame
  <2>2. \A w \in Workers : wk'[w].pc = "cleanup" => wk'[w].job.type = "DESTROY"
    BY DEF Frame
  <2> QED
    BY <2>1, <2>2 DEF DeploysLeaveServers
<1>9. DestroyingOwned'
  <2> SUFFICES ASSUME mode' # "down", NEW d \in Deployments,
                      status'[d] = "DESTROYING", d \notin stale'
               PROVE  JobFor("DESTROY", d)'
    BY DEF DestroyingOwned
  <2>1. mode # "down" /\ status[d] = "DESTROYING" /\ d \notin stale
    BY DEF Frame, Settles, Present, Closed
  <2>2. PICK u \in Users : Held(Job("DESTROY", d, u))
    BY <1>0, <2>1 DEF DestroyingOwned, JobFor
  <2>3. /\ Job("DESTROY", d, u) \in Jobs
        /\ Job("DESTROY", d, u).dep = d /\ Job("DESTROY", d, u).type = "DESTROY"
    BY DEF Job, Jobs
  <2>4. ~ Closed(d)'
    BY DEF Closed
  <2>5. Held(Job("DESTROY", d, u))'
    BY <2>2, <2>3, <2>4 DEF Frame
  <2> QED
    BY <2>5 DEF JobFor
<1>10. ProvisioningAccounted'
  <2> SUFFICES ASSUME mode' # "down", NEW d \in Deployments,
                      status'[d] = "PROVISIONING", d \notin stale'
               PROVE  JobFor("DEPLOY", d)' \/ d \in live'
    BY DEF ProvisioningAccounted
  <2>1. mode # "down" /\ status[d] = "PROVISIONING" /\ d \notin stale
    BY DEF Frame, Settles, Present, Closed
  <2>2. ~ LeftProvisioning(d) /\ ~ LeftProvisioning(d)' /\ ~ Closed(d)'
    BY <2>1 DEF LeftProvisioning, Closed
  <2>3. CASE d \in live
    BY <2>2, <2>3 DEF Frame, ServersKept
  <2>4. CASE JobFor("DEPLOY", d)
    <3>1. PICK u \in Users : Held(Job("DEPLOY", d, u))
      BY <2>4 DEF JobFor
    <3>2. Job("DEPLOY", d, u) \in Jobs /\ Job("DEPLOY", d, u).dep = d
      BY DEF Job, Jobs
    <3>3. Held(Job("DEPLOY", d, u))' \/ d \in live'
      BY <2>2, <3>1, <3>2 DEF Frame
    <3> QED
      BY <3>3 DEF JobFor
  <2> QED
    BY <1>0, <2>1, <2>3, <2>4 DEF ProvisioningAccounted
<1> QED
  BY <1>5, <1>6, <1>7, <1>8, <1>9, <1>10 DEF IInv

\* The frame of a step that leaves the workers and the process alone.
LEMMA QuietFrame ==
    ASSUME DeploysLeaveServers, Settles, UNCHANGED <<mode, wk, orphans>>, ServersKept,
           \A j \in Jobs : Held(j)' => Held(j),
           \A j \in Jobs : Held(j) => Held(j)' \/ Closed(j.dep)',
           \A r \in Reqs : req'[r].pc = "write" =>
              /\ req'[r].job \in Jobs
              /\ req'[r].job.type = "DESTROY"
              /\ status[req'[r].job.dep] # "none"
    PROVE  Frame
<1>1. mode' = mode /\ wk' = wk /\ orphans' = orphans
  OBVIOUS
<1>2. \A w \in Workers :
          /\ wk'[w].pc = "done" => \/ wk[w].pc = "done" /\ wk'[w].job = wk[w].job
                                   \/ wk'[w].job.type = "DESTROY"
                                   \/ wk'[w].job.dep \in live'
          /\ wk'[w].pc = "cleanup" => wk'[w].job.type = "DESTROY"
  BY <1>1 DEF DeploysLeaveServers
<1>3. \A o \in orphans' : \/ \E p \in orphans : o.job = p.job
                          \/ o.job \in Jobs /\ Held(o.job)
  BY <1>1
<1>4. mode' # "down" => mode # "down" \/ \A d \in Deployments : Closed(d)'
  BY <1>1
<1>5. mode' # "down" =>
         \A j \in Jobs : Held(j) =>
            \/ Held(j)'
            \/ Closed(j.dep)'
            \/ j.type = "DEPLOY" /\ (LeftProvisioning(j.dep) \/ j.dep \in live)'
  OBVIOUS
<1> QED
  BY <1>2, <1>3, <1>4, <1>5, Zenon DEF Frame

-----------------------------------------------------------------------------
(* The steps that lead into a status in flight, outside the frame.         *)

\* A row is inserted: its deploy job is with the handler, or the reply was lost.
LEMMA InsertKeeps ==
    ASSUME IInv, TypeOK', NEW d \in Deployments, NEW u \in Users, CreateDeployment(d, u),
           UNCHANGED <<mode, wk, orphans, live>>,
           stale \subseteq stale',
           \A j \in Jobs : Held(j) => Held(j)',
           \A j \in Jobs : Held(j)' => Held(j) \/ j = Job("DEPLOY", d, u),
           d \in stale' \/ Held(Job("DEPLOY", d, u))',
           \A r \in Reqs : req'[r].pc = "write" => req'[r] = req[r]
    PROVE  IInv'
<1>0. /\ TypeOK /\ JobsHaveRows /\ DestroyJobsAccepted /\ WritingIsDestroying
      /\ DeploysLeaveServers /\ DestroyingOwned /\ ProvisioningAccounted
  BY DEF IInv
<1>1. /\ status[d] = "none" /\ status'[d] = "PROVISIONING"
      /\ \A e \in Deployments : e # d => status'[e] = status[e]
  BY <1>0 DEF CreateDeployment, TypeOK
<1>2. /\ Job("DEPLOY", d, u) \in Jobs
      /\ Job("DEPLOY", d, u).dep = d /\ Job("DEPLOY", d, u).type = "DEPLOY"
  BY DEF Job, Jobs
<1>3. \A j \in Jobs : j.dep \in Deployments
  BY DEF Jobs
<1>4. /\ \A o \in orphans : o.job \in Jobs
      /\ \A r \in Reqs : req[r].pc = "write" => req[r].job \in Jobs
      /\ \A w \in Workers : wk[w].pc # "idle" => wk[w].job \in Jobs /\ Held(wk[w].job)
  BY <1>0, JobTypes DEF Attempting, Working, Held
<1>5. \A e \in Deployments : e # d /\ LeftProvisioning(e) => LeftProvisioning(e)'
  BY <1>1 DEF LeftProvisioning
<1>6. JobsHaveRows'
  <2>1. \A j \in Jobs : Held(j)' => status'[j.dep] # "none"
    BY <1>0, <1>1, <1>2, <1>3 DEF JobsHaveRows
  <2>2. \A r \in Reqs : req'[r].pc = "write" => status'[req'[r].job.dep] # "none"
    BY <1>0, <1>1, <1>3, <1>4 DEF JobsHaveRows
  <2>3. \A o \in orphans' : status'[o.job.dep] # "none"
    BY <1>0, <1>1, <1>3, <1>4 DEF JobsHaveRows
  <2> QED
    BY <2>1, <2>2, <2>3 DEF JobsHaveRows
<1>7. DestroyJobsAccepted'
  <2>1. \A j \in Jobs : j.type = "DESTROY" /\ Held(j)' => LeftProvisioning(j.dep)'
    BY <1>0, <1>1, <1>2, <1>3, <1>5 DEF JobsHaveRows, DestroyJobsAccepted
  <2>2. \A o \in orphans' : o.job.type = "DESTROY" => LeftProvisioning(o.job.dep)'
    BY <1>0, <1>1, <1>3, <1>4, <1>5 DEF JobsHaveRows, DestroyJobsAccepted
  <2> QED
    BY <2>1, <2>2 DEF DestroyJobsAccepted
<1>8. WritingIsDestroying'
  BY <1>0 DEF WritingIsDestroying
<1>9. DeploysLeaveServers'
  <2>1. ASSUME NEW w \in Workers, wk[w].pc = "done", wk[w].job.type = "DEPLOY"
        PROVE  \/ status'[wk[w].job.dep] # "PROVISIONING"
               \/ wk[w].job.dep \in stale' \/ wk[w].job.dep \in live
    BY <1>0, <1>1, <1>3, <1>4, <2>1
       DEF DeploysLeaveServers, JobsHaveRows, LeftProvisioning
  <2> QED
    BY <1>0, <2>1 DEF DeploysLeaveServers, LeftProvisioning
<1>10. DestroyingOwned'
  <2> SUFFICES ASSUME mode' # "down", NEW e \in Deployments,
                      status'[e] = "DESTROYING", e \notin stale'
               PROVE  JobFor("DESTROY", e)'
    BY DEF DestroyingOwned
  <2>1. JobFor("DESTROY", e)
    BY <1>0, <1>1 DEF DestroyingOwned
  <2> QED
    BY <2>1 DEF JobFor, Job, Jobs
<1>11. ProvisioningAccounted'
  <2> SUFFICES ASSUME mode' # "down", NEW e \in Deployments,
                      status'[e] = "PROVISIONING", e \notin stale'
               PROVE  JobFor("DEPLOY", e)' \/ e \in live'
    BY DEF ProvisioningAccounted
  <2>1. CASE e = d
    BY <2>1 DEF JobFor
  <2>2. CASE e # d
    <3>1. JobFor("DEPLOY", e) \/ e \in live
      BY <1>0, <1>1, <2>2 DEF ProvisioningAccounted
    <3> QED
      BY <3>1 DEF JobFor, Job, Jobs
  <2> QED
    BY <2>1, <2>2
<1> QED
  BY <1>6, <1>7, <1>8, <1>9, <1>10, <1>11 DEF IInv

\* A handler writes DESTROYING: from then on its destroy job is on its way.
LEMMA MarkKeeps ==
    ASSUME IInv, TypeOK', NEW r \in Reqs, MarkDestroying(r)
    PROVE  IInv'
<1>0. /\ TypeOK /\ JobsHaveRows /\ DestroyJobsAccepted /\ WritingIsDestroying
      /\ DeploysLeaveServers /\ DestroyingOwned /\ ProvisioningAccounted
  BY DEF IInv
<1>1. PICK x \in Jobs : req[r] = [pc |-> "write", job |-> x]
  BY <1>0, JobTypes DEF MarkDestroying, Attempting
<1>2. PICK d \in Deployments : d = x.dep
  BY DEF Jobs
<1>3. x.type = "DESTROY" /\ status[d] # "none"
  BY <1>0, <1>1, <1>2 DEF WritingIsDestroying, JobsHaveRows
<1>4. /\ req[r].pc = "write"
      /\ req' = [req EXCEPT ![r] = [pc |-> "assume", job |-> x]]
      /\ UNCHANGED <<mode, jobs, wk, orphans, live>>
  <2>1. [req[r] EXCEPT !.pc = "assume"] = [pc |-> "assume", job |-> x]
    BY <1>1
  <2>2. req' = [req EXCEPT ![r] = [req[r] EXCEPT !.pc = "assume"]]
    BY <1>0 DEF MarkDestroying, TypeOK
  <2>3. req' = [req EXCEPT ![r] = [pc |-> "assume", job |-> x]]
    BY <2>1, <2>2
  <2>4. UNCHANGED <<mode, jobs, wk, orphans, live>>
    BY DEF MarkDestroying, tfVars, live
  <2> QED
    BY <1>1, <2>3, <2>4
<1>5. \A j \in Jobs : Held(j)' <=> Held(j) \/ j = x
  <2>1. req[r].pc \in {"idle", "write"} /\ UNCHANGED <<jobs, wk>>
    BY <1>4
  <2> QED
    BY <1>0, <1>4, <2>1, HeldAdds
<1>6. /\ \A e \in Deployments :
            e # d => status'[e] = status[e] /\ (e \in stale' <=> e \in stale)
      /\ d \in stale' \/ status'[d] \in {"DESTROYING", "gone"}
      /\ status'[d] # "none"
      /\ d \in stale => d \in stale' \/ status'[d] \in {"DESTROYING", "gone"}
  BY <1>0, <1>1, <1>2, <1>3 DEF MarkDestroying, UpdateStatus, WriteStatus, Present, TypeOK
<1>7. \A j \in Jobs : j.dep \in Deployments
  BY DEF Jobs
<1>8. /\ \A o \in orphans : o.job \in Jobs
      /\ \A q \in Reqs : req'[q].pc = "write" => req'[q] = req[q] /\ req[q].job \in Jobs
      /\ \A w \in Workers : wk[w].pc # "idle" => wk[w].job \in Jobs /\ Held(wk[w].job)
  BY <1>0, <1>4, JobTypes DEF Attempting, Working, Held, TypeOK
<1>9. LeftProvisioning(d)' /\ \A e \in Deployments : LeftProvisioning(e) => LeftProvisioning(e)'
  BY <1>6 DEF LeftProvisioning
<1>10. JobsHaveRows'
  <2>1. \A j \in Jobs : Held(j)' => status'[j.dep] # "none"
    BY <1>0, <1>2, <1>5, <1>6, <1>7 DEF JobsHaveRows
  <2>2. \A q \in Reqs : req'[q].pc = "write" => status'[req'[q].job.dep] # "none"
    BY <1>0, <1>6, <1>7, <1>8 DEF JobsHaveRows
  <2>3. \A o \in orphans' : status'[o.job.dep] # "none"
    BY <1>0, <1>4, <1>6, <1>7, <1>8 DEF JobsHaveRows
  <2> QED
    BY <2>1, <2>2, <2>3 DEF JobsHaveRows
<1>11. DestroyJobsAccepted'
  <2>1. \A j \in Jobs : j.type = "DESTROY" /\ Held(j)' => LeftProvisioning(j.dep)'
    BY <1>0, <1>2, <1>5, <1>7, <1>9 DEF DestroyJobsAccepted
  <2>2. \A o \in orphans' : o.job.type = "DESTROY" => LeftProvisioning(o.job.dep)'
    BY <1>0, <1>4, <1>7, <1>8, <1>9 DEF DestroyJobsAccepted
  <2> QED
    BY <2>1, <2>2 DEF DestroyJobsAccepted
<1>12. WritingIsDestroying'
  BY <1>0, <1>8 DEF WritingIsDestroying
<1>13. DeploysLeaveServers'
  <2>1. ASSUME NEW w \in Workers, wk[w].pc = "done", wk[w].job.type = "DEPLOY"
        PROVE  \/ status'[wk[w].job.dep] # "PROVISIONING"
               \/ wk[w].job.dep \in stale' \/ wk[w].job.dep \in live
    BY <1>0, <1>6, <1>7, <1>8, <2>1 DEF DeploysLeaveServers, LeftProvisioning
  <2> QED
    BY <1>0, <1>4, <2>1 DEF DeploysLeaveServers, LeftProvisioning
<1>14. DestroyingOwned'
  <2> SUFFICES ASSUME mode' # "down", NEW e \in Deployments,
                      status'[e] = "DESTROYING", e \notin stale'
               PROVE  JobFor("DESTROY", e)'
    BY DEF DestroyingOwned
  <2>1. CASE e = d
    <3>1. x.creds \in Users /\ x = Job("DESTROY", d, x.creds)
      BY <1>2, <1>3 DEF Jobs, Job
    <3>2. Held(x)'
      BY <1>5
    <3> QED
      BY <2>1, <3>1, <3>2 DEF JobFor
  <2>2. CASE e # d
    <3>1. JobFor("DESTROY", e)
      BY <1>0, <1>4, <1>6, <2>2 DEF DestroyingOwned
    <3> QED
      BY <1>5, <3>1 DEF JobFor, Job, Jobs
  <2> QED
    BY <2>1, <2>2
<1>15. ProvisioningAccounted'
  <2> SUFFICES ASSUME mode' # "down", NEW e \in Deployments,
                      status'[e] = "PROVISIONING", e \notin stale'
               PROVE  JobFor("DEPLOY", e)' \/ e \in live'
    BY DEF ProvisioningAccounted
  <2>1. JobFor("DEPLOY", e) \/ e \in live
    BY <1>0, <1>4, <1>6 DEF ProvisioningAccounted
  <2> QED
    BY <1>4, <1>5, <2>1 DEF JobFor, Job, Jobs
<1> QED
  BY <1>10, <1>11, <1>12, <1>13, <1>14, <1>15 DEF IInv

-----------------------------------------------------------------------------
(* Every action.                                                           *)

LEMMA HandlerKeeps ==
    ASSUME IInv, NEW r \in Reqs, Handler(r)
    PROVE  IInv'
<1>0. /\ TypeOK /\ JobsHaveRows /\ WritingIsDestroying /\ DeploysLeaveServers
      /\ TypeOK'
  BY HandlerTypes DEF IInv
<1>1. ASSUME NEW d \in Deployments, NEW u \in Users,
             Deploy(r, d, u) \/ DeployReplyLost(r, d, u)
      PROVE  IInv'
  <2>1. CASE Deploy(r, d, u)
    <3>1. Job("DEPLOY", d, u) \in Jobs
      BY DEF Job, Jobs
    <3>2. \A j \in Jobs : Held(j)' <=> Held(j) \/ j = Job("DEPLOY", d, u)
      BY <1>0, <2>1, <3>1, HeldAdds DEF Deploy, Free
    <3>3. \A q \in Reqs : req'[q].pc = "write" => req'[q] = req[q]
      BY <1>0, <2>1 DEF Deploy, TypeOK
    <3> QED
      BY <1>0, <2>1, <3>1, <3>2, <3>3, InsertKeeps DEF Deploy, tfVars, live
  <2>2. CASE DeployReplyLost(r, d, u)
    <3>1. \A j \in Jobs : Held(j)' <=> Held(j)
      BY <2>2 DEF DeployReplyLost, Held
    <3> QED
      BY <1>0, <2>2, <3>1, InsertKeeps DEF DeployReplyLost, tfVars, live
  <2> QED
    BY <1>1, <2>1, <2>2
<1>2. CASE MarkDestroying(r)
  BY <1>0, <1>2, MarkKeeps
<1>4. \A q \in Reqs : req[q].pc = "write" => /\ req[q].job \in Jobs
                                             /\ req[q].job.type = "DESTROY"
                                             /\ status[req[q].job.dep] # "none"
  BY <1>0, JobTypes DEF WritingIsDestroying, JobsHaveRows, Attempting
<1>5. ASSUME NEW d \in Deployments, NEW u \in Users,
             Destroy(r, d, u) \/ AdminTerminate(r, d, u)
      PROVE  Frame
  <2>1. \A j \in Jobs : Held(j)' <=> Held(j)
    BY <1>0, <1>5, HandoverKeeps DEF Handover
  <2>2. \A q \in Reqs : req'[q].pc = "write" => /\ req'[q].job \in Jobs
                                                /\ req'[q].job.type = "DESTROY"
                                                /\ status[req'[q].job.dep] # "none"
    BY <1>0, <1>4, <1>5
       DEF Destroy, AdminTerminate, BeginDestroy, Job, Jobs, Present, TypeOK
  <2>3. UNCHANGED <<mode, status, stale, wk, orphans, live>>
    BY <1>5 DEF Destroy, AdminTerminate, BeginDestroy, dbVars, tfVars, live
  <2>4. Settles /\ ServersKept
    BY <2>3 DEF Settles, ServersKept
  <2> QED
    BY <1>0, <2>1, <2>2, <2>3, <2>4, QuietFrame
<1>6. CASE AssumeRole(r) \/ Push(r)
  <2>1. \A j \in Jobs : Held(j)' <=> Held(j)
    BY <1>0, <1>6, HandoverKeeps DEF Handover
  <2>2. \A q \in Reqs : req'[q].pc = "write" => req'[q] = req[q]
    BY <1>0, <1>6, JobTypes DEF AssumeRole, Push, Idle, TypeOK, Attempting
  <2>3. UNCHANGED <<mode, status, stale, wk, orphans, live>>
    BY <1>6 DEF AssumeRole, Push, dbVars, tfVars, live
  <2>4. Settles /\ ServersKept
    BY <2>3 DEF Settles, ServersKept
  <2>5. Frame
    BY <1>0, <1>4, <2>1, <2>2, <2>3, <2>4, QuietFrame
  <2> QED
    BY <1>0, <2>5, FrameSuffices
<1>7. CASE AssumeRoleFails(r)
  <2>1. PICK x \in Jobs : x = req[r].job
    BY <1>0, <1>7, JobTypes DEF AssumeRoleFails, Attempting
  <2>2. x.dep \in Deployments
    BY DEF Jobs
  <2>3. FailedStatus(x) \notin {"none", "PROVISIONING", "DESTROYING"}
    BY DEF FailedStatus
  <2>4. UpdateStatus(x.dep, FailedStatus(x))
    BY <1>7, <2>1 DEF AssumeRoleFails
  <2>5. Settles /\ Closed(x.dep)'
    BY <1>0, <2>2, <2>3, <2>4, WritesSettle
  <2>6. /\ req' = [req EXCEPT ![r] = Idle]
        /\ UNCHANGED <<mode, jobs, wk, orphans, live>>
    BY <1>7 DEF AssumeRoleFails, tfVars, live
  <2>7. \A j \in Jobs : /\ Held(j)' => Held(j)
                        /\ Held(j) => Held(j)' \/ j = x
    BY <1>0, <2>1, <2>6, HandlerDrops
  <2>8. \A q \in Reqs : req'[q].pc = "write" => req'[q] = req[q]
    BY <1>0, <2>6 DEF Idle, TypeOK
  <2>9. ServersKept
    BY <2>6 DEF ServersKept
  <2>10. \A j \in Jobs : Held(j) => Held(j)' \/ Closed(j.dep)'
    BY <2>5, <2>7
  <2>11. \A q \in Reqs : req'[q].pc = "write" => /\ req'[q].job \in Jobs
                                                 /\ req'[q].job.type = "DESTROY"
                                                 /\ status[req'[q].job.dep] # "none"
    BY <1>4, <2>8
  <2>12. UNCHANGED <<mode, wk, orphans>>
    BY <2>6
  <2>13. Frame
    BY <1>0, <2>5, <2>7, <2>9, <2>10, <2>11, <2>12, QuietFrame
  <2> QED
    BY <1>0, <2>13, FrameSuffices
<1> QED
  BY <1>0, <1>1, <1>2, <1>5, <1>6, <1>7, FrameSuffices DEF Handler

LEMMA EnvironmentKeeps ==
    ASSUME IInv, Environment
    PROVE  IInv'
<1>0. /\ TypeOK /\ TypeOK' /\ JobsHaveRows /\ DestroyJobsAccepted /\ WritingIsDestroying
      /\ DeploysLeaveServers
  BY EnvironmentTypes DEF IInv
<1>1. \A r \in Reqs : req[r].pc = "write" => /\ req[r].job \in Jobs
                                             /\ req[r].job.type = "DESTROY"
                                             /\ status[req[r].job.dep] # "none"
  BY <1>0, JobTypes DEF WritingIsDestroying, JobsHaveRows, Attempting
<1>2. ASSUME Settles, UNCHANGED <<mode, req, jobs, wk, orphans, live>>
      PROVE  IInv'
  <2>1. \A j \in Jobs : Held(j)' <=> Held(j)
    BY <1>2 DEF Held
  <2>2. ServersKept /\ UNCHANGED <<mode, wk, orphans>> /\ req' = req
    BY <1>2 DEF ServersKept
  <2>3. Frame
    BY <1>0, <1>1, <1>2, <2>1, <2>2, QuietFrame
  <2> QED
    BY <1>0, <2>3, FrameSuffices
<1>3. CASE \E d \in Deployments, s \in WebhookStatuses : WebhookUpdate(d, s)
  <2>1. Settles
    BY <1>0, <1>3, VelzardAssumption DEF WebhookUpdate, Settles, TypeOK
  <2> QED
    BY <1>2, <1>3, <2>1 DEF WebhookUpdate, tfVars, live
<1>4. CASE Reconcile
  BY <1>0, <1>2, <1>4, RecoverySettles DEF Reconcile, tfVars, live
<1>5. CASE \E us \in {{u} : u \in Users} \cup {Users} : DeleteRows(us)
  <2>1. Settles
    BY <1>0, <1>5 DEF DeleteRows, Settles, Present, TypeOK
  <2> QED
    BY <1>2, <1>5, <2>1 DEF DeleteRows, tfVars, live
<1>6. ASSUME NEW o \in orphans, OrphanKilled(o) \/ \E ok \in BOOLEAN : OrphanEnds(o, ok)
      PROVE  IInv'
  <2>1. /\ UNCHANGED <<mode, status, stale, req, jobs, wk>>
        /\ orphans' \subseteq orphans
    BY <1>6 DEF OrphanKilled, OrphanEnds, dbVars
  <2>2. \A j \in Jobs : Held(j)' <=> Held(j)
    BY <2>1 DEF Held
  <2>3. o.job.type = "DEPLOY" => live \subseteq live'
    BY <1>6 DEF OrphanKilled, OrphanEnds, TerraformEnds, ApplyEnds, ApplyKilled, tfVars, live
  <2>4. o.job.type = "DESTROY" => live \ {o.job.dep} \subseteq live'
    BY <1>6 DEF OrphanKilled, OrphanEnds, TerraformEnds, DestroyEnds, live
  <2>5. o.job.type \in {"DEPLOY", "DESTROY"}
    BY <1>0, JobTypes DEF Jobs
  <2>6. ServersKept
    BY <1>0, <2>3, <2>4, <2>5 DEF ServersKept, DestroyJobsAccepted
  <2>7. Settles
    BY <2>1 DEF Settles
  <2>8. Frame
    <3>1. \A w \in Workers :
            /\ wk'[w].pc = "done" => \/ wk[w].pc = "done" /\ wk'[w].job = wk[w].job
                                     \/ wk'[w].job.type = "DESTROY"
                                     \/ wk'[w].job.dep \in live'
            /\ wk'[w].pc = "cleanup" => wk'[w].job.type = "DESTROY"
      BY <1>0, <2>1 DEF DeploysLeaveServers
    <3>2. \A p \in orphans' : \E q \in orphans : p.job = q.job
      BY <2>1
    <3> QED
      BY <1>1, <2>1, <2>2, <2>6, <2>7, <3>1, <3>2 DEF Frame
  <2> QED
    BY <1>0, <2>8, FrameSuffices
<1> QED
  BY <1>3, <1>4, <1>5, <1>6 DEF Environment

LEMMA ProcessKeeps ==
    ASSUME IInv, Process
    PROVE  IInv'
<1>0. /\ TypeOK /\ TypeOK' /\ JobsHaveRows /\ DestroyJobsAccepted /\ WritingIsDestroying
      /\ DeploysLeaveServers
  BY ProcessTypes DEF IInv
<1>1. \A r \in Reqs : req[r].pc = "write" => /\ req[r].job \in Jobs
                                             /\ req[r].job.type = "DESTROY"
                                             /\ status[req[r].job.dep] # "none"
  BY <1>0, JobTypes DEF WritingIsDestroying, JobsHaveRows, Attempting
<1>2. \A w \in Workers :
        /\ wk[w].pc = "done" => \/ wk[w].pc = "done" /\ wk[w].job = wk[w].job
                                \/ wk[w].job.type = "DESTROY"
                                \/ wk[w].job.dep \in live'
        /\ wk[w].pc = "cleanup" => wk[w].job.type = "DESTROY"
  BY <1>0 DEF DeploysLeaveServers
<1>3. ASSUME Stop
      PROVE  IInv'
  <2>1. \A j \in Jobs : ~ Held(j)'
    BY <1>3 DEF Stop, Held, Idle
  <2>2. /\ \A r \in Reqs : req'[r].pc # "write"
        /\ \A w \in Workers : wk'[w].pc \notin {"done", "cleanup"}
    BY <1>3 DEF Stop, Idle
  <2>3. \A o \in orphans' : \/ \E p \in orphans : o.job = p.job
                            \/ o.job \in Jobs /\ Held(o.job)
    <3>1. \A w \in Workers : wk[w].pc \in Running => wk[w].job \in Jobs /\ Held(wk[w].job)
      BY <1>0, JobTypes DEF Working, Running, Held
    <3> QED
      BY <1>3, <3>1 DEF Stop
  <2>4. Settles /\ ServersKept /\ mode' = "down"
    BY <1>3 DEF Stop, Settles, ServersKept, dbVars, tfVars, live
  <2>5. Frame
    BY <2>1, <2>2, <2>3, <2>4 DEF Frame
  <2> QED
    BY <1>0, <2>5, FrameSuffices
<1>4. CASE Shutdown
  <2>1. UNCHANGED <<status, stale, req, jobs, wk, orphans, live>> /\ mode # "down"
    BY <1>4 DEF Shutdown, dbVars, tfVars, live
  <2>2. \A j \in Jobs : Held(j)' <=> Held(j)
    BY <2>1 DEF Held
  <2>3. Settles /\ ServersKept
    BY <2>1 DEF Settles, ServersKept
  <2>4. \A o \in orphans' : \E p \in orphans : o.job = p.job
    BY <2>1
  <2>5. Frame
    BY <1>1, <1>2, <2>1, <2>2, <2>3, <2>4 DEF Frame
  <2> QED
    BY <1>0, <2>5, FrameSuffices
<1>5. CASE Boot
  <2>1. UNCHANGED <<req, jobs, wk, orphans, live>>
    BY <1>5 DEF Boot, tfVars, live
  <2>2. \A j \in Jobs : Held(j)' <=> Held(j)
    BY <2>1 DEF Held
  <2>3. Settles /\ \A d \in Deployments : Closed(d)'
    <3>1. CASE FailInFlight
      BY <1>0, <3>1, RecoverySettles
    <3>2. CASE /\ stale' = stale \cup {d \in Deployments : InFlight(d)}
               /\ UNCHANGED <<status, owner, stamped>>
      BY <3>2 DEF Settles, Closed, InFlight
    <3> QED
      BY <1>5, <3>1, <3>2 DEF Boot, RecoverOrphanedDeployments
  <2>4. ServersKept /\ \A o \in orphans' : \E p \in orphans : o.job = p.job
    BY <2>1 DEF ServersKept
  <2>5. Frame
    BY <1>1, <1>2, <2>1, <2>2, <2>3, <2>4 DEF Frame
  <2> QED
    BY <1>0, <2>5, FrameSuffices
<1> QED
  BY <1>3, <1>4, <1>5 DEF Process, Crash, Exit

\* What a step has to leave behind with the workers.
Outcomes ==
    \A v \in Workers :
        /\ wk'[v].pc = "done" => \/ wk[v].pc = "done" /\ wk'[v].job = wk[v].job
                                 \/ wk'[v].job.type = "DESTROY"
                                 \/ wk'[v].job.dep \in live'
        /\ wk'[v].pc = "cleanup" => wk'[v].job.type = "DESTROY"

LEMMA WorkerKeeps ==
    ASSUME IInv, NEW w \in Workers, Worker(w)
    PROVE  IInv'
<1>0. /\ TypeOK /\ TypeOK' /\ JobsHaveRows /\ DestroyJobsAccepted /\ WritingIsDestroying
      /\ DeploysLeaveServers
  BY WorkerTypes DEF IInv
<1>1. \A r \in Reqs : req[r].pc = "write" => /\ req[r].job \in Jobs
                                             /\ req[r].job.type = "DESTROY"
                                             /\ status[req[r].job.dep] # "none"
  BY <1>0, JobTypes DEF WritingIsDestroying, JobsHaveRows, Attempting
<1>2. wk[w].pc # "idle" => /\ wk[w] \in Working
                           /\ wk[w].job \in Jobs
                           /\ wk[w].job.dep \in Deployments
                           /\ wk[w].job.type \in {"DEPLOY", "DESTROY"}
                           /\ Held(wk[w].job)
  BY <1>0, JobTypes DEF Working, Jobs, Held
<1>3. ASSUME Settles, ServersKept, Outcomes, mode' = mode, req' = req,
             \A o \in orphans' : \E p \in orphans : o.job = p.job,
             \A j \in Jobs : Held(j)' => Held(j),
             \A j \in Jobs : Held(j) =>
                \/ Held(j)'
                \/ Closed(j.dep)'
                \/ j.type = "DEPLOY" /\ (LeftProvisioning(j.dep) \/ j.dep \in live)'
      PROVE  IInv'
  <2>1. Frame
    BY <1>1, <1>3 DEF Frame, Outcomes
  <2> QED
    BY <1>0, <2>1, FrameSuffices
<1>4. ASSUME Handover, ServersKept, Outcomes, UNCHANGED <<mode, status, stale, req>>,
             \A o \in orphans' : \E p \in orphans : o.job = p.job
      PROVE  IInv'
  <2>1. \A j \in Jobs : Held(j)' <=> Held(j)
    BY <1>0, <1>4, HandoverKeeps
  <2>2. Settles
    BY <1>4 DEF Settles
  <2> QED
    BY <1>3, <1>4, <2>1, <2>2
<1>5. ASSUME NEW x, wk' = [wk EXCEPT ![w] = x], x.pc \notin {"done", "cleanup"}
      PROVE  Outcomes
  <2>1. \A v \in Workers : v # w => wk'[v] = wk[v]
    BY <1>0, <1>5 DEF TypeOK
  <2>2. wk'[w] = x
    BY <1>0, <1>5 DEF TypeOK
  <2> QED
    BY <1>0, <1>5, <2>1, <2>2 DEF DeploysLeaveServers, Outcomes
<1>6. ASSUME wk[w].pc # "idle", NEW pc, Goto(w, pc)
      PROVE  /\ wk'[w].pc = pc /\ wk'[w].job = wk[w].job
             /\ \A v \in Workers : v # w => wk'[v] = wk[v]
  BY <1>0, <1>2, <1>6 DEF Goto, TypeOK, Working
<1>7. CASE Take(w)
  <2>1. Handover /\ UNCHANGED <<mode, status, stale, req, orphans, live>>
    BY <1>7 DEF Handover, Take, dbVars, tfVars, live
  <2>2. Outcomes
    BY <1>5, <1>7 DEF Take
  <2> QED
    BY <1>4, <2>1, <2>2 DEF ServersKept
<1>8. CASE Prepare(w) \/ StepFails(w) \/ StartTerraform(w)
  <2>1. Handover /\ UNCHANGED <<mode, status, stale, req, orphans, live>>
    BY <1>8 DEF Handover, Prepare, WriteConfig, StepFails, StartTerraform, dbVars, tfVars, live
  <2>2. /\ wk[w].pc # "idle"
        /\ \E pc \in {"start", "failed", "run"} : Goto(w, pc)
    BY <1>8 DEF Prepare, StepFails, StartTerraform
  <2>3. Outcomes
    BY <1>0, <1>6, <2>2 DEF DeploysLeaveServers, Outcomes
  <2> QED
    BY <1>4, <2>1, <2>3 DEF ServersKept
<1>9. ASSUME NEW ok \in BOOLEAN, EndTerraform(w, ok)
      PROVE  IInv'
  <2>1. Handover /\ UNCHANGED <<mode, status, stale, req, orphans>>
    BY <1>9 DEF Handover, EndTerraform, dbVars
  <2>2. /\ wk[w].pc # "idle"
        /\ TerraformEnds(wk[w].job, wk[w].pc, ok)
        /\ Goto(w, IF ~ok THEN "failed"
                   ELSE IF wk[w].job.type = "DESTROY" THEN "cleanup" ELSE "done")
    BY <1>9 DEF EndTerraform, Running
  <2>3. /\ wk'[w].pc = "done" => ok /\ wk[w].job.type = "DEPLOY"
        /\ wk'[w].pc = "cleanup" => wk[w].job.type = "DESTROY"
        /\ wk'[w].job = wk[w].job
        /\ \A v \in Workers : v # w => wk'[v] = wk[v]
    BY <1>2, <1>6, <2>2
  <2>4. ok /\ wk[w].job.type = "DEPLOY" => wk[w].job.dep \in live'
    BY <2>2 DEF TerraformEnds, ApplyEnds, live
  <2>5. Outcomes
    BY <1>0, <2>3, <2>4 DEF DeploysLeaveServers, Outcomes
  <2>6. wk[w].job.type = "DEPLOY" => live \subseteq live'
    BY <2>2 DEF TerraformEnds, ApplyEnds, tfVars, live
  <2>7. wk[w].job.type = "DESTROY" => live \ {wk[w].job.dep} \subseteq live'
    BY <2>2 DEF TerraformEnds, DestroyEnds, tfVars, live
  <2>8. wk[w].job.type = "DESTROY" => LeftProvisioning(wk[w].job.dep)
    BY <1>0, <1>2, <2>2 DEF DestroyJobsAccepted
  <2>9. ServersKept
    BY <1>2, <2>2, <2>6, <2>7, <2>8 DEF ServersKept
  <2>10. \A o \in orphans' : \E p \in orphans : o.job = p.job
    BY <2>1
  <2> QED
    BY <1>4, <2>1, <2>5, <2>9, <2>10
<1>10. CASE RemoveWorkspace(w)
  <2>1. Handover /\ UNCHANGED <<mode, status, stale, req, live>>
    BY <1>10 DEF Handover, RemoveWorkspace, RemoveDirectory, dbVars, live
  <2>2. wk[w].pc = "cleanup" /\ wk[w].job.type = "DESTROY" /\ wk'[w].job = wk[w].job
    BY <1>0, <1>2, <1>10 DEF RemoveWorkspace, DeploysLeaveServers, Working
  <2>3. \A v \in Workers : v # w => \/ wk'[v] = wk[v]
                                    \/ wk'[v].pc = "detached"
    BY <1>0, <1>10, JobTypes DEF RemoveWorkspace, Detach, Working
  <2>4. Outcomes
    BY <1>0, <2>2, <2>3 DEF DeploysLeaveServers, Outcomes
  <2>5. \A o \in orphans' : \E p \in orphans : o.job = p.job
    BY <1>0, <1>10 DEF RemoveWorkspace, Detach, TypeOK
  <2> QED
    BY <1>4, <2>1, <2>4, <2>5 DEF ServersKept
<1>11. ASSUME NEW x \in Jobs, wk[w].pc # "idle", x = wk[w].job,
              wk' = [wk EXCEPT ![w] = Idle],
              UNCHANGED <<mode, jobs, req, orphans, live>>, Settles,
              \/ Closed(x.dep)'
              \/ x.type = "DEPLOY" /\ (LeftProvisioning(x.dep) \/ x.dep \in live)'
       PROVE  IInv'
  <2>1. /\ \A j \in Jobs : Held(j)' => Held(j)
        /\ \A j \in Jobs : Held(j) => Held(j)' \/ j = x
    BY <1>0, <1>11, WorkerDrops
  <2>2. Outcomes
    BY <1>5, <1>11 DEF Idle
  <2>3. ServersKept
    BY <1>11 DEF ServersKept
  <2>4. \A o \in orphans' : \E p \in orphans : o.job = p.job
    BY <1>11
  <2> QED
    BY <1>3, <1>11, <2>1, <2>2, <2>3, <2>4
<1>12. ASSUME NEW x \in Jobs, Held(x), NEW s \in Statuses \ {"none", "PROVISIONING", "DESTROYING"},
              UpdateStatusAndError(x.dep, s)
       PROVE  Settles /\ Closed(x.dep)'
  BY <1>0, <1>12, WritesSettle DEF Jobs, JobsHaveRows
<1>13. CASE FinishFailed(w)
  <2>1. PICK x \in Jobs : x = wk[w].job /\ wk[w].pc # "idle" /\ Held(x)
    BY <1>2, <1>13 DEF FinishFailed
  <2>2. FailedStatus(x) \in Statuses \ {"none", "PROVISIONING", "DESTROYING"}
    BY DEF FailedStatus, Statuses
  <2>3. Settles /\ Closed(x.dep)'
    BY <1>12, <1>13, <2>1, <2>2 DEF FinishFailed
  <2> QED
    BY <1>11, <1>13, <2>1, <2>3 DEF FinishFailed, tfVars, live
<1>14. CASE FinishDestroy(w)
  <2>1. PICK x \in Jobs : x = wk[w].job /\ wk[w].pc # "idle" /\ Held(x)
    BY <1>2, <1>14 DEF FinishDestroy
  <2>2. Settles /\ Closed(x.dep)'
    BY <1>12, <1>14, <2>1 DEF FinishDestroy, Statuses
  <2> QED
    BY <1>11, <1>14, <2>1, <2>2 DEF FinishDestroy, tfVars, live
<1>15. CASE FinishDeploy(w)
  <2>1. PICK x \in Jobs : x = wk[w].job /\ wk[w].pc # "idle" /\ x.type = "DEPLOY"
    BY <1>2, <1>15 DEF FinishDeploy
  <2>2. UNCHANGED <<mode, jobs, req, orphans, live, status, stale>>
    BY <1>15 DEF FinishDeploy, dbVars, tfVars, live
  <2>3. (LeftProvisioning(x.dep) \/ x.dep \in live)'
    BY <1>0, <1>15, <2>1, <2>2 DEF FinishDeploy, DeploysLeaveServers, LeftProvisioning
  <2>4. Settles
    BY <2>2 DEF Settles
  <2> QED
    BY <1>11, <1>15, <2>1, <2>2, <2>3, <2>4 DEF FinishDeploy
<1>16. CASE \E ok \in BOOLEAN : EndTerraform(w, ok)
  BY <1>9, <1>16
<1> QED
  BY <1>7, <1>8, <1>10, <1>13, <1>14, <1>15, <1>16 DEF Worker

-----------------------------------------------------------------------------
(* The theorems.                                                           *)

\* The inductive invariant of velzard holds for every set of deployments,
\* handlers, workers and users, every queue capacity and every number of stops.
THEOREM Inductive == Spec => []IInv
<1>1. Init => IInv
  <2> SUFFICES ASSUME Init
               PROVE  IInv
    OBVIOUS
  <2>1. TypeOK
    BY InitTyped
  <2>2. /\ \A j \in Jobs : ~ Held(j)
        /\ \A r \in Reqs : req[r].pc = "idle"
        /\ \A w \in Workers : wk[w].pc = "idle"
        /\ orphans = {}
        /\ \A d \in Deployments : status[d] = "none"
    BY DEF Init, Idle, Held
  <2>3. JobsHaveRows /\ DestroyJobsAccepted /\ WritingIsDestroying /\ DeploysLeaveServers
    BY <2>2 DEF JobsHaveRows, DestroyJobsAccepted, WritingIsDestroying, DeploysLeaveServers
  <2>4. DestroyingOwned /\ ProvisioningAccounted
    BY <2>2 DEF DestroyingOwned, ProvisioningAccounted
  <2> QED
    BY <2>1, <2>3, <2>4 DEF IInv
<1>2. IInv /\ [Next]_vars => IInv'
  <2> SUFFICES ASSUME IInv, [Next]_vars
               PROVE  IInv'
    OBVIOUS
  <2>1. CASE Next
    BY <2>1, HandlerKeeps, WorkerKeeps, ProcessKeeps, EnvironmentKeeps DEF Next
  <2>2. CASE UNCHANGED vars
    <3> USE <2>2 DEF vars, dbVars, tfVars, live
    <3>1. TypeOK'
      BY DEF IInv, TypeOK, TerraformTypeOK
    <3>2. JobsHaveRows' /\ DestroyJobsAccepted' /\ WritingIsDestroying' /\ DeploysLeaveServers'
      BY DEF IInv, JobsHaveRows, DestroyJobsAccepted, WritingIsDestroying,
             DeploysLeaveServers, Held, LeftProvisioning
    <3>3. DestroyingOwned' /\ ProvisioningAccounted'
      BY DEF IInv, DestroyingOwned, ProvisioningAccounted, JobFor, Held
    <3> QED
      BY <3>1, <3>2, <3>3 DEF IInv
  <2> QED
    BY <2>1, <2>2
<1> QED
  BY <1>1, <1>2, PTL DEF Spec

\* No interleaving of handlers, workers, restarts, reports and deletions strands a
\* row in DESTROYING without a destroy job that is on its way.
THEOREM DestroyingIsOwned == Spec => []DestroyingOwned
<1>1. IInv => DestroyingOwned
  BY DEF IInv
<1> QED
  BY <1>1, Inductive, PTL

\* No interleaving leaves a row in PROVISIONING without a deploy job or a server.
THEOREM ProvisioningIsAccounted == Spec => []ProvisioningAccounted
<1>1. IInv => ProvisioningAccounted
  BY DEF IInv
<1> QED
  BY <1>1, Inductive, PTL

-----------------------------------------------------------------------------
(* The refinement.                                                         *)

\* A worker is idle exactly when it holds no job.
LEMMA IdleHasNoJob ==
    ASSUME TypeOK, NEW w \in Workers
    PROVE  /\ wk[w].pc = "idle" => wk[w].job = NoJob
           /\ wk[w].pc # "idle" => wk[w].job \in Jobs /\ wk[w].job # NoJob
BY VelzardAssumption DEF TypeOK, Idle, Running

\* Steps that leave the channel alone and every worker its job.
LEMMA QuietSteps ==
    ASSUME UNCHANGED jobs, \A w \in Workers : wk'[w].job = wk[w].job
    PROVE  UNCHANGED Pool!poolVars
BY DEF Pool!poolVars

\* Steps that change the job of one worker.
LEMMA BusyChanges ==
    ASSUME NEW w \in Workers, NEW j, wk'[w].job = j,
           \A v \in Workers : v # w => wk'[v] = wk[v]
    PROVE  [v \in Workers |-> wk[v].job]' = [[v \in Workers |-> wk[v].job] EXCEPT ![w] = j]
<1> DEFINE Busy == [v \in Workers |-> wk[v].job]
           Changed == [Busy EXCEPT ![w] = j]
<1>1. Busy' = [v \in Workers |-> wk'[v].job]
  OBVIOUS
<1>2. Changed = [v \in Workers |-> IF v = w THEN j ELSE wk[v].job]
  OBVIOUS
<1>3. \A v \in Workers : wk'[v].job = IF v = w THEN j ELSE wk[v].job
  OBVIOUS
<1> QED
  BY <1>1, <1>2, <1>3, Zenon

\* Steps that end a job.
LEMMA FinishSteps ==
    ASSUME TypeOK, NEW w \in Workers, wk[w].pc # "idle",
           wk' = [wk EXCEPT ![w] = Idle], UNCHANGED jobs
    PROVE  Pool!Finish(w)
<1>1. wk[w].job # NoJob
  BY IdleHasNoJob
<1>2. wk'[w].job = NoJob /\ \A v \in Workers : v # w => wk'[v] = wk[v]
  BY DEF TypeOK, Idle
<1> QED
  BY <1>1, <1>2, BusyChanges DEF Pool!Finish

LEMMA HandlerSteps ==
    ASSUME TypeOK, NEW r \in Reqs, Handler(r)
    PROVE  Pool!Next \/ UNCHANGED Pool!poolVars
<1>1. CASE Push(r)
  <2>1. req[r].job \in Jobs
    BY <1>1 DEF Push, TypeOK, Idle
  <2>2. Pool!Accept(req[r].job)
    BY <1>1 DEF Push, Pool!Accept
  <2> QED
    BY <2>1, <2>2 DEF Pool!Next
<1>2. CASE ~ Push(r)
  <2>1. UNCHANGED <<jobs, wk>>
    BY <1>2 DEF Handler, Deploy, DeployReplyLost, Destroy, AdminTerminate, BeginDestroy,
                MarkDestroying, AssumeRole, AssumeRoleFails
  <2> QED
    BY <2>1, QuietSteps
<1> QED
  BY <1>1, <1>2

LEMMA WorkerSteps ==
    ASSUME TypeOK, NEW w \in Workers, Worker(w)
    PROVE  Pool!Next \/ UNCHANGED Pool!poolVars
<1>1. CASE Take(w)
  <2>1. wk[w].job = NoJob
    BY <1>1, IdleHasNoJob DEF Take
  <2>2. wk'[w].job = Head(jobs) /\ \A v \in Workers : v # w => wk'[v] = wk[v]
    BY <1>1 DEF Take, TypeOK
  <2>3. Pool!Begin(w)
    BY <1>1, <2>1, <2>2, BusyChanges DEF Take, Pool!Begin
  <2> QED
    BY <2>3 DEF Pool!Next
<1>2. ASSUME NEW pc, Goto(w, pc), UNCHANGED jobs
      PROVE  UNCHANGED Pool!poolVars
  <2>1. \A v \in Workers : wk'[v].job = wk[v].job
    BY <1>2, JobTypes DEF Goto, TypeOK, Idle, Running
  <2> QED
    BY <1>2, <2>1, QuietSteps
<1>3. CASE Prepare(w) \/ StepFails(w) \/ StartTerraform(w)
  BY <1>2, <1>3 DEF Prepare, StepFails, StartTerraform
<1>4. CASE \E ok \in BOOLEAN : EndTerraform(w, ok)
  <2> PICK ok \in BOOLEAN : EndTerraform(w, ok)
    BY <1>4
  <2> QED
    BY <1>2 DEF EndTerraform
<1>5. CASE RemoveWorkspace(w)
  <2>1. \A v \in Workers : wk'[v].job = wk[v].job
    <3>1. \A v \in Workers : Detach(wk[v], wk[w].job.dep).job = wk[v].job
      BY DEF Detach, TypeOK, Idle, Running
    <3>2. [wk[w] EXCEPT !.pc = "done"].job = wk[w].job
      BY DEF TypeOK, Idle, Running
    <3> QED
      BY <1>5, <3>1, <3>2 DEF RemoveWorkspace
  <2> QED
    BY <1>5, <2>1, QuietSteps DEF RemoveWorkspace
<1>6. CASE FinishFailed(w) \/ FinishDeploy(w) \/ FinishDestroy(w)
  <2>1. Pool!Finish(w)
    BY <1>6, FinishSteps DEF FinishFailed, FinishDeploy, FinishDestroy
  <2> QED
    BY <2>1 DEF Pool!Next
<1> QED
  BY <1>1, <1>3, <1>4, <1>5, <1>6 DEF Worker

LEMMA OtherSteps ==
    ASSUME Process \/ Environment
    PROVE  Pool!Next \/ UNCHANGED Pool!poolVars
<1>1. CASE Crash \/ Exit
  <2>1. Pool!Lose
    BY <1>1 DEF Crash, Exit, Stop, Idle, Pool!Lose
  <2> QED
    BY <2>1 DEF Pool!Next
<1>2. CASE Shutdown \/ Boot \/ Environment
  <2>1. UNCHANGED <<jobs, wk>>
    BY <1>2 DEF Shutdown, Boot, Environment, WebhookUpdate, OrphanKilled, OrphanEnds,
                Reconcile, DeleteRows
  <2> QED
    BY <2>1, QuietSteps
<1> QED
  BY <1>1, <1>2 DEF Process

\* Every behaviour of the engine is one of the pool: accepted jobs are begun once, in
\* order, by one worker, and are lost with the process only.  (That they are begun
\* and finished at all is the part of ImplementsPool that needs fairness.)
THEOREM PoolRefined == Spec => Pool!Init /\ [][Pool!Next]_(Pool!poolVars)
<1>1. Init => Pool!Init
  BY DEF Init, Idle, Pool!Init
<1>2. TypeOK /\ [Next]_vars => [Pool!Next]_(Pool!poolVars)
  <2> SUFFICES ASSUME TypeOK, [Next]_vars
               PROVE  Pool!Next \/ UNCHANGED Pool!poolVars
    OBVIOUS
  <2>1. CASE Next
    BY <2>1, HandlerSteps, WorkerSteps, OtherSteps DEF Next
  <2>2. CASE UNCHANGED vars
    BY <2>2, QuietSteps DEF vars
  <2> QED
    BY <2>1, <2>2
<1> QED
  BY <1>1, <1>2, TypeCorrect, PTL DEF Spec
=============================================================================
