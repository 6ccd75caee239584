------------------------------ MODULE WorkerPool ------------------------------
(****************************************************************************)
(* What the job queues of both engines promise, without handlers, database  *)
(* or terraform: a bounded first-in first-out queue and a fixed number of   *)
(* workers.  An accepted job is begun once, by one worker, in the order of  *)
(* acceptance, and is finished; or it is lost with the process, together    *)
(* with everything else the pool held.  There is no retry and no drain.     *)
(****************************************************************************)
EXTENDS Naturals, Sequences

CONSTANTS
    Workers,
    Jobs,               \* what may be asked of a worker
    Capacity,           \* of the channel
    NoJob               \* the job of a worker that has none

VARIABLES
    waiting,            \* accepted jobs, oldest first
    busy                \* per worker, the job it has begun

poolVars == <<waiting, busy>>

Init ==
    /\ waiting = <<>>
    /\ busy = [w \in Workers |-> NoJob]

Accept(j) ==
    /\ Len(waiting) < Capacity
    /\ waiting' = Append(waiting, j)
    /\ UNCHANGED busy

Begin(w) ==
    /\ busy[w] = NoJob
    /\ waiting # <<>>
    /\ busy' = [busy EXCEPT ![w] = Head(waiting)]
    /\ waiting' = Tail(waiting)

Finish(w) ==
    /\ busy[w] # NoJob
    /\ busy' = [busy EXCEPT ![w] = NoJob]
    /\ UNCHANGED waiting

Lose ==
    /\ waiting' = <<>>
    /\ busy' = [w \in Workers |-> NoJob]

Next ==
    \/ \E j \in Jobs : Accept(j)
    \/ \E w \in Workers : Begin(w) \/ Finish(w)
    \/ Lose

\* An idle worker does not ignore a waiting job, and a job that was begun ends.
Spec ==
    /\ Init
    /\ [][Next]_poolVars
    /\ \A w \in Workers : WF_poolVars(Begin(w)) /\ WF_poolVars(Finish(w))
=============================================================================
