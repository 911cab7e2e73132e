----------------------------- MODULE MCThreads -----------------------------
(***************************************************************************)
(* What threads do to one another, on small instances.  A behaviour runs   *)
(* one of two components, chosen in the initial state: a pool of workers   *)
(* of classification, or the tasks of a reasoner that another thread and   *)
(* the clock interrupt.  The other one stays in an initial state.          *)
(***************************************************************************)
EXTENDS WorkerPool, Interruption

VARIABLE running

InitPool == running = "pool" /\ PoolInit /\ InterruptInit /\ ~timeout
InitTasks == running = "tasks" /\ InterruptInit /\ PoolInit /\ worklist = {}
NextPool == running = "pool" /\ PoolNext /\ UNCHANGED <<running, interruptVars>>
NextTasks == running = "tasks" /\ InterruptNext /\ UNCHANGED <<running, poolVars>>

\* The fairness of PoolSpec, where the pool runs, and that of InterruptSpec; where
\* the pool runs no task has started, so that the latter asks for nothing.
PoolFairness ==
    /\ WF_poolVars(running = "pool" /\ Coordinate)
    /\ WF_poolVars(running = "pool" /\ \E w \in Workers : Lock(w))
    /\ \A w \in Workers : WF_poolVars(running = "pool" /\ (Take(w) \/ Exit(w) \/ Send(w)))
TaskFairness ==
    /\ WF_interruptVars(LoopHead) /\ WF_interruptVars(IterationPoll)
    /\ SF_interruptVars(EndIteration) /\ WF_interruptVars(EndEvaluate)
    /\ WF_interruptVars(AfterLoop)
    /\ WF_interruptVars(FinalPoll) /\ WF_interruptVars(EndTask)

ThreadsSpec == /\ InitPool \/ InitTasks
               /\ [][NextPool \/ NextTasks]_<<running, poolVars, interruptVars>>
               /\ PoolFairness /\ TaskFairness

\* The pipeline drains and the pool is dropped: neither the coordinator waiting
\* for results nor the workers waiting for the lock or for work wait for ever,
\* unless a worker panics.
PoolDrains == running = "pool" => PipelineDrains
=============================================================================
