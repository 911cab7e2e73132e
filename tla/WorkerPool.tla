----------------------------- MODULE WorkerPool -----------------------------
(***************************************************************************)
(* The streaming worker pools of classification: a coordinator             *)
(* (quasi_order.rs, try_streaming_leaf_node_strategy and                   *)
(* try_streaming_resolution) dispatches tasks over a bounded channel to    *)
(* worker threads that share the channel's receiver behind a mutex, and    *)
(* takes their results one at a time from an unbounded channel             *)
(* (reasoner.rs, ConceptStreamingPool and ConceptResolutionPool).          *)
(*                                                                         *)
(* A task is a name; what is built for it is module Classification.  A     *)
(* worker may panic while it builds.                                       *)
(***************************************************************************)
EXTENDS Naturals, Sequences, FiniteSets

CONSTANTS
    Workers,     \* the worker threads
    Tasks,       \* what may have to be built
    MaxPanics    \* bound on the workers that panic

ASSUME PoolAssumption == IsFiniteSet(Workers) /\ Workers # {} /\ MaxPanics \in Nat

VARIABLES
    worklist,    \* tasks waiting to be dispatched
    freed,       \* tasks a harvest may still add to the worklist
    budget,      \* in-flight builds the memory governor allows
    inFlight,    \* tasks dispatched and not harvested
    harvested,   \* history: tasks whose result the coordinator has seen
    coordinator, \* fill, wait, close, join, returned
    work,        \* the bounded work channel
    workOpen,    \* its sender has not been dropped
    results,     \* the results channel
    lock,        \* {} or {the worker that holds the receiver}
    worker,      \* [Workers -> idle, receiving, building, exited, panicked]
    building,    \* [Workers -> {} or {the task being built, or lost with the thread}]
    joined       \* workers whose handle has been joined

channels == <<work, workOpen, results>>
threads  == <<lock, worker, building>>
agenda   == <<worklist, freed, budget>>
poolVars == <<agenda, inFlight, harvested, coordinator, channels, threads, joined>>

WorkerCount == Cardinality(Workers)

Stopped(w) == worker[w] \in {"exited", "panicked"}

Panicked == {w \in Workers : worker[w] = "panicked"}

PoolInit ==
    /\ worklist \in SUBSET Tasks
    /\ freed = Tasks \ worklist
    /\ budget = WorkerCount
    /\ inFlight = {} /\ harvested = {}
    /\ coordinator = "fill"
    /\ work = <<>> /\ workOpen = TRUE /\ results = <<>>
    /\ lock = {}
    /\ worker = [w \in Workers |-> "idle"]
    /\ building = [w \in Workers |-> {}]
    /\ joined = {}

-----------------------------------------------------------------------------
(* The coordinator.                                                        *)

\* Mutant: one build more than the budget.
BudgetLeftOver == Cardinality(inFlight) <= budget

BudgetLeft == Cardinality(inFlight) < budget

\* dispatch: the send blocks on a full channel.  Its error, that no worker is left to
\* receive, is ignored by the code and cannot occur (SendSucceeds).
Dispatch(t) ==
    /\ coordinator = "fill" /\ BudgetLeft
    /\ t \in worklist
    /\ Len(work) < WorkerCount
    /\ worklist' = worklist \ {t}
    /\ inFlight' = inFlight \cup {t}
    /\ work' = Append(work, t)
    /\ UNCHANGED <<freed, budget, harvested, coordinator, workOpen, results, threads,
                   joined>>

\* Mutant: the loop is never left.
FilledForEver ==
    /\ coordinator = "fill"
    /\ worklist = {} \/ ~BudgetLeft
    /\ coordinator' = IF inFlight = {} THEN "fill" ELSE "wait"
    /\ UNCHANGED <<agenda, inFlight, harvested, channels, threads, joined>>

\* The pipeline is full, or there is nothing to dispatch.
Filled ==
    /\ coordinator = "fill"
    /\ worklist = {} \/ ~BudgetLeft
    /\ coordinator' = IF inFlight = {} THEN "close" ELSE "wait"
    /\ UNCHANGED <<agenda, inFlight, harvested, channels, threads, joined>>

\* What the memory governor may answer: one build under pressure, else all.
Budgets == {1, WorkerCount}

\* recv and harvest: the result may free tasks for the worklist, and the memory
\* governor is asked again.
Receive ==
    /\ coordinator = "wait"
    /\ results # <<>>
    /\ results' = Tail(results)
    /\ inFlight' = inFlight \ {Head(results)}
    /\ harvested' = harvested \cup {Head(results)}
    /\ \E new \in SUBSET freed : worklist' = worklist \cup new /\ freed' = freed \ new
    /\ budget' \in Budgets
    /\ coordinator' = "fill"
    /\ UNCHANGED <<work, workOpen, threads, joined>>

\* Every sender of the results channel is gone: recv returns None.
ReceiveNone ==
    /\ coordinator = "wait"
    /\ results = <<>>
    /\ \A w \in Workers : Stopped(w)
    /\ coordinator' = "close"
    /\ UNCHANGED <<agenda, inFlight, harvested, channels, threads, joined>>

\* Drop closes the work channel, then joins the workers one by one.
Close ==
    /\ coordinator = "close"
    /\ workOpen' = FALSE
    /\ coordinator' = "join"
    /\ UNCHANGED <<agenda, inFlight, harvested, work, results, threads, joined>>

\* Mutant: a worker is not waited for.
JoinDetached(w) ==
    /\ coordinator = "join"
    /\ w \notin joined
    /\ joined' = joined \cup {w}
    /\ UNCHANGED <<agenda, inFlight, harvested, coordinator, channels, threads>>

Join(w) ==
    /\ coordinator = "join"
    /\ w \notin joined /\ Stopped(w)
    /\ joined' = joined \cup {w}
    /\ UNCHANGED <<agenda, inFlight, harvested, coordinator, channels, threads>>

Return ==
    /\ coordinator = "join" /\ joined = Workers
    /\ coordinator' = "returned"
    /\ UNCHANGED <<agenda, inFlight, harvested, channels, threads, joined>>

-----------------------------------------------------------------------------
(* A worker.                                                               *)

\* A worker waits for work with the receiver locked, the others for the lock.
Lock(w) ==
    /\ worker[w] = "idle" /\ lock = {}
    /\ lock' = {w}
    /\ worker' = [worker EXCEPT ![w] = "receiving"]
    /\ UNCHANGED <<agenda, inFlight, harvested, coordinator, channels, building, joined>>

\* Mutant: the task stays in the channel.
TakeCopies(w) ==
    /\ worker[w] = "receiving" /\ work # <<>>
    /\ building' = [building EXCEPT ![w] = {Head(work)}]
    /\ worker' = [worker EXCEPT ![w] = "building"]
    /\ lock' = {}
    /\ UNCHANGED <<agenda, inFlight, harvested, coordinator, channels, joined>>

Take(w) ==
    /\ worker[w] = "receiving" /\ work # <<>>
    /\ work' = Tail(work)
    /\ building' = [building EXCEPT ![w] = {Head(work)}]
    /\ worker' = [worker EXCEPT ![w] = "building"]
    /\ lock' = {}
    /\ UNCHANGED <<agenda, inFlight, harvested, coordinator, workOpen, results, joined>>

\* recv fails on a channel that is closed and empty.
Exit(w) ==
    /\ worker[w] = "receiving" /\ work = <<>> /\ ~workOpen
    /\ worker' = [worker EXCEPT ![w] = "exited"]
    /\ lock' = {}
    /\ UNCHANGED <<agenda, inFlight, harvested, coordinator, channels, building, joined>>

Send(w) ==
    /\ worker[w] = "building"
    /\ \E t \in building[w] : results' = Append(results, t)
    /\ building' = [building EXCEPT ![w] = {}]
    /\ worker' = [worker EXCEPT ![w] = "idle"]
    /\ UNCHANGED <<agenda, inFlight, harvested, coordinator, work, workOpen, lock, joined>>

\* The build panics: the thread ends and its result is never sent.
Panic(w) ==
    /\ worker[w] = "building" /\ Cardinality(Panicked) < MaxPanics
    /\ worker' = [worker EXCEPT ![w] = "panicked"]
    /\ UNCHANGED <<agenda, inFlight, harvested, coordinator, channels, lock, building, joined>>

-----------------------------------------------------------------------------
Coordinate ==
    \/ \E t \in Tasks : Dispatch(t)
    \/ Filled \/ Receive \/ ReceiveNone \/ Close \/ Return
    \/ \E w \in Workers : Join(w)

Work(w) == Lock(w) \/ Take(w) \/ Exit(w) \/ Send(w)

Returned == coordinator = "returned" /\ UNCHANGED poolVars

PoolNext == Coordinate \/ (\E w \in Workers : Work(w) \/ Panic(w)) \/ Returned

\* Every thread runs, every build ends, and the mutex goes to some waiter.
PoolSpec ==
    /\ PoolInit /\ [][PoolNext]_poolVars
    /\ WF_poolVars(Coordinate)
    /\ WF_poolVars(\E w \in Workers : Lock(w))
    /\ \A w \in Workers : WF_poolVars(Take(w) \/ Exit(w) \/ Send(w))

-----------------------------------------------------------------------------
(* Properties.                                                             *)

\* The channels carry tasks, and the memory governor always leaves room for one.
PoolTypeOK ==
    /\ worklist \subseteq Tasks /\ freed \subseteq Tasks
    /\ budget \in 1 .. WorkerCount
    /\ inFlight \subseteq Tasks /\ harvested \subseteq Tasks
    /\ coordinator \in {"fill", "wait", "close", "join", "returned"}
    /\ work \in Seq(Tasks) /\ workOpen \in BOOLEAN /\ results \in Seq(Tasks)
    /\ lock \in SUBSET Workers
    /\ worker \in [Workers -> {"idle", "receiving", "building", "exited", "panicked"}]
    /\ building \in [Workers -> SUBSET Tasks]
    /\ joined \subseteq Workers

\* No task in flight is lost or built twice: it is at exactly one place, of the work
\* channel, of the results channel or in the hands of one worker, where a panic
\* leaves it for good; and nothing is there that the coordinator does not wait for.
Queued == {work[i] : i \in DOMAIN work}
Sent == {results[i] : i \in DOMAIN results}
Held == UNION {building[w] : w \in Workers}
InFlightAccounted ==
    /\ inFlight = Queued \cup Sent \cup Held
    /\ Queued \cap Sent = {} /\ Queued \cap Held = {} /\ Sent \cap Held = {}
    /\ \A i, j \in DOMAIN work : i # j => work[i] # work[j]
    /\ \A i, j \in DOMAIN results : i # j => results[i] # results[j]
    /\ \A v, w \in Workers : v # w => building[v] \cap building[w] = {}

\* The coordinator's cap on in-flight builds means that dispatch never blocks on
\* a full work channel, even right after the memory governor raised the budget, and
\* never loses a task because every worker has panicked.
SendSucceeds ==
    coordinator = "fill" /\ BudgetLeft
        => Len(work) < WorkerCount /\ \E w \in Workers : ~Stopped(w)

\* When the pool has been dropped no worker thread is left that could read the
\* ontology the threads borrow beyond its lifetime; and unless one of them panicked
\* every task given to the coordinator, or freed on the way, was built and harvested.
PoolDropped ==
    coordinator = "returned" =>
        /\ \A w \in Workers : Stopped(w)
        /\ Panicked = {} => harvested = Tasks \ freed /\ inFlight = {}

\* The pipeline drains and the pool is dropped: neither the coordinator waiting
\* for results nor the workers waiting for the lock or for work wait for ever,
\* unless a worker panics.
PipelineDrains == <>(coordinator = "returned" \/ Panicked # {})
=============================================================================
