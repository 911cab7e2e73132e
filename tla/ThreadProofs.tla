---------------------------- MODULE ThreadProofs ----------------------------
(***************************************************************************)
(* Proofs about what threads do to one another: cancelling a reasoning     *)
(* task (Interruption), for any number of tasks, interrupts and elapsed    *)
(* timeouts, and the pools of workers (WorkerPool), for any number of      *)
(* worker threads, any set of tasks and any number of panics.              *)
(***************************************************************************)
EXTENDS WorkerPool, Interruption, FiniteSetTheorems, TLAPS

\* Every leaf that names no prover is given to these, in this order.
USE SMTT(90), ZenonT(60)

(***************************************************************************)
(* Cancelling a task.                                                      *)
(***************************************************************************)
\* The latch and the clock stand for the causes while a task runs, what is latched
\* is one of them, and past the last poll none is left unlatched.
ErrorsInvariant ==
    /\ InterruptTypeOK
    /\ ErrorsExact
    /\ pending \subseteq cause
    /\ pc # "idle" => result = {}
    /\ pc \in Running => /\ interrupted <=> "Interrupted" \in cause
                         /\ timeout /\ elapsed <=> "Timeout" \in cause
    /\ pc = "end" /\ cause # {} => pending # {}

\* A poll latches a cause whenever there is one.
LEMMA PollLatches ==
    ASSUME ErrorsInvariant, pc \in Running, NoteInterrupt
    PROVE  /\ pending' \in {{}} \cup {{e} : e \in InterruptError}
           /\ pending' \subseteq cause
           /\ cause # {} => pending' # {}
<1>1. CASE pending = {}
  <2>1. CheckInterrupt \subseteq cause /\ CheckInterrupt \in {{}} \cup {{e} : e \in InterruptError}
    BY DEF CheckInterrupt, ErrorsInvariant, InterruptError
  <2>2. cause # {} => CheckInterrupt # {}
    <3> SUFFICES ASSUME cause # {} PROVE CheckInterrupt # {}
      OBVIOUS
    <3>1. "Interrupted" \in cause \/ "Timeout" \in cause
      BY Zenon DEF ErrorsInvariant, InterruptTypeOK, InterruptError
    <3> QED
      BY <3>1 DEF CheckInterrupt, ErrorsInvariant
  <2> QED
    BY <1>1, <2>1, <2>2 DEF NoteInterrupt
<1>2. CASE pending # {}
  BY <1>2 DEF NoteInterrupt, ErrorsInvariant, InterruptTypeOK
<1> QED
  BY <1>1, <1>2

\* Returning surfaces what is latched, which must be there if anything is.
LEMMA ReturnPreserves ==
    ASSUME ErrorsInvariant, TaskReturn, pc # "idle", pending # {} \/ pc = "end"
    PROVE  ErrorsInvariant'
<1>1. pending = {} => cause = {}
  BY DEF ErrorsInvariant
<1>2. InterruptTypeOK'
  BY Zenon DEF ErrorsInvariant, InterruptTypeOK, TaskReturn
<1>3. result' = (IF pending = {} THEN {"Ok"} ELSE pending) /\ cause' = cause /\ pending' = {} /\ pc' = "idle"
  BY DEF TaskReturn
<1>4. ErrorsExact'
  BY <1>1, <1>3 DEF ErrorsExact, ErrorsInvariant, InterruptTypeOK, InterruptError
<1> QED
  BY <1>2, <1>3, <1>4 DEF ErrorsInvariant, Running

LEMMA TaskStepPreserves == ErrorsInvariant /\ TaskStep => ErrorsInvariant'
<1> SUFFICES ASSUME ErrorsInvariant, TaskStep PROVE ErrorsInvariant'
  OBVIOUS
<1> USE DEF Running
\* The polls.
<1>1. ASSUME pc \in Running, NoteInterrupt, pc' \in Running \cup {"end"},
             UNCHANGED <<flag, task, cause>>
      PROVE  ErrorsInvariant'
  <2>1. /\ pending' \in {{}} \cup {{e} : e \in InterruptError}
        /\ pending' \subseteq cause
        /\ cause # {} => pending' # {}
    BY <1>1, PollLatches
  <2>2. UNCHANGED <<interrupted, elapsed, timeout, polling, result, tasks, cause>>
    BY <1>1 DEF flag, task
  <2> QED
    BY <1>1, <2>1, <2>2 DEF ErrorsInvariant, InterruptTypeOK, ErrorsExact
\* The steps that neither poll nor return.
<1>2. ASSUME pc \in Running, pc' \in Running, polling' \in BOOLEAN,
             UNCHANGED <<flag, pending, timeout, result, tasks, cause>>
      PROVE  ErrorsInvariant'
  BY <1>2 DEF ErrorsInvariant, InterruptTypeOK, ErrorsExact, flag
<1>3. polling \in BOOLEAN /\ (timeout \/ interrupted) \in BOOLEAN
  BY DEF ErrorsInvariant, InterruptTypeOK
<1>4. CASE LoopHead
  BY <1>2, <1>3, <1>4, ReturnPreserves DEF LoopHead, task
<1>5. CASE IterationPoll \/ WorkPoll \/ Evaluate \/ FinalPoll
  BY <1>1, <1>5 DEF IterationPoll, WorkPoll, Evaluate, FinalPoll
<1>6. CASE BeginEvaluate
  BY <1>2, <1>3, <1>6 DEF BeginEvaluate
<1>7. CASE EndEvaluate \/ EndIteration
  BY <1>2, <1>3, <1>7 DEF EndEvaluate, EndIteration, task
<1>8. CASE AfterLoop
  BY <1>2, <1>3, <1>8, ReturnPreserves DEF AfterLoop, task
<1>9. CASE EndTask
  BY <1>9, ReturnPreserves DEF EndTask
<1> QED
  BY <1>4, <1>5, <1>6, <1>7, <1>8, <1>9 DEF TaskStep

\* However the interrupts and the clock fall between the polls of any number of
\* tasks, a task fails for a cause of its own, and one that had a cause before its
\* last poll does not report a result.
THEOREM ErrorsAreExact == InterruptSpec => []ErrorsExact
<1>1. InterruptInit => ErrorsInvariant
  <2> SUFFICES ASSUME InterruptInit PROVE ErrorsInvariant
    OBVIOUS
  <2>1. tasks \in 0 .. MaxTasks
    BY MaxTasksAssumption DEF InterruptInit
  <2>2. InterruptTypeOK
    BY Zenon, <2>1 DEF InterruptInit, InterruptTypeOK
  <2> QED
    BY <2>2, Zenon DEF InterruptInit, ErrorsInvariant, ErrorsExact, Running
<1>2. ErrorsInvariant /\ [InterruptNext]_interruptVars => ErrorsInvariant'
  <2> SUFFICES ASSUME ErrorsInvariant, [InterruptNext]_interruptVars PROVE ErrorsInvariant'
    OBVIOUS
  <2>1. CASE StartTask
    <3>1. tasks + 1 \in 0 .. MaxTasks
      BY <2>1, MaxTasksAssumption DEF StartTask, ErrorsInvariant, InterruptTypeOK
    <3> QED
      BY Zenon, <2>1, <3>1 DEF StartTask, ErrorsInvariant, InterruptTypeOK, ErrorsExact, Running
  <2>2. CASE TaskStep
    BY <2>2, TaskStepPreserves
  <2>3. CASE Interrupt
    BY <2>3 DEF Interrupt, ErrorsInvariant, InterruptTypeOK, InterruptError, ErrorsExact,
                Running, task
  <2>4. CASE Elapse
    BY <2>4 DEF Elapse, ErrorsInvariant, InterruptTypeOK, InterruptError, ErrorsExact,
                Running, task
  <2>5. CASE UNCHANGED interruptVars
    BY <2>5 DEF interruptVars, ErrorsInvariant, InterruptTypeOK, ErrorsExact
  <2> QED
    BY <2>1, <2>2, <2>3, <2>4, <2>5 DEF InterruptNext, NoMoreTasks
<1>3. ErrorsInvariant => ErrorsExact
  BY DEF ErrorsInvariant
<1> QED
  BY <1>1, <1>2, <1>3, PTL DEF InterruptSpec

(***************************************************************************)
(* The worker pools: a dispatched task is at one place until it is         *)
(* harvested, dispatch neither blocks nor fails, and no thread outlives    *)
(* the pool.                                                               *)
(***************************************************************************)
\* A worker has a task in its hands exactly from Take to Send, or for ever
\* once it has panicked.
HandsFull ==
    \A w \in Workers : IF worker[w] \in {"building", "panicked"}
                       THEN \E t \in Tasks : building[w] = {t}
                       ELSE building[w] = {}

\* Every task is waiting, not yet freed, in flight or harvested.
TasksPartitioned ==
    /\ Tasks = worklist \cup freed \cup inFlight \cup harvested
    /\ worklist \cap freed = {} /\ worklist \cap inFlight = {} /\ worklist \cap harvested = {}
    /\ freed \cap inFlight = {} /\ freed \cap harvested = {} /\ inFlight \cap harvested = {}
    /\ IsFiniteSet(inFlight)

\* The work channel is open until the drop, no worker leaves before, and the drop
\* begins with nothing left to do, or after a panic; it joins the threads that ended.
Lifetimes ==
    /\ workOpen <=> coordinator \in {"fill", "wait", "close"}
    /\ \A w \in Workers : worker[w] = "exited" => ~workOpen
    /\ coordinator \in {"close", "join", "returned"} => Panicked # {} \/ (inFlight = {} /\ worklist = {})
    /\ \A w \in joined : Stopped(w)
    /\ coordinator = "returned" => joined = Workers

PoolInvariant == PoolTypeOK /\ InFlightAccounted /\ HandsFull /\ TasksPartitioned /\ Lifetimes

(***************************************************************************)
(* Sequences: what the two ends of a channel do to its contents.           *)
(***************************************************************************)
Contents(s) == {s[i] : i \in DOMAIN s}
Distinct(s) == \A i, j \in DOMAIN s : i # j => s[i] # s[j]

\* A send on a channel adds one element.
LEMMA AppendContents ==
  ASSUME NEW S, NEW s \in Seq(S), NEW t \in S
  PROVE  /\ Append(s, t) \in Seq(S)
         /\ Contents(Append(s, t)) = Contents(s) \cup {t}
         /\ Distinct(s) /\ t \notin Contents(s) => Distinct(Append(s, t))
<1> DEFINE u == Append(s, t)
<1>1. u \in Seq(S) /\ Len(u) = Len(s) + 1 /\ Len(s) \in Nat
  OBVIOUS
<1>2. DOMAIN u = 1..(Len(s) + 1) /\ DOMAIN s = 1..Len(s)
  BY <1>1
<1>3. \A i \in DOMAIN s : u[i] = s[i]
  BY <1>2
<1>4. u[Len(s) + 1] = t
  OBVIOUS
<1> HIDE DEF u
<1>5. DOMAIN u = DOMAIN s \cup {Len(s) + 1} /\ Len(s) + 1 \notin DOMAIN s
  BY <1>1, <1>2
<1>6. Contents(u) = Contents(s) \cup {t}
  BY <1>3, <1>4, <1>5 DEF Contents
<1>7. Distinct(s) /\ t \notin Contents(s) => Distinct(u)
  BY <1>3, <1>4, <1>5 DEF Contents, Distinct
<1> QED BY <1>1, <1>6, <1>7 DEF u

\* A receive takes the first one, and with distinct elements only that.
LEMMA TailContents ==
  ASSUME NEW S, NEW s \in Seq(S), s # <<>>, Distinct(s)
  PROVE  /\ Tail(s) \in Seq(S) /\ Head(s) \in S /\ Head(s) \in Contents(s)
         /\ Contents(Tail(s)) = Contents(s) \ {Head(s)}
         /\ Distinct(Tail(s))
<1> DEFINE u == Tail(s)
<1>1. /\ u \in Seq(S) /\ Len(s) \in Nat \ {0} /\ Len(u) = Len(s) - 1
      /\ Head(s) = s[1] /\ s[1] \in S
  OBVIOUS
<1>2. DOMAIN u = 1..(Len(s) - 1) /\ DOMAIN s = 1..Len(s)
  BY <1>1
<1>3. \A i \in 1..(Len(s) - 1) : u[i] = s[i + 1]
  BY <1>1
<1> HIDE DEF u
<1>4. Contents(u) = {s[i] : i \in 2..Len(s)}
  <2>1. \A i \in 1..(Len(s) - 1) : i + 1 \in 2..Len(s)
    BY <1>1
  <2>2. \A i \in 2..Len(s) : i - 1 \in 1..(Len(s) - 1) /\ u[i - 1] = s[i]
    BY <1>1, <1>3
  <2> QED BY <1>2, <1>3, <2>1, <2>2 DEF Contents
<1>5. DOMAIN s = {1} \cup 2..Len(s) /\ 1 \notin 2..Len(s)
  BY <1>1, <1>2
<1>6. \A i \in 2..Len(s) : s[i] # s[1]
  BY <1>5 DEF Distinct
<1>7. Contents(s) = {s[1]} \cup Contents(u) /\ s[1] \notin Contents(u)
  BY Zenon, <1>4, <1>5, <1>6 DEF Contents
<1>8. Distinct(u)
  <2> SUFFICES ASSUME NEW i \in DOMAIN u, NEW j \in DOMAIN u, i # j PROVE u[i] # u[j]
    BY DEF Distinct
  <2>1. i + 1 \in DOMAIN s /\ j + 1 \in DOMAIN s /\ i + 1 # j + 1
    BY <1>1, <1>2
  <2> QED BY <1>2, <1>3, <2>1 DEF Distinct
<1> QED BY <1>1, <1>7, <1>8 DEF u

(***************************************************************************)
(* Preservation, one lemma per action.                                     *)
(***************************************************************************)
\* The initial state: every task waits or may be freed, all threads are idle.
LEMMA PoolInitially == PoolInit => PoolInvariant
<1> SUFFICES ASSUME PoolInit PROVE PoolInvariant
  OBVIOUS
<1>1. WorkerCount \in Nat \ {0}
  BY PoolAssumption, FS_CardinalityType, FS_EmptySet DEF WorkerCount
<1>2. PoolTypeOK
  BY <1>1 DEF PoolInit, PoolTypeOK
<1>3. InFlightAccounted
  BY DEF PoolInit, InFlightAccounted, Queued, Sent, Held
<1>4. HandsFull
  BY DEF PoolInit, HandsFull
<1>5. TasksPartitioned
  BY FS_EmptySet DEF PoolInit, TasksPartitioned
<1>6. Lifetimes
  BY DEF PoolInit, Lifetimes
<1> QED BY <1>2, <1>3, <1>4, <1>5, <1>6 DEF PoolInvariant

\* Steps that leave the channels and the hands of the workers alone.
LEMMA PlacesUnchanged ==
  ASSUME InFlightAccounted, UNCHANGED <<work, results, building, inFlight>>
  PROVE  InFlightAccounted'
BY DEF InFlightAccounted, Queued, Sent, Held

\* Dispatch: the task was nowhere, since it waited.
LEMMA DispatchPreserves ==
  ASSUME PoolInvariant, NEW t \in Tasks, Dispatch(t) PROVE PoolInvariant'
<1> USE DEF Dispatch, threads
<1>1. t \notin inFlight /\ t \in worklist
  BY DEF PoolInvariant, TasksPartitioned
<1>2. work \in Seq(Tasks) /\ Distinct(work) /\ Contents(work) = Queued /\ t \notin Queued /\ t \notin Sent /\ t \notin Held
  BY <1>1 DEF PoolInvariant, PoolTypeOK, InFlightAccounted, Distinct, Contents, Queued
<1>3. work' \in Seq(Tasks) /\ Distinct(work') /\ Contents(work') = Queued \cup {t}
  BY <1>2, AppendContents
<1>4. Queued' = Queued \cup {t} /\ Sent' = Sent /\ Held' = Held
  BY <1>3 DEF Contents, Queued, Sent, Held
<1>5. PoolTypeOK'
  BY <1>3 DEF PoolInvariant, PoolTypeOK, WorkerCount
<1>6. InFlightAccounted'
  BY <1>2, <1>3, <1>4 DEF PoolInvariant, InFlightAccounted, Distinct
<1>7. HandsFull'
  BY DEF PoolInvariant, HandsFull
<1>8. TasksPartitioned'
  <2>1. IsFiniteSet(inFlight')
    BY FS_AddElement DEF PoolInvariant, TasksPartitioned
  <2> QED BY <1>1, <2>1 DEF PoolInvariant, TasksPartitioned
<1>9. Lifetimes'
  BY DEF PoolInvariant, Lifetimes, Stopped, Panicked
<1> QED BY <1>5, <1>6, <1>7, <1>8, <1>9 DEF PoolInvariant

\* Filled: with nothing in flight there is budget for a build, so the worklist is
\* empty when the coordinator goes to the drop.
LEMMA FilledPreserves ==
  ASSUME PoolInvariant, Filled PROVE PoolInvariant'
<1> USE DEF Filled, agenda, channels, threads
<1>1. inFlight = {} => worklist = {}
  <2> SUFFICES ASSUME inFlight = {} PROVE BudgetLeft
    OBVIOUS
  <2>1. Cardinality(inFlight) = 0
    BY FS_EmptySet
  <2>2. WorkerCount \in Nat /\ budget \in 1..WorkerCount
    BY PoolAssumption, FS_CardinalityType DEF PoolInvariant, PoolTypeOK, WorkerCount
  <2> QED BY <2>1, <2>2 DEF BudgetLeft
<1>2. coordinator' \in {"close", "wait"} /\ (coordinator' = "close" => inFlight = {})
  OBVIOUS
<1>3. PoolTypeOK'
  BY <1>2 DEF PoolInvariant, PoolTypeOK, WorkerCount
<1>4. InFlightAccounted'
  BY PlacesUnchanged DEF PoolInvariant
<1>5. HandsFull' /\ TasksPartitioned'
  BY DEF PoolInvariant, HandsFull, TasksPartitioned
<1>6. Lifetimes'
  BY <1>1, <1>2 DEF PoolInvariant, Lifetimes, Stopped, Panicked
<1> QED BY <1>3, <1>4, <1>5, <1>6 DEF PoolInvariant

\* Receive: the result leaves the channel and the count, and nothing else does.
LEMMA ReceivePreserves ==
  ASSUME PoolInvariant, Receive PROVE PoolInvariant'
<1> USE DEF Receive, threads
<1> DEFINE t == Head(results)
<1>1. /\ results' \in Seq(Tasks) /\ t \in Tasks /\ t \in Sent
      /\ Sent' = Sent \ {t} /\ Distinct(results')
  <2>1. results \in Seq(Tasks) /\ Distinct(results) /\ Contents(results) = Sent /\ results # <<>>
    BY DEF PoolInvariant, PoolTypeOK, InFlightAccounted, Distinct, Contents, Sent
  <2>2. Contents(Tail(results)) = Sent \ {t} /\ Distinct(Tail(results)) /\ Tail(results) \in Seq(Tasks)
        /\ t \in Tasks /\ t \in Sent
    BY <2>1, TailContents
  <2> QED BY <2>2 DEF Contents, Sent
<1> HIDE DEF t
<1>2. inFlight' = inFlight \ {t} /\ harvested' = harvested \cup {t} /\ coordinator = "wait" /\ coordinator' = "fill"
  BY DEF t
<1>3. t \in inFlight
  BY <1>1 DEF PoolInvariant, InFlightAccounted
<1>4. PICK new \in SUBSET freed : worklist' = worklist \cup new /\ freed' = freed \ new
  OBVIOUS
<1>5. PoolTypeOK'
  <2>1. WorkerCount \in Nat \ {0} /\ WorkerCount' = WorkerCount
    BY PoolAssumption, FS_CardinalityType, FS_EmptySet DEF WorkerCount
  <2>2. budget' \in 1..WorkerCount
    BY <2>1 DEF Budgets
  <2>3. worklist' \subseteq Tasks /\ freed' \subseteq Tasks /\ inFlight' \subseteq Tasks /\ harvested' \subseteq Tasks
    BY <1>1, <1>2, <1>4 DEF PoolInvariant, PoolTypeOK
  <2> QED BY <1>1, <1>2, <2>1, <2>2, <2>3 DEF PoolInvariant, PoolTypeOK
<1>6. InFlightAccounted'
  <2>1. Queued' = Queued /\ Held' = Held
    BY DEF Queued, Held
  <2>2. inFlight' = Queued' \cup Sent' \cup Held'
    BY <1>1, <1>2, <2>1 DEF PoolInvariant, InFlightAccounted
  <2>3. Queued' \cap Sent' = {} /\ Queued' \cap Held' = {} /\ Sent' \cap Held' = {}
    BY <1>1, <2>1 DEF PoolInvariant, InFlightAccounted
  <2> QED BY <1>1, <2>2, <2>3 DEF PoolInvariant, InFlightAccounted, Distinct
<1>7. HandsFull'
  BY DEF PoolInvariant, HandsFull
<1>8. TasksPartitioned'
  <2>1. IsFiniteSet(inFlight')
    BY <1>2, FS_RemoveElement DEF PoolInvariant, TasksPartitioned
  <2>2. Tasks = worklist' \cup freed' \cup inFlight' \cup harvested'
    BY <1>2, <1>3, <1>4 DEF PoolInvariant, TasksPartitioned
  <2> QED BY <1>2, <1>3, <1>4, <2>1, <2>2 DEF PoolInvariant, TasksPartitioned
<1>9. Lifetimes'
  BY <1>2 DEF PoolInvariant, Lifetimes, Stopped
<1> QED BY <1>5, <1>6, <1>7, <1>8, <1>9 DEF PoolInvariant

\* ReceiveNone: the work channel is open, so threads that all ended all panicked.
LEMMA ReceiveNonePreserves ==
  ASSUME PoolInvariant, ReceiveNone PROVE PoolInvariant'
<1> USE DEF ReceiveNone, agenda, channels, threads
<1>1. workOpen
  BY DEF PoolInvariant, Lifetimes
<1>2. \A w \in Workers : worker[w] = "panicked"
  BY <1>1 DEF PoolInvariant, Lifetimes, Stopped
<1>3. Panicked # {}
  BY <1>2, PoolAssumption DEF Panicked
<1>4. PoolTypeOK'
  BY DEF PoolInvariant, PoolTypeOK, WorkerCount
<1>5. InFlightAccounted'
  BY PlacesUnchanged DEF PoolInvariant
<1>6. HandsFull' /\ TasksPartitioned'
  BY DEF PoolInvariant, HandsFull, TasksPartitioned
<1>7. Lifetimes'
  BY <1>3 DEF PoolInvariant, Lifetimes, Stopped, Panicked
<1> QED BY <1>4, <1>5, <1>6, <1>7 DEF PoolInvariant

\* The drop: the channel is closed, the threads that ended are joined.
LEMMA DropPreserves ==
  ASSUME PoolInvariant, Close \/ (\E w \in Workers : Join(w)) \/ Return PROVE PoolInvariant'
<1> USE DEF agenda, channels, threads
<1>1. UNCHANGED <<agenda, inFlight, harvested, work, results, threads>>
  BY DEF Close, Join, Return
<1>2. InFlightAccounted'
  BY <1>1, PlacesUnchanged DEF PoolInvariant
<1>3. HandsFull' /\ TasksPartitioned'
  BY <1>1 DEF PoolInvariant, HandsFull, TasksPartitioned
<1>4. CASE Close
  <2>1. PoolTypeOK'
    BY Zenon, <1>4, <1>1 DEF Close, PoolInvariant, PoolTypeOK, WorkerCount
  <2>2. Lifetimes'
    BY <1>4, <1>1 DEF Close, PoolInvariant, Lifetimes, Stopped, Panicked
  <2> QED BY <1>2, <1>3, <2>1, <2>2 DEF PoolInvariant
<1>5. CASE \E w \in Workers : Join(w)
  <2>1. PICK w \in Workers : Join(w)
    BY <1>5
  <2>2. PoolTypeOK'
    BY <2>1, <1>1 DEF Join, PoolInvariant, PoolTypeOK, WorkerCount
  <2>3. Lifetimes'
    BY <2>1, <1>1 DEF Join, PoolInvariant, Lifetimes, Stopped, Panicked
  <2> QED BY <1>2, <1>3, <2>2, <2>3 DEF PoolInvariant
<1>6. CASE Return
  <2>1. PoolTypeOK'
    BY <1>6, <1>1 DEF Return, PoolInvariant, PoolTypeOK, WorkerCount
  <2>2. Lifetimes'
    BY <1>6, <1>1 DEF Return, PoolInvariant, Lifetimes, Stopped, Panicked
  <2> QED BY <1>2, <1>3, <2>1, <2>2 DEF PoolInvariant
<1> QED BY <1>4, <1>5, <1>6

\* A worker that locks the receiver, or exits, has nothing in its hands.
LEMMA LockPreserves ==
  ASSUME PoolInvariant, NEW w \in Workers, Lock(w) \/ Exit(w) PROVE PoolInvariant'
<1> USE DEF agenda, channels
<1>1. /\ UNCHANGED <<agenda, inFlight, harvested, coordinator, channels, building, joined>>
      /\ lock' \in {{}, {w}} /\ worker[w] \in {"idle", "receiving"}
      /\ \E state \in {"receiving", "exited"} :
           worker' = [worker EXCEPT ![w] = state] /\ (state = "exited" => ~workOpen)
  BY DEF Lock, Exit
<1>2. worker \in [Workers -> {"idle", "receiving", "building", "exited", "panicked"}]
  BY DEF PoolInvariant, PoolTypeOK
<1>3. /\ worker' \in [Workers -> {"idle", "receiving", "building", "exited", "panicked"}]
      /\ \A v \in Workers \ {w} : worker'[v] = worker[v]
      /\ worker'[w] \in {"receiving", "exited"} /\ (worker'[w] = "exited" => ~workOpen)
  BY <1>1, <1>2
<1>4. PoolTypeOK'
  BY <1>1, <1>3 DEF PoolInvariant, PoolTypeOK, WorkerCount
<1>5. InFlightAccounted'
  BY <1>1, PlacesUnchanged DEF PoolInvariant
<1>6. HandsFull'
  BY <1>1, <1>3 DEF PoolInvariant, HandsFull
<1>7. TasksPartitioned'
  BY <1>1 DEF PoolInvariant, TasksPartitioned
<1>8. Lifetimes'
  <2>1. Panicked' = Panicked
    BY <1>1, <1>3 DEF Panicked
  <2>2. w \notin joined
    BY <1>1 DEF PoolInvariant, Lifetimes, Stopped
  <2>3. \A v \in joined' : Stopped(v)'
    BY <1>1, <1>3, <2>2 DEF PoolInvariant, PoolTypeOK, Lifetimes, Stopped
  <2> QED BY <1>1, <1>3, <2>1, <2>3 DEF PoolInvariant, Lifetimes
<1> QED BY <1>4, <1>5, <1>6, <1>7, <1>8 DEF PoolInvariant

\* Take: the task goes from the channel to the worker's empty hands.
LEMMA TakePreserves ==
  ASSUME PoolInvariant, NEW w \in Workers, Take(w) PROVE PoolInvariant'
<1> USE DEF agenda
<1> DEFINE t == Head(work)
<1>1. /\ UNCHANGED <<agenda, inFlight, harvested, coordinator, workOpen, results, joined>>
      /\ worker[w] = "receiving" /\ work # <<>> /\ work' = Tail(work) /\ lock' = {}
      /\ building' = [building EXCEPT ![w] = {t}] /\ worker' = [worker EXCEPT ![w] = "building"]
  BY DEF Take
<1>2. /\ work' \in Seq(Tasks) /\ t \in Tasks /\ t \in Queued
      /\ Queued' = Queued \ {t} /\ Distinct(work')
  <2>1. work \in Seq(Tasks) /\ Distinct(work) /\ Contents(work) = Queued
    BY DEF PoolInvariant, PoolTypeOK, InFlightAccounted, Distinct, Contents, Queued
  <2>2. Contents(Tail(work)) = Queued \ {t} /\ Distinct(Tail(work)) /\ Tail(work) \in Seq(Tasks)
        /\ t \in Tasks /\ t \in Queued
    BY <1>1, <2>1, TailContents
  <2> QED BY <1>1, <2>2 DEF Contents, Queued
<1> HIDE DEF t
<1>3. /\ worker \in [Workers -> {"idle", "receiving", "building", "exited", "panicked"}]
      /\ building \in [Workers -> SUBSET Tasks] /\ building[w] = {}
  BY <1>1 DEF PoolInvariant, PoolTypeOK, HandsFull
<1>4. /\ worker' \in [Workers -> {"idle", "receiving", "building", "exited", "panicked"}]
      /\ building' \in [Workers -> SUBSET Tasks]
      /\ worker'[w] = "building" /\ building'[w] = {t}
      /\ \A v \in Workers \ {w} : worker'[v] = worker[v] /\ building'[v] = building[v]
  BY <1>1, <1>2, <1>3
<1>5. Held' = Held \cup {t} /\ t \notin Held
  <2>1. t \notin Held
    BY <1>2 DEF PoolInvariant, InFlightAccounted
  <2>2. Held' = Held \cup {t}
    BY <1>3, <1>4 DEF Held
  <2> QED BY <2>1, <2>2
<1>6. PoolTypeOK'
  BY <1>1, <1>2, <1>4 DEF PoolInvariant, PoolTypeOK, WorkerCount
<1>7. InFlightAccounted'
  <2>1. Sent' = Sent
    BY <1>1 DEF Sent
  <2>2. inFlight' = Queued' \cup Sent' \cup Held'
    BY <1>1, <1>2, <1>5, <2>1 DEF PoolInvariant, InFlightAccounted
  <2>3. Queued' \cap Sent' = {} /\ Queued' \cap Held' = {} /\ Sent' \cap Held' = {}
    BY <1>2, <1>5, <2>1 DEF PoolInvariant, InFlightAccounted
  <2>4. \A u, v \in Workers : u # v => building'[u] \cap building'[v] = {}
    <3>1. \A v \in Workers : t \notin building[v]
      BY <1>5 DEF Held
    <3> QED BY <1>4, <3>1 DEF PoolInvariant, InFlightAccounted
  <2> QED BY <1>1, <1>2, <2>2, <2>3, <2>4 DEF PoolInvariant, InFlightAccounted, Distinct
<1>8. HandsFull'
  BY <1>2, <1>4 DEF PoolInvariant, HandsFull
<1>9. TasksPartitioned'
  BY <1>1 DEF PoolInvariant, TasksPartitioned
<1>10. Lifetimes'
  <2>1. Panicked' = Panicked
    BY <1>1, <1>4 DEF Panicked
  <2>2. \A v \in joined' : Stopped(v)'
    BY <1>1, <1>4 DEF PoolInvariant, PoolTypeOK, Lifetimes, Stopped
  <2> QED BY <1>1, <1>4, <2>1, <2>2 DEF PoolInvariant, Lifetimes
<1> QED BY <1>6, <1>7, <1>8, <1>9, <1>10 DEF PoolInvariant

\* Send: the task goes from the worker's hands to the results.
LEMMA SendPreserves ==
  ASSUME PoolInvariant, NEW w \in Workers, Send(w) PROVE PoolInvariant'
<1> USE DEF agenda
<1>1. PICK t \in building[w] : results' = Append(results, t)
  BY DEF Send
<1>2. /\ UNCHANGED <<agenda, inFlight, harvested, coordinator, work, workOpen, lock, joined>>
      /\ worker[w] = "building"
      /\ building' = [building EXCEPT ![w] = {}] /\ worker' = [worker EXCEPT ![w] = "idle"]
  BY DEF Send
<1>3. /\ worker \in [Workers -> {"idle", "receiving", "building", "exited", "panicked"}]
      /\ building \in [Workers -> SUBSET Tasks] /\ building[w] = {t} /\ t \in Tasks /\ t \in Held
  BY <1>1, <1>2 DEF PoolInvariant, PoolTypeOK, HandsFull, Held
<1>4. /\ worker' \in [Workers -> {"idle", "receiving", "building", "exited", "panicked"}]
      /\ building' \in [Workers -> SUBSET Tasks]
      /\ worker'[w] = "idle" /\ building'[w] = {}
      /\ \A v \in Workers \ {w} : worker'[v] = worker[v] /\ building'[v] = building[v]
  BY <1>2, <1>3
<1>5. results' \in Seq(Tasks) /\ Sent' = Sent \cup {t} /\ Distinct(results')
  <2>1. results \in Seq(Tasks) /\ Distinct(results) /\ Contents(results) = Sent /\ t \notin Sent
    BY <1>3 DEF PoolInvariant, PoolTypeOK, InFlightAccounted, Distinct, Contents, Sent
  <2>2. results' \in Seq(Tasks) /\ Distinct(results') /\ Contents(results') = Sent \cup {t}
    BY <1>1, <1>3, <2>1, AppendContents
  <2> QED BY Zenon, <2>2 DEF Contents, Sent
<1>6. Held' = Held \ {t}
  <2>1. \A v \in Workers \ {w} : t \notin building[v]
    BY <1>3 DEF PoolInvariant, InFlightAccounted
  <2> QED BY <1>3, <1>4, <2>1 DEF Held
<1>7. PoolTypeOK'
  BY <1>2, <1>4, <1>5 DEF PoolInvariant, PoolTypeOK, WorkerCount
<1>8. InFlightAccounted'
  <2>1. Queued' = Queued
    BY <1>2 DEF Queued
  <2>2. inFlight' = Queued' \cup Sent' \cup Held'
    BY <1>2, <1>3, <1>5, <1>6, <2>1 DEF PoolInvariant, InFlightAccounted
  <2>3. Queued' \cap Sent' = {} /\ Queued' \cap Held' = {} /\ Sent' \cap Held' = {}
    BY <1>3, <1>5, <1>6, <2>1 DEF PoolInvariant, InFlightAccounted
  <2>4. \A u, v \in Workers : u # v => building'[u] \cap building'[v] = {}
    BY <1>4 DEF PoolInvariant, InFlightAccounted
  <2> QED BY <1>2, <1>5, <2>2, <2>3, <2>4 DEF PoolInvariant, InFlightAccounted, Distinct
<1>9. HandsFull'
  BY <1>4 DEF PoolInvariant, HandsFull
<1>10. TasksPartitioned'
  BY <1>2 DEF PoolInvariant, TasksPartitioned
<1>11. Lifetimes'
  <2>1. Panicked' = Panicked
    BY <1>2, <1>4 DEF Panicked
  <2>2. \A v \in joined' : Stopped(v)'
    BY <1>2, <1>4 DEF PoolInvariant, PoolTypeOK, Lifetimes, Stopped
  <2> QED BY <1>2, <1>4, <2>1, <2>2 DEF PoolInvariant, Lifetimes
<1> QED BY <1>7, <1>8, <1>9, <1>10, <1>11 DEF PoolInvariant

\* Panic: the task stays where it is.
LEMMA PanicPreserves ==
  ASSUME PoolInvariant, NEW w \in Workers, Panic(w) PROVE PoolInvariant'
<1> USE DEF agenda, channels
<1>1. /\ UNCHANGED <<agenda, inFlight, harvested, coordinator, channels, lock, building, joined>>
      /\ worker[w] = "building" /\ worker' = [worker EXCEPT ![w] = "panicked"]
  BY DEF Panic
<1>2. /\ worker' \in [Workers -> {"idle", "receiving", "building", "exited", "panicked"}]
      /\ worker'[w] = "panicked" /\ \A v \in Workers \ {w} : worker'[v] = worker[v]
  BY <1>1 DEF PoolInvariant, PoolTypeOK
<1>3. PoolTypeOK'
  BY <1>1, <1>2 DEF PoolInvariant, PoolTypeOK, WorkerCount
<1>4. InFlightAccounted'
  BY <1>1, PlacesUnchanged DEF PoolInvariant
<1>5. HandsFull'
  BY <1>1, <1>2 DEF PoolInvariant, HandsFull
<1>6. TasksPartitioned'
  BY <1>1 DEF PoolInvariant, TasksPartitioned
<1>7. Lifetimes'
  <2>1. Panicked' = Panicked \cup {w}
    BY <1>2 DEF Panicked
  <2>2. \A v \in joined' : Stopped(v)'
    BY <1>1, <1>2 DEF PoolInvariant, PoolTypeOK, Lifetimes, Stopped
  <2> QED BY <1>1, <1>2, <2>1, <2>2 DEF PoolInvariant, Lifetimes
<1> QED BY <1>3, <1>4, <1>5, <1>6, <1>7 DEF PoolInvariant

\* Every step of the coordinator and of the workers keeps the invariant.
LEMMA PoolStep == PoolInvariant /\ [PoolNext]_poolVars => PoolInvariant'
<1> SUFFICES ASSUME PoolInvariant, [PoolNext]_poolVars PROVE PoolInvariant'
  OBVIOUS
<1>1. CASE Coordinate
  BY <1>1, DispatchPreserves, FilledPreserves, ReceivePreserves, ReceiveNonePreserves, DropPreserves DEF Coordinate
<1>2. CASE \E w \in Workers : Work(w) \/ Panic(w)
  BY <1>2, LockPreserves, TakePreserves, SendPreserves, PanicPreserves DEF Work
<1>3. CASE UNCHANGED poolVars
  <2> USE <1>3 DEF poolVars, agenda, channels, threads
  <2>1. PoolTypeOK'
    BY DEF PoolInvariant, PoolTypeOK, WorkerCount
  <2>2. InFlightAccounted'
    BY PlacesUnchanged DEF PoolInvariant
  <2>3. HandsFull' /\ TasksPartitioned'
    BY DEF PoolInvariant, HandsFull, TasksPartitioned
  <2>4. Lifetimes'
    BY DEF PoolInvariant, Lifetimes, Stopped, Panicked
  <2> QED BY <2>1, <2>2, <2>3, <2>4 DEF PoolInvariant
<1> QED BY <1>1, <1>2, <1>3 DEF PoolNext, Returned

(***************************************************************************)
(* The theorems.                                                           *)
(***************************************************************************)
\* The pool invariant holds in every state of the pools.
THEOREM PoolInvariance == PoolSpec => []PoolInvariant
<1>1. PoolInit => PoolInvariant
  BY PoolInitially
<1>2. PoolInvariant /\ [PoolNext]_poolVars => PoolInvariant'
  BY PoolStep
<1> QED BY <1>1, <1>2, PTL DEF PoolSpec

\* Of the streaming pools in reasoner.rs: a task in flight is in the work channel,
\* with one worker or among the results, and only there; nothing is built twice
\* and nothing the coordinator does not count is under way.
THEOREM NoTaskLostOrDoubled == PoolSpec => []InFlightAccounted
<1>1. PoolInvariant => InFlightAccounted
  BY DEF PoolInvariant
<1> QED BY <1>1, PoolInvariance, PTL

\* While the coordinator fills the pipeline a thread is alive: each thread that
\* panicked holds a task of its own, and fewer tasks are in flight than threads exist.
LEMMA WorkerAlive ==
  ASSUME PoolInvariant, coordinator = "fill", BudgetLeft PROVE \E w \in Workers : ~Stopped(w)
<1> SUFFICES ASSUME \A w \in Workers : Stopped(w) PROVE FALSE
  OBVIOUS
<1>1. \A w \in Workers : worker[w] = "panicked"
  BY DEF PoolInvariant, Lifetimes, Stopped
<1> DEFINE inHand == [w \in Workers |-> CHOOSE t \in Tasks : building[w] = {t}]
<1>2. \A w \in Workers : building[w] = {inHand[w]}
  BY <1>1 DEF PoolInvariant, HandsFull
<1>3. inHand \in [Workers -> inFlight]
  <2>1. \A w \in Workers : inHand[w] \in Held
    BY <1>2 DEF Held
  <2> QED BY <2>1 DEF PoolInvariant, InFlightAccounted
<1>4. \A v, w \in Workers : v # w => inHand[v] # inHand[w]
  BY <1>2 DEF PoolInvariant, InFlightAccounted
<1> HIDE DEF inHand
<1>5. Cardinality(inFlight) < Cardinality(Workers)
  <2>1. Cardinality(inFlight) \in Nat /\ Cardinality(Workers) \in Nat
    BY PoolAssumption, FS_CardinalityType DEF PoolInvariant, TasksPartitioned
  <2>2. budget \in 1..Cardinality(Workers) /\ Cardinality(inFlight) < budget
    BY DEF PoolInvariant, PoolTypeOK, WorkerCount, BudgetLeft
  <2> QED BY <2>1, <2>2
<1>6. IsFiniteSet(Workers) /\ IsFiniteSet(inFlight)
  BY PoolAssumption DEF PoolInvariant, TasksPartitioned
<1>7. \E v, w \in Workers : v # w /\ inHand[v] = inHand[w]
  BY <1>3, <1>5, <1>6, FS_PigeonHole
<1> QED BY <1>4, <1>7

\* The work channel holds fewer tasks than there are threads: they are distinct
\* tasks in flight.
LEMMA ChannelHasRoom ==
  ASSUME PoolInvariant, BudgetLeft PROVE Len(work) < WorkerCount
<1>1. /\ Cardinality(inFlight) \in Nat /\ WorkerCount \in Nat /\ IsFiniteSet(inFlight)
      /\ work \in Seq(Tasks) /\ Len(work) \in Nat /\ DOMAIN work = 1..Len(work)
  BY PoolAssumption, FS_CardinalityType DEF PoolInvariant, PoolTypeOK, TasksPartitioned, WorkerCount
<1>2. budget \in 1..WorkerCount /\ Cardinality(inFlight) < budget
  BY DEF PoolInvariant, PoolTypeOK, BudgetLeft
<1>3. Cardinality(inFlight) < WorkerCount
  BY <1>1, <1>2
<1> SUFFICES ASSUME ~(Len(work) < WorkerCount) PROVE FALSE
  OBVIOUS
<1>4. Cardinality(inFlight) < Len(work)
  BY <1>1, <1>3
<1>5. IsFiniteSet(1..Len(work)) /\ Cardinality(1..Len(work)) = Len(work)
  <2>1. \A n \in Nat : IsFiniteSet(1..n) /\ Cardinality(1..n) = IF 1 > n THEN 0 ELSE n - 1 + 1
    BY FS_Interval
  <2>2. \A n \in Nat : (IF 1 > n THEN 0 ELSE n - 1 + 1) = n
    OBVIOUS
  <2> QED BY <1>1, <2>1, <2>2
<1> DEFINE f == [i \in 1..Len(work) |-> work[i]]
<1>6. f \in [1..Len(work) -> inFlight]
  <2>1. \A i \in 1..Len(work) : work[i] \in Queued
    BY <1>1 DEF Queued
  <2> QED BY <2>1 DEF PoolInvariant, InFlightAccounted
<1>7. \E i, j \in 1..Len(work) : i # j /\ f[i] = f[j]
  BY <1>1, <1>4, <1>5, <1>6, FS_PigeonHole
<1> QED BY <1>1, <1>7 DEF PoolInvariant, InFlightAccounted

\* ConceptStreamingPool::dispatch never blocks on a full channel, whatever the memory
\* governor answered, and its send never fails for want of a worker.
THEOREM DispatchSucceeds == PoolSpec => []SendSucceeds
<1>1. PoolInvariant => SendSucceeds
  BY WorkerAlive, ChannelHasRoom DEF SendSucceeds
<1> QED BY <1>1, PoolInvariance, PTL

\* The drop of a pool leaves no thread behind that could use the borrowed ontology,
\* and without a panic every task was harvested.
THEOREM DropComplete == PoolSpec => []PoolDropped
<1>1. PoolInvariant => PoolDropped
  <2> SUFFICES ASSUME PoolInvariant, coordinator = "returned"
               PROVE  (\A w \in Workers : Stopped(w)) /\ (Panicked = {} => harvested = Tasks \ freed /\ inFlight = {})
    BY DEF PoolDropped
  <2>1. \A w \in Workers : Stopped(w)
    BY DEF PoolInvariant, Lifetimes
  <2>2. Panicked = {} => inFlight = {} /\ worklist = {}
    BY DEF PoolInvariant, Lifetimes
  <2>3. Panicked = {} => harvested = Tasks \ freed
    BY <2>2 DEF PoolInvariant, TasksPartitioned
  <2> QED BY <2>1, <2>2, <2>3
<1> QED BY <1>1, PoolInvariance, PTL
=============================================================================
