---------------------------- MODULE Interruption ----------------------------
(***************************************************************************)
(* Cancelling a reasoning task: the InterruptFlag that another thread sets *)
(* through an InterruptHandle or that a timeout trips                      *)
(* (tableau/interrupt_flag.rs), the interrupt the tableau latches at its   *)
(* polls (tableau/tableau.rs), and the places where run_calculus,          *)
(* do_iteration (reasoner.rs) and the clause evaluator                     *)
(* (tableau/dl_clause_evaluator.rs) poll and surface it.                   *)
(*                                                                         *)
(* What an iteration derives is left out, and so is whether the calculus   *)
(* ever ends by itself: an iteration may always report more work.          *)
(***************************************************************************)
EXTENDS Naturals

CONSTANT MaxTasks    \* bound on the tasks of a run

ASSUME MaxTasksAssumption == MaxTasks \in Nat

VARIABLES
    timeout,      \* a per-task timeout is configured
    interrupted,  \* the shared latch
    elapsed,      \* the timeout of this task has elapsed
    pending,      \* pending_interrupt: {} or {the error}
    polling,      \* poll_interrupt of the clause being evaluated
    pc,
    result,       \* {} or {what the last task returned}
    tasks,
    cause         \* history: what could have stopped this task, and by when

flag == <<interrupted, elapsed>>
task == <<timeout, polling, result, tasks>>
interruptVars == <<timeout, interrupted, elapsed, pending, polling, pc, result,
                   tasks, cause>>

InterruptError == {"Interrupted", "Timeout"}

Running == {"head", "poll", "work", "evaluate", "after", "final"}

CheckInterrupt ==
    IF interrupted THEN {"Interrupted"}
    ELSE IF timeout /\ elapsed THEN {"Timeout"} ELSE {}

InterruptInit ==
    /\ timeout \in BOOLEAN
    /\ interrupted = FALSE /\ elapsed = FALSE
    /\ pending = {} /\ polling = FALSE
    /\ pc = "idle" /\ result = {}
    /\ tasks = 0 /\ cause = {}

-----------------------------------------------------------------------------
(* The other thread, and the clock.                                        *)

Interrupt ==
    /\ interrupted' = TRUE
    /\ cause' = IF pc \in Running THEN cause \cup {"Interrupted"} ELSE cause
    /\ UNCHANGED <<elapsed, pending, pc, task>>

Elapse ==
    /\ timeout /\ pc \in Running /\ ~elapsed
    /\ elapsed' = TRUE
    /\ cause' = cause \cup {"Timeout"}
    /\ UNCHANGED <<interrupted, pending, pc, task>>

-----------------------------------------------------------------------------
(* The task.                                                               *)

\* start_task drops what the task before left, and an interrupt that came
\* between the two.
StartTask ==
    /\ pc = "idle" /\ tasks < MaxTasks
    /\ tasks' = tasks + 1
    /\ pending' = {}
    /\ interrupted' = FALSE /\ elapsed' = FALSE
    /\ result' = {} /\ cause' = {}
    /\ pc' = "head"
    /\ UNCHANGED <<timeout, polling>>

\* note_interrupt: the first error found is kept.
NoteInterrupt == pending' = IF pending = {} THEN CheckInterrupt ELSE pending

\* end_task, after the latched interrupt was taken.
TaskReturn ==
    /\ result' = IF pending = {} THEN {"Ok"} ELSE pending
    /\ pending' = {}
    /\ interrupted' = FALSE
    /\ pc' = "idle"
    /\ UNCHANGED <<timeout, elapsed, polling, tasks, cause>>

LoopHead ==
    /\ pc = "head"
    /\ \/ pending # {} /\ TaskReturn
       \/ /\ pending = {}
          /\ pc' = "poll"
          /\ UNCHANGED <<flag, pending, task, cause>>

\* Mutant: an iteration does not poll.
IterationPollSkipped ==
    /\ pc = "poll"
    /\ pc' = "work"
    /\ UNCHANGED <<flag, pending, task, cause>>

IterationPoll ==
    /\ pc = "poll"
    /\ NoteInterrupt
    /\ pc' = "work"
    /\ UNCHANGED <<flag, task, cause>>

\* The polls per skipped disjunction, annotated equality, existential and graph.
WorkPoll ==
    /\ pc = "work"
    /\ NoteInterrupt
    /\ UNCHANGED <<flag, pc, task, cause>>

\* A clause evaluation decides once, when it begins, whether it polls.
BeginEvaluate ==
    /\ pc = "work"
    /\ polling' = (timeout \/ interrupted)
    /\ pc' = "evaluate"
    /\ UNCHANGED <<flag, pending, timeout, result, tasks, cause>>

\* A step of the evaluation, which a latched interrupt cuts short.
Evaluate ==
    /\ pc = "evaluate" /\ polling
    /\ NoteInterrupt
    /\ pc' = IF pending' # {} THEN "work" ELSE "evaluate"
    /\ UNCHANGED <<flag, task, cause>>

EndEvaluate ==
    /\ pc = "evaluate"
    /\ pc' = "work"
    /\ UNCHANGED <<flag, pending, task, cause>>

EndIteration ==
    /\ pc = "work"
    /\ pc' \in {"head", "after"}
    /\ UNCHANGED <<flag, pending, task, cause>>

\* An interrupt latched in the last iteration surfaces; otherwise there is one
\* more poll, after the model's signatures are recorded.
AfterLoop ==
    /\ pc = "after"
    /\ \/ pending # {} /\ TaskReturn
       \/ /\ pending = {}
          /\ pc' = "final"
          /\ UNCHANGED <<flag, pending, task, cause>>

\* Mutant: no poll after the loop.
FinalPollSkipped ==
    /\ pc = "final"
    /\ pc' = "end"
    /\ UNCHANGED <<flag, pending, task, cause>>

FinalPoll ==
    /\ pc = "final"
    /\ NoteInterrupt
    /\ pc' = "end"
    /\ UNCHANGED <<flag, task, cause>>

EndTask == pc = "end" /\ TaskReturn

TaskStep ==
    \/ LoopHead \/ IterationPoll \/ WorkPoll \/ BeginEvaluate \/ Evaluate
    \/ EndEvaluate \/ EndIteration \/ AfterLoop \/ FinalPoll \/ EndTask

NoMoreTasks == pc = "idle" /\ tasks = MaxTasks /\ UNCHANGED interruptVars

InterruptNext == StartTask \/ TaskStep \/ Interrupt \/ Elapse \/ NoMoreTasks

\* The reasoning thread keeps running.  An iteration and a clause evaluation are
\* over the nodes there are, so each of them ends; the calculus need not.
InterruptSpec ==
    /\ InterruptInit /\ [][InterruptNext]_interruptVars
    /\ WF_interruptVars(LoopHead) /\ WF_interruptVars(IterationPoll)
    /\ SF_interruptVars(EndIteration) /\ WF_interruptVars(EndEvaluate)
    /\ WF_interruptVars(AfterLoop)
    /\ WF_interruptVars(FinalPoll) /\ WF_interruptVars(EndTask)

-----------------------------------------------------------------------------
(* Properties.                                                             *)

\* At most one error is latched and surfaced per task, and polls happen only while
\* a task runs.
InterruptTypeOK ==
    /\ timeout \in BOOLEAN /\ interrupted \in BOOLEAN /\ elapsed \in BOOLEAN
    /\ pending \in {{}} \cup {{e} : e \in InterruptError}
    /\ polling \in BOOLEAN
    /\ pc \in Running \cup {"idle", "end"}
    /\ result \in {{}} \cup {{r} : r \in InterruptError \cup {"Ok"}}
    /\ tasks \in 0 .. MaxTasks
    /\ cause \subseteq InterruptError

\* A task fails only for a cause that arose while it ran: an interrupt meant for
\* the task before, or one that came between two tasks, cannot stop it.  And one
\* that was interrupted, or ran out of time, before its last poll does not report
\* a result, whatever it was doing at that moment.
ErrorsExact == /\ result \subseteq cause \cup {"Ok"}
               /\ "Ok" \in result => cause = {}

\* An interrupted task ends, even if the calculus would never do so by itself.
InterruptStopsTask == pc \in Running /\ interrupted ~> pc = "idle"
=============================================================================
