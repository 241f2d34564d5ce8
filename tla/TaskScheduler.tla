--------------------------- MODULE TaskScheduler ---------------------------
(***************************************************************************)
(* The priority job scheduler of gnil-fs (scheduler.rs): a pool of worker  *)
(* threads behind one mutex and the condition variable `available`, and    *)
(* one JobControl per job, whose mutex and condition variable `changed`    *)
(* carry pause, resume, cancel and the answers to prompts.  A job's body   *)
(* is OperationExecutor::execute_job (job_execution.rs), seen through the  *)
(* calls it makes on its JobContext; undo jobs make none.                  *)
(*                                                                         *)
(* Atomicity: what runs under a mutex is one step, and so is a send; a     *)
(* lock taken, a condition checked and a wait entered are separate steps,  *)
(* because cancel() and Drop touch `cancelled` and notify without the      *)
(* mutex.  Progress and Message events only carry display data and are     *)
(* left out.  WaitingForConflict and WaitingForError are treated alike by  *)
(* every reader and are one state, "Waiting".                              *)
(***************************************************************************)
EXTENDS Integers, Sequences, FiniteSets

CONSTANTS
    Jobs,        \* the jobs that may be submitted
    UndoJobs,    \* those whose closure runs OperationExecutor::undo
    Workers,     \* the worker threads
    Priority,    \* Priority[j]: 0 Background, 1 Preview, 2 Foreground
    MaxPrompts,  \* bound: prompts one body may raise
    Buffered,    \* FALSE: whoever holds a JobHandle empties its channels at
                 \* once, so that nothing is ever seen waiting there
    MaxEvents,   \* bound: no pause or resume while this many events wait
    NoJob        \* no job

ASSUME ConstantsAssumption ==
    /\ UndoJobs \subseteq Jobs
    /\ Workers # {}
    /\ Priority \in [Jobs -> 0..2]
    /\ MaxPrompts \in Nat
    /\ Buffered \in BOOLEAN
    /\ MaxEvents \in Nat
    /\ NoJob \notin Jobs

VARIABLES
    task,        \* where the QueuedTask of each job is
    seq,         \* its `sequence`, 0 before submit
    nextSeq,     \* SchedulerInner::sequence
    shutdown,    \* QueueState::shutdown
    cancelled,   \* JobControl::cancelled
    paused,      \* ControlState::paused
    started,     \* ControlState::started
    decision,    \* ControlState::decision, with the prompt its sender had seen
    notifying,   \* jobs whose cancel() has stored the flag, not yet notified
    pc,          \* what each worker thread does next
    job,         \* the task it popped
    stage,       \* how far the body of that task is
    msg,         \* the State event it is about to send
    stop,        \* the body was told to stop
    prompts,     \* prompts raised so far by the body of each job
    result,      \* what the body returned
    yields,      \* whether that outcome carries an undo record
    events,      \* the channel JobHandle::events
    completion,  \* the channel JobHandle::completion
    drop         \* progress of Drop for TaskScheduler; in `missed`, the jobs
                 \* whose worker was on its way into a wait when Drop notified

queueVars   == <<task, seq, nextSeq, shutdown>>
controlVars == <<cancelled, paused, started, decision, notifying>>
workerVars  == <<pc, job, stage, msg, stop>>
bodyVars    == <<prompts, result, yields>>
channelVars == <<events, completion>>
schedulerVars == <<queueVars, controlVars, workerVars, bodyVars, channelVars, drop>>

-----------------------------------------------------------------------------
Results == {"Completed", "CompletedWithIssues", "Cancelled", "Failed"}
JobStates == Results \cup {"Queued", "Preparing", "Running", "Paused", "Waiting"}
Answers == {"Proceed", "Cancel"}

State(s) == [tag |-> s, prompt |-> 0]
Prompt(n) == [tag |-> "Prompt", prompt |-> n]
EventType == [tag : JobStates \cup {"Prompt"}, prompt : 0..MaxPrompts]

NoDecision == [answer |-> "None", prompt |-> 0]
DecisionType == {NoDecision} \cup [answer : Answers, prompt : 1..MaxPrompts]

queue == {j \in Jobs : task[j] = "queued"}

Submitted == {j \in Jobs : task[j] \in {"queued", "claimed"}}

\* A JobController exists once submit has returned.  A client that has seen the
\* completion (Buffered is FALSE: at once) leaves the job alone: bound.
Held == {j \in Submitted : completion[j] = "none" \/ Buffered}

\* No worker owns the mutex of j's ControlState: only one that has decided to
\* wait, and has not entered the wait, keeps it from one step to the next.
ControlFree(j) ==
    \A w \in Workers : job[w] = j => pc[w] \notin {"pauseHeld", "askHeld"}

\* Defect: the sequence is compared as the priority is, so the youngest wins.
Defect_Before(j, k) ==
    \/ Priority[j] > Priority[k]
    \/ Priority[j] = Priority[k] /\ seq[j] > seq[k]

\* j is before k in the BinaryHeap: by priority, then by age.
Before(j, k) ==
    \/ Priority[j] > Priority[k]
    \/ Priority[j] = Priority[k] /\ seq[j] < seq[k]

Send(j, e) ==
    events' = IF Buffered THEN [events EXCEPT ![j] = Append(@, e)] ELSE events
Goto(w, there) == pc' = [pc EXCEPT ![w] = there]

\* Defects: only one of the two waits on `changed` is woken.
Defect_WakeRequest(j) ==
    pc' = [w \in Workers |-> IF job[w] = j /\ pc[w] = "askWait" THEN "answer" ELSE pc[w]]

Defect_WakeCheckpoint(j) ==
    pc' = [w \in Workers |-> IF job[w] = j /\ pc[w] = "pauseWait" THEN "checkpoint"
                             ELSE pc[w]]

\* notify_all on `changed` of j: a worker that waits checks its condition again.
Wake(j) ==
    pc' = [w \in Workers |->
             CASE job[w] = j /\ pc[w] = "pauseWait" -> "checkpoint"
               [] job[w] = j /\ pc[w] = "askWait"   -> "answer"
               [] OTHER -> pc[w]]

\* What JobContext::state sends for st.
Shown(j, st) == IF paused[j] /\ st # "Waiting" THEN "Paused" ELSE st

-----------------------------------------------------------------------------
SchedulerInit ==
    /\ task = [j \in Jobs |-> "new"]
    /\ seq = [j \in Jobs |-> 0]
    /\ nextSeq = 1
    /\ shutdown = FALSE
    /\ cancelled = [j \in Jobs |-> FALSE]
    /\ paused = [j \in Jobs |-> FALSE]
    /\ started = [j \in Jobs |-> FALSE]
    /\ decision = [j \in Jobs |-> NoDecision]
    /\ notifying = {}
    /\ pc = [w \in Workers |-> "idle"]
    /\ job = [w \in Workers |-> NoJob]
    /\ stage = [w \in Workers |-> "launch"]
    /\ msg = [w \in Workers |-> "none"]
    /\ stop = [w \in Workers |-> FALSE]
    /\ prompts = [j \in Jobs |-> 0]
    /\ result = [j \in Jobs |-> "none"]
    /\ yields = [j \in Jobs |-> FALSE]
    /\ events = [j \in Jobs |-> << >>]
    /\ completion = [j \in Jobs |-> "none"]
    /\ drop = [pc |-> "no", todo |-> {}, at |-> NoJob, missed |-> {}]

-----------------------------------------------------------------------------
(* The owner of the scheduler and of the handles.                          *)

\* Defect: the counter is read and not advanced (load in place of fetch_add).
Defect_SubmitTicket(j) ==
    /\ task[j] = "new" /\ drop.pc = "no"
    /\ task' = [task EXCEPT ![j] = "submitting"]
    /\ seq' = [seq EXCEPT ![j] = nextSeq]
    /\ Send(j, State("Queued"))
    /\ UNCHANGED <<nextSeq, shutdown, controlVars, workerVars, bodyVars, completion, drop>>

\* submit: the ticket and the Queued event come before the queue's mutex, so
\* two threads may push in the other order.
SubmitTicket(j) ==
    /\ task[j] = "new" /\ drop.pc = "no"
    /\ task' = [task EXCEPT ![j] = "submitting"]
    /\ seq' = [seq EXCEPT ![j] = nextSeq]
    /\ nextSeq' = nextSeq + 1
    /\ Send(j, State("Queued"))
    /\ UNCHANGED <<shutdown, controlVars, workerVars, bodyVars, completion, drop>>

\* Defect: submit does not notify `available`.
Defect_SubmitPush(j) ==
    /\ task[j] = "submitting"
    /\ task' = [task EXCEPT ![j] = "queued"]
    /\ UNCHANGED <<seq, nextSeq, shutdown, controlVars, workerVars, bodyVars,
                   channelVars, drop>>

\* notify_one wakes one sleeping worker, if there is one.
SubmitPush(j) ==
    /\ task[j] = "submitting"
    /\ task' = [task EXCEPT ![j] = "queued"]
    /\ \/ /\ \A w \in Workers : pc[w] # "asleep"
          /\ UNCHANGED pc
       \/ \E w \in Workers : pc[w] = "asleep" /\ Goto(w, "idle")
    /\ UNCHANGED <<seq, nextSeq, shutdown, controlVars, job, stage, msg, stop,
                   bodyVars, channelVars, drop>>

Pause(j) ==
    /\ j \in Held /\ ControlFree(j) /\ ~cancelled[j]
    /\ Len(events[j]) < MaxEvents
    /\ paused' = [paused EXCEPT ![j] = TRUE]
    /\ Send(j, State("Paused"))
    /\ UNCHANGED <<queueVars, cancelled, started, decision, notifying, workerVars,
                   bodyVars, completion, drop>>

Resume(j) ==
    /\ j \in Held /\ ControlFree(j) /\ paused[j]
    /\ Len(events[j]) < MaxEvents
    /\ paused' = [paused EXCEPT ![j] = FALSE]
    /\ Wake(j)
    /\ Send(j, State(IF started[j] THEN "Running" ELSE "Queued"))
    /\ UNCHANGED <<queueVars, cancelled, started, decision, notifying, job, stage,
                   msg, stop, bodyVars, completion, drop>>

\* cancel stores the flag, and only then notifies; it never takes the mutex.
Cancel(j) ==
    /\ j \in Held \ notifying
    /\ cancelled' = [cancelled EXCEPT ![j] = TRUE]
    /\ notifying' = notifying \cup {j}
    /\ UNCHANGED <<queueVars, paused, started, decision, workerVars, bodyVars,
                   channelVars, drop>>

CancelNotify(j) ==
    /\ j \in notifying
    /\ notifying' = notifying \ {j}
    /\ Wake(j)
    /\ UNCHANGED <<queueVars, cancelled, paused, started, decision, job, stage, msg,
                   stop, bodyVars, channelVars, drop>>

\* The sender answers prompt n of j, whichever prompt is waiting now.
Respond(j, a, n) ==
    /\ j \in Held /\ ControlFree(j) /\ n \in 1..prompts[j]
    /\ decision' = [decision EXCEPT ![j] = [answer |-> a, prompt |-> n]]
    /\ Wake(j)
    /\ UNCHANGED <<queueVars, cancelled, paused, started, notifying, job, stage, msg,
                   stop, bodyVars, channelVars, drop>>

-----------------------------------------------------------------------------
(* Drop for TaskScheduler.  No submit runs: dropping needs the owner.      *)

DropBegin ==
    /\ drop.pc = "no" /\ \A j \in Jobs : task[j] # "submitting"
    /\ drop' = [drop EXCEPT !.pc = "sweep", !.todo = Submitted]
    /\ UNCHANGED <<queueVars, controlVars, workerVars, bodyVars, channelVars>>

\* j, if a worker has checked j's condition and has not yet entered the wait.
Entering(j) ==
    {k \in {j} : \E w \in Workers : job[w] = k /\ pc[w] \in {"pauseHeld", "askHeld"}}

DropCancel(j) ==
    /\ drop.pc = "sweep" /\ drop.at = NoJob /\ j \in drop.todo
    /\ cancelled' = [cancelled EXCEPT ![j] = TRUE]
    /\ drop' = [drop EXCEPT !.todo = @ \ {j}, !.at = j]
    /\ UNCHANGED <<queueVars, paused, started, decision, notifying, workerVars,
                   bodyVars, channelVars>>

\* Defect: Drop stores the flag of a job and does not notify `changed`.
Defect_DropNotify(j) ==
    /\ drop.pc = "sweep" /\ drop.at = j
    /\ drop' = [drop EXCEPT !.at = NoJob, !.missed = @ \cup Entering(j)]
    /\ UNCHANGED <<queueVars, controlVars, workerVars, bodyVars, channelVars>>

DropNotify(j) ==
    /\ drop.pc = "sweep" /\ drop.at = j
    /\ drop' = [drop EXCEPT !.at = NoJob, !.missed = @ \cup Entering(j)]
    /\ Wake(j)
    /\ UNCHANGED <<queueVars, controlVars, job, stage, msg, stop, bodyVars, channelVars>>

DropFlag ==
    /\ drop.pc = "sweep" /\ drop.at = NoJob /\ drop.todo = {}
    /\ shutdown' = TRUE
    /\ cancelled' = [j \in Jobs |-> cancelled[j] \/ j \in queue]
    /\ drop' = [drop EXCEPT !.pc = "flagged"]
    /\ UNCHANGED <<task, seq, nextSeq, paused, started, decision, notifying,
                   workerVars, bodyVars, channelVars>>

DropWake ==
    /\ drop.pc = "flagged"
    /\ drop' = [drop EXCEPT !.pc = "join"]
    /\ pc' = [w \in Workers |-> IF pc[w] = "asleep" THEN "idle" ELSE pc[w]]
    /\ UNCHANGED <<queueVars, controlVars, job, stage, msg, stop, bodyVars, channelVars>>

\* Defect: Drop does not join its threads.
Defect_DropJoin ==
    /\ drop.pc = "join"
    /\ drop' = [drop EXCEPT !.pc = "dropped"]
    /\ UNCHANGED <<queueVars, controlVars, workerVars, bodyVars, channelVars>>

DropJoin ==
    /\ drop.pc = "join" /\ \A w \in Workers : pc[w] = "exited"
    /\ drop' = [drop EXCEPT !.pc = "dropped"]
    /\ UNCHANGED <<queueVars, controlVars, workerVars, bodyVars, channelVars>>

-----------------------------------------------------------------------------
(* worker_loop: the queue.                                                 *)

Sleep(w) ==
    /\ pc[w] = "idle" /\ queue = {} /\ ~shutdown
    /\ Goto(w, "asleep")
    /\ UNCHANGED <<queueVars, controlVars, job, stage, msg, stop, bodyVars,
                   channelVars, drop>>

\* Tasks that are still queued are dropped with the queue, unanswered.
Exit(w) ==
    /\ pc[w] = "idle" /\ shutdown
    /\ Goto(w, "exited")
    /\ UNCHANGED <<queueVars, controlVars, job, stage, msg, stop, bodyVars,
                   channelVars, drop>>

\* Defect: the task is peeked at and stays in the queue.
Defect_Pop(w) ==
    /\ pc[w] = "idle" /\ ~shutdown
    /\ \E j \in queue :
          /\ \A k \in queue \ {j} : Before(j, k)
          /\ job' = [job EXCEPT ![w] = j]
    /\ Goto(w, "popped")
    /\ UNCHANGED <<queueVars, controlVars, stage, msg, stop, bodyVars, channelVars, drop>>

\* Defect: the queue is emptied before `shutdown` is looked at.
Defect_PopFirst(w) ==
    /\ pc[w] = "idle"
    /\ \E j \in queue :
          /\ \A k \in queue \ {j} : Before(j, k)
          /\ task' = [task EXCEPT ![j] = "claimed"]
          /\ job' = [job EXCEPT ![w] = j]
    /\ Goto(w, "popped")
    /\ UNCHANGED <<seq, nextSeq, shutdown, controlVars, stage, msg, stop, bodyVars,
                   channelVars, drop>>

Pop(w) ==
    /\ pc[w] = "idle" /\ ~shutdown
    /\ \E j \in queue :
          /\ \A k \in queue \ {j} : Before(j, k)
          /\ task' = [task EXCEPT ![j] = "claimed"]
          /\ job' = [job EXCEPT ![w] = j]
    /\ Goto(w, "popped")
    /\ UNCHANGED <<seq, nextSeq, shutdown, controlVars, stage, msg, stop, bodyVars,
                   channelVars, drop>>

SkipCancelled(w) ==
    /\ pc[w] = "popped" /\ cancelled[job[w]]
    /\ Send(job[w], State("Cancelled"))
    /\ result' = [result EXCEPT ![job[w]] = "Cancelled"]
    /\ Goto(w, "complete")
    /\ UNCHANGED <<queueVars, controlVars, job, stage, msg, stop, prompts, yields,
                   completion, drop>>

\* Defect: a popped task is accepted although it was cancelled.
Defect_Accept(w) ==
    /\ pc[w] = "popped"
    /\ Goto(w, "accepted")
    /\ UNCHANGED <<queueVars, controlVars, job, stage, msg, stop, bodyVars,
                   channelVars, drop>>

\* The flag is read once; what is stored there from now on stops only the body.
Accept(w) ==
    /\ pc[w] = "popped" /\ ~cancelled[job[w]]
    /\ Goto(w, "accepted")
    /\ UNCHANGED <<queueVars, controlVars, job, stage, msg, stop, bodyVars,
                   channelVars, drop>>

\* `paused` is read under the mutex, the event that tells it is sent later.
Start(w) ==
    /\ pc[w] = "accepted"
    /\ started' = [started EXCEPT ![job[w]] = TRUE]
    /\ msg' = [msg EXCEPT ![w] = Shown(job[w], "Running")]
    /\ Goto(w, "send")
    /\ UNCHANGED <<queueVars, cancelled, paused, decision, notifying, job, stage, stop,
                   bodyVars, channelVars, drop>>

SendState(w) ==
    /\ pc[w] = "send"
    /\ Send(job[w], State(msg[w]))
    /\ Goto(w, IF msg[w] = "Waiting" THEN "prompt" ELSE "body")
    /\ msg' = [msg EXCEPT ![w] = "none"]
    /\ UNCHANGED <<queueVars, controlVars, job, stage, stop, bodyVars,
                   completion, drop>>

Terminate(w) ==
    /\ pc[w] = "terminal"
    /\ Send(job[w], State(result[job[w]]))
    /\ Goto(w, "complete")
    /\ UNCHANGED <<queueVars, controlVars, job, stage, msg, stop, bodyVars,
                   completion, drop>>

\* The completion follows the terminal event as a send of its own.
Complete(w) ==
    /\ pc[w] = "complete"
    /\ completion' = [completion EXCEPT ![job[w]] = "sent"]
    /\ job' = [job EXCEPT ![w] = NoJob]
    /\ stage' = [stage EXCEPT ![w] = "launch"]
    /\ stop' = [stop EXCEPT ![w] = FALSE]
    /\ Goto(w, "idle")
    /\ UNCHANGED <<queueVars, controlVars, msg, bodyVars, events, drop>>

-----------------------------------------------------------------------------
(* The body of a task, and its JobContext.                                 *)

Operating(w) == pc[w] = "body" /\ job[w] \notin UndoJobs /\ ~stop[w]

\* job.state(Preparing), then job.state(Running) once the sources are scanned.
Report(w) ==
    /\ Operating(w) /\ stage[w] \in {"launch", "prepare"}
    /\ \E st \in {"Preparing", "Running"} :
          /\ st = (IF stage[w] = "launch" THEN "Preparing" ELSE "Running")
          /\ msg' = [msg EXCEPT ![w] = Shown(job[w], st)]
    /\ stage' = [stage EXCEPT ![w] = IF @ = "launch" THEN "prepare" ELSE "work"]
    /\ Goto(w, "send")
    /\ UNCHANGED <<queueVars, controlVars, job, stop, bodyVars, channelVars, drop>>

CallCheckpoint(w) ==
    /\ Operating(w) /\ stage[w] # "launch"
    /\ Goto(w, "checkpoint")
    /\ UNCHANGED <<queueVars, controlVars, job, stage, msg, stop, bodyVars,
                   channelVars, drop>>

\* checkpoint(): with the mutex held, either wait or tell the body what to do.
Checkpoint(w) ==
    /\ pc[w] = "checkpoint"
    /\ \/ /\ paused[job[w]] /\ ~cancelled[job[w]]
          /\ Goto(w, "pauseHeld")
          /\ UNCHANGED stop
       \/ /\ ~paused[job[w]] \/ cancelled[job[w]]
          /\ Goto(w, "body")
          /\ stop' = [stop EXCEPT ![w] = cancelled[job[w]]]
    /\ UNCHANGED <<queueVars, controlVars, job, stage, msg, bodyVars, channelVars, drop>>

\* request(): the Waiting state, the Prompt, then the wait for a decision.
CallRequest(w) ==
    /\ Operating(w) /\ stage[w] = "work" /\ prompts[job[w]] < MaxPrompts
    /\ msg' = [msg EXCEPT ![w] = "Waiting"]
    /\ Goto(w, "send")
    /\ UNCHANGED <<queueVars, controlVars, job, stage, stop, bodyVars, channelVars, drop>>

SendPrompt(w) ==
    /\ pc[w] = "prompt"
    /\ prompts' = [prompts EXCEPT ![job[w]] = @ + 1]
    /\ Send(job[w], Prompt(prompts'[job[w]]))
    /\ Goto(w, "answer")
    /\ UNCHANGED <<queueVars, controlVars, job, stage, msg, stop, result, yields,
                   completion, drop>>

AnswerCancelled(w) ==
    /\ pc[w] = "answer" /\ cancelled[job[w]]
    /\ stop' = [stop EXCEPT ![w] = TRUE]
    /\ Goto(w, "body")
    /\ UNCHANGED <<queueVars, controlVars, job, stage, msg, bodyVars, channelVars, drop>>

\* Any decision that is stored is the answer.
TakeDecision(w) ==
    /\ pc[w] = "answer" /\ ~cancelled[job[w]] /\ decision[job[w]] # NoDecision
    /\ stop' = [stop EXCEPT ![w] = decision[job[w]].answer = "Cancel"]
    /\ decision' = [decision EXCEPT ![job[w]] = NoDecision]
    /\ Goto(w, "resumed")
    /\ UNCHANGED <<queueVars, cancelled, paused, started, notifying, job, stage, msg,
                   bodyVars, channelVars, drop>>

AwaitDecision(w) ==
    /\ pc[w] = "answer" /\ ~cancelled[job[w]] /\ decision[job[w]] = NoDecision
    /\ Goto(w, "askHeld")
    /\ UNCHANGED <<queueVars, controlVars, job, stage, msg, stop, bodyVars,
                   channelVars, drop>>

\* Back from the prompt, request() reports that the job runs again.
Resumed(w) ==
    /\ pc[w] = "resumed"
    /\ msg' = [msg EXCEPT ![w] = Shown(job[w], "Running")]
    /\ Goto(w, "send")
    /\ UNCHANGED <<queueVars, controlVars, job, stage, stop, bodyVars, channelVars, drop>>

\* Condvar::wait gives the mutex up and waits.
Wait(w) ==
    /\ \/ pc[w] = "pauseHeld" /\ Goto(w, "pauseWait")
       \/ pc[w] = "askHeld" /\ Goto(w, "askWait")
    /\ UNCHANGED <<queueVars, controlVars, job, stage, msg, stop, bodyVars,
                   channelVars, drop>>

\* A wait may also end by itself.
SpuriousWakeup(w) ==
    /\ \/ pc[w] = "pauseWait" /\ Goto(w, "checkpoint")
       \/ pc[w] = "askWait" /\ Goto(w, "answer")
       \/ pc[w] = "asleep" /\ Goto(w, "idle")
    /\ UNCHANGED <<queueVars, controlVars, job, stage, msg, stop, bodyVars,
                   channelVars, drop>>

\* What the body can return.  A stopped body returns Cancelled, except that an
\* extraction ignores checkpoint() and may still end as it would have.  The
\* cancelled flag is also read without a checkpoint.
Outcomes(w) ==
    IF job[w] \in UndoJobs THEN {"Completed", "Failed"}
    ELSE CASE stage[w] = "launch"  -> {}
           [] stage[w] = "prepare" -> IF stop[w] THEN {"Cancelled"} ELSE {"Failed"}
           [] stage[w] = "work"    -> IF stop[w] \/ cancelled[job[w]] THEN Results
                                      ELSE Results \ {"Cancelled"}

\* Defect: the closure of an undo job passes on an undo record of its own.
Defect_Return(w) ==
    /\ pc[w] = "body"
    /\ \E r \in Outcomes(w) : result' = [result EXCEPT ![job[w]] = r]
    /\ \E u \in BOOLEAN :
          /\ u => stage[w] = "work" \/ job[w] \in UndoJobs
          /\ yields' = [yields EXCEPT ![job[w]] = u]
    /\ Goto(w, "terminal")
    /\ UNCHANGED <<queueVars, controlVars, job, stage, msg, stop, prompts, channelVars,
                   drop>>

Return(w) ==
    /\ pc[w] = "body"
    /\ \E r \in Outcomes(w) : result' = [result EXCEPT ![job[w]] = r]
    /\ \E u \in BOOLEAN :
          /\ u => stage[w] = "work"
          /\ yields' = [yields EXCEPT ![job[w]] = u]
    /\ Goto(w, "terminal")
    /\ UNCHANGED <<queueVars, controlVars, job, stage, msg, stop, prompts, channelVars,
                   drop>>

-----------------------------------------------------------------------------
Worker(w) ==
    \/ Sleep(w) \/ Exit(w) \/ Pop(w)
    \/ SkipCancelled(w) \/ Accept(w) \/ Start(w) \/ SendState(w) \/ Terminate(w)
    \/ Complete(w)
    \/ Report(w) \/ CallCheckpoint(w) \/ Checkpoint(w)
    \/ CallRequest(w) \/ SendPrompt(w) \/ AnswerCancelled(w) \/ TakeDecision(w)
    \/ AwaitDecision(w) \/ Resumed(w) \/ Wait(w) \/ Return(w)

Dropping ==
    \/ DropBegin \/ DropFlag \/ DropWake \/ DropJoin
    \/ \E j \in Jobs : DropCancel(j) \/ DropNotify(j)

Client(j) ==
    \/ SubmitTicket(j) \/ SubmitPush(j)
    \/ Pause(j) \/ Resume(j) \/ Cancel(j) \/ CancelNotify(j)
    \/ \E a \in Answers, n \in 1..MaxPrompts : Respond(j, a, n)

SchedulerNext ==
    \/ \E w \in Workers : Worker(w) \/ SpuriousWakeup(w)
    \/ \E j \in Jobs : Client(j)
    \/ Dropping

SchedulerSpec == SchedulerInit /\ [][SchedulerNext]_schedulerVars

-----------------------------------------------------------------------------
(* Fairness.  Threads inside the scheduler run; clients owe nothing, except*)
(* to leave a call they have entered.  A body does finitely many           *)
(* checkpoints: it may not go round them for ever with a report or a       *)
(* return open to it.                                                      *)

SchedulerFairness ==
    /\ \A w \in Workers :
          /\ WF_schedulerVars(Worker(w))
          /\ SF_schedulerVars(Report(w))
          /\ SF_schedulerVars(Return(w))
    /\ \A j \in Jobs :
          /\ WF_schedulerVars(SubmitPush(j))
          /\ WF_schedulerVars(CancelNotify(j))
          /\ WF_schedulerVars(DropCancel(j) \/ DropNotify(j))
    /\ WF_schedulerVars(DropFlag \/ DropWake \/ DropJoin)

FairSchedulerSpec == SchedulerSpec /\ SchedulerFairness

-----------------------------------------------------------------------------
(* Properties.                                                             *)

PcType == {"idle", "asleep", "exited", "popped", "accepted", "send", "body",
           "checkpoint", "pauseHeld", "pauseWait", "prompt", "answer", "askHeld",
           "askWait", "resumed", "terminal", "complete"}

\* Every variable has its type (the state of scheduler.rs), and the tickets that
\* were drawn are below the counter they were drawn from.
SchedulerTypeOK ==
    /\ task \in [Jobs -> {"new", "submitting", "queued", "claimed"}]
    /\ nextSeq \in Nat
    /\ seq \in [Jobs -> Nat] /\ \A j \in Jobs : seq[j] < nextSeq
    /\ shutdown \in BOOLEAN
    /\ cancelled \in [Jobs -> BOOLEAN]
    /\ paused \in [Jobs -> BOOLEAN]
    /\ started \in [Jobs -> BOOLEAN]
    /\ decision \in [Jobs -> DecisionType]
    /\ notifying \subseteq Jobs
    /\ pc \in [Workers -> PcType]
    /\ job \in [Workers -> Jobs \cup {NoJob}]
    /\ stage \in [Workers -> {"launch", "prepare", "work"}]
    /\ msg \in [Workers -> JobStates \cup {"none"}]
    /\ stop \in [Workers -> BOOLEAN]
    /\ prompts \in [Jobs -> 0..MaxPrompts]
    /\ result \in [Jobs -> Results \cup {"none"}]
    /\ yields \in [Jobs -> BOOLEAN]
    /\ events \in [Jobs -> Seq(EventType)]
    /\ completion \in [Jobs -> {"none", "sent", "received"}]
    /\ drop \in [pc : {"no", "sweep", "flagged", "join", "dropped"},
                 todo : SUBSET Jobs, at : Jobs \cup {NoJob}, missed : SUBSET Jobs]

\* A worker sleeps on `changed` only for a reason that still holds: its job is
\* paused, or no decision has arrived.  Whatever resume() or respond() did while
\* checkpoint() or request() was on its way into the wait is never missed.
NoLostWakeup ==
    \A w \in Workers :
       /\ pc[w] = "pauseWait" => paused[job[w]]
       /\ pc[w] = "askWait" => decision[job[w]] = NoDecision

\* A task is never in two hands: a worker that holds one holds a popped one, and
\* no other worker holds it, so no body runs twice and no completion is sent
\* twice (worker_loop pops under the mutex of the queue).
SingleExecution ==
    \A w \in Workers : job[w] # NoJob =>
       /\ task[job[w]] = "claimed"
       /\ completion[job[w]] = "none"
       /\ \A v \in Workers : job[v] = job[w] => v = w

\* A job that is cancelled while it is queued never starts its body, whatever
\* the workers, a resume or the drop of the scheduler do in the meantime.
CancelledInQueueNeverStarts ==
    \A j \in Jobs : [](j \in queue /\ cancelled[j] => []~started[j])

\* When Drop has joined its threads every job was settled: a popped task has
\* sent its completion; a task left in the queue was cancelled and never ran.
DropSettlesEveryJob ==
    drop.pc = "dropped" => \A j \in Submitted :
       \/ completion[j] # "none"
       \/ task[j] = "queued" /\ cancelled[j] /\ ~started[j]

\* What the parties to a job can tell of it.
Phase ==
    [j \in Jobs |-> CASE completion[j] # "none" -> "done"
                      [] completion[j] = "none" /\ started[j] -> "running"
                      [] completion[j] = "none" /\ ~started[j] /\ task[j] = "claimed" -> "claimed"
                      [] completion[j] = "none" /\ ~started[j] /\ task[j] = "queued" -> "queued"
                      [] OTHER -> "new"]

Outcome == [j \in Jobs |-> IF completion[j] = "none" THEN "none" ELSE result[j]]

Lifecycle == INSTANCE JobLifecycle WITH
                phase <- Phase, outcome <- Outcome, closed <- shutdown

\* The scheduler keeps the promise of JobLifecycle: in particular, no task leaves
\* the queue once `shutdown` is set, however many are in it.
ImplementsLifecycle == Lifecycle!LifecycleSpec

HeldUp(w) == pc[w] \in {"pauseWait", "askWait"}

\* A queued task is popped in the end, unless every worker comes to wait inside a
\* paused or a prompting job, or the scheduler is dropped: no submit is lost
\* between the empty queue a worker saw and the sleep it entered.
QueueIsServed ==
    \A j \in Jobs : (j \in queue) ~> (j \notin queue \/ shutdown
                                      \/ \A w \in Workers : HeldUp(w))

\* An answered prompt is over: the decision of a job that waits in request() is
\* taken, or the job is cancelled.
AnswerIsTaken ==
    \A w \in Workers, j \in Jobs :
       (job[w] = j /\ pc[w] \in {"answer", "askHeld", "askWait"} /\ decision[j] # NoDecision)
          ~> (decision[j] = NoDecision \/ cancelled[j])

\* Drop returns, unless a worker sleeps on `changed` of a job and was on its way
\* into that wait when Drop notified it (the flag is stored and notified without
\* the mutex): a worker that already waited, in a paused or a prompting job or on
\* the empty queue, is woken, and nothing else can keep the join waiting.
DropReturns ==
    (drop.pc = "sweep") ~>
        (\/ drop.pc = "dropped"
         \/ drop.pc = "join" /\ \E w \in Workers : HeldUp(w) /\ job[w] \in drop.missed)

\* "cancellable priority scheduler" (README.md): a cancelled job ends.
CancelEndsJob ==
    \A j \in Jobs : (cancelled[j] /\ task[j] = "claimed") ~> (completion[j] # "none")

\* A decision answers the prompt that its sender saw.
DecisionAnswersItsPrompt ==
    [][\A j \in Jobs : decision[j] # NoDecision /\ decision'[j] = NoDecision
          => decision[j].prompt = prompts[j]]_schedulerVars
=============================================================================
