------------------------ MODULE TaskScheduler_proofs ------------------------
(***************************************************************************)
(* Theorems about TaskScheduler, for any jobs, any number of workers and   *)
(* any bounds.  One inductive invariant, IInv, carries them all: what each *)
(* program counter of a worker says about the job it holds, and how far    *)
(* Drop has come.  The last parts prove that the scheduler implements      *)
(* JobLifecycle, and that Drop settles every job.                          *)
(***************************************************************************)
EXTENDS TaskScheduler, TLAPS

\* A worker holds a task exactly in the part of worker_loop that handles one,
\* and it is the only one to hold it, popped and not completed.
Holding ==
    \A w \in Workers :
       /\ pc[w] \in {"idle", "asleep", "exited"} <=> job[w] = NoJob
       /\ job[w] # NoJob =>
             /\ task[job[w]] = "claimed"
             /\ completion[job[w]] = "none"
             /\ \A v \in Workers : job[v] = job[w] => v = w

\* What the worker has in its hands at each place of the body.
Progressing ==
    \A w \in Workers :
       /\ pc[w] = "send" => msg[w] \in JobStates
       /\ pc[w] = "send" /\ msg[w] = "Waiting" => prompts[job[w]] < MaxPrompts
       /\ pc[w] = "prompt" => prompts[job[w]] < MaxPrompts
       /\ pc[w] \in {"terminal", "complete"} => result[job[w]] \in Results

\* The reason to wait holds from the check to the end of the wait.
Waiting ==
    \A w \in Workers :
       /\ pc[w] \in {"pauseHeld", "pauseWait"} => paused[job[w]]
       /\ pc[w] \in {"askHeld", "askWait"} => decision[job[w]] = NoDecision

\* Before it is popped a task has neither started nor completed; a worker past
\* the check of `cancelled` has started it, or skipped it as Cancelled.
Starting ==
    /\ \A j \in Jobs : task[j] # "claimed" => ~started[j] /\ completion[j] = "none"
    /\ \A w \in Workers : job[w] # NoJob =>
          /\ pc[w] \in {"popped", "accepted"} => ~started[job[w]]
          /\ pc[w] \notin {"popped", "accepted", "complete"} => started[job[w]]
          /\ pc[w] = "complete" /\ ~started[job[w]] => result[job[w]] = "Cancelled"

\* Drop leaves no submitted job without its cancellation before it sets
\* `shutdown`, and there is no submit any more.
Closing ==
    /\ shutdown <=> drop.pc \in {"flagged", "join", "dropped"}
    /\ drop.pc # "no" => \A j \in Jobs : task[j] # "submitting"
    /\ drop.pc = "sweep" => \A j \in Submitted : cancelled[j] \/ j \in drop.todo
    /\ shutdown => \A j \in Submitted : cancelled[j]

IInv == SchedulerTypeOK /\ Holding /\ Progressing /\ Waiting /\ Starting /\ Closing

-----------------------------------------------------------------------------
(* A send keeps the type of the channels, whether they are buffered or not.*)
LEMMA SendType ==
  ASSUME NEW j \in Jobs, NEW e \in EventType, SchedulerTypeOK, Send(j, e)
  PROVE  events' \in [Jobs -> Seq(EventType)]
BY DEF SchedulerTypeOK, Send

(* A jump keeps the type of the program counters.                          *)
LEMMA GotoType ==
  ASSUME IInv, NEW w \in Workers, NEW there \in PcType, Goto(w, there)
  PROVE  pc' \in [Workers -> PcType]
BY DEF IInv, SchedulerTypeOK, Goto

(* A worker in the middle of a task holds a job.                           *)
LEMMA HoldsJob ==
  ASSUME IInv, NEW w \in Workers, pc[w] \notin {"idle", "asleep", "exited"}
  PROVE  job[w] \in Jobs /\ job[w] # NoJob
BY DEF IInv, SchedulerTypeOK, Holding

(* A body returns a JobResult.                                             *)
LEMMA OutcomesType ==
  ASSUME IInv, NEW w \in Workers
  PROVE  Outcomes(w) \subseteq Results
BY DEF IInv, SchedulerTypeOK, Outcomes, Results

(* Every action preserves the invariant: one step for each part it touches.*)

LEMMA SubmitTicketStep ==
  ASSUME IInv, NEW j \in Jobs, SubmitTicket(j)
  PROVE  IInv'
<1>1. SchedulerTypeOK'
  <2>1. State("Queued") \in EventType
    BY ConstantsAssumption DEF EventType, State, JobStates
  <2>2. events' \in [Jobs -> Seq(EventType)]
    BY <2>1, SendType DEF SubmitTicket, IInv
  <2>3. /\ task' \in [Jobs -> {"new", "submitting", "queued", "claimed"}]
        /\ seq' \in [Jobs -> Nat]
        /\ nextSeq' \in Nat
    BY DEF SubmitTicket, IInv, SchedulerTypeOK
  <2> QED
    BY <2>2, <2>3 DEF SubmitTicket, IInv, SchedulerTypeOK, bodyVars, controlVars, workerVars
<1>2. Holding'
  BY ConstantsAssumption DEF SubmitTicket, IInv, Holding, SchedulerTypeOK, Send,
       bodyVars, controlVars, workerVars
<1>3. Starting'
  BY ConstantsAssumption DEF SubmitTicket, IInv, Starting, SchedulerTypeOK, Holding,
       Send, bodyVars, controlVars, workerVars
<1>4. Closing'
  BY ConstantsAssumption DEF SubmitTicket, IInv, Closing, SchedulerTypeOK, Holding,
       Send, Submitted, bodyVars, controlVars, workerVars
<1>5. Progressing' /\ Waiting'
  BY DEF SubmitTicket, IInv, Progressing, Waiting, bodyVars, controlVars, workerVars
<1> QED BY <1>1, <1>2, <1>3, <1>4, <1>5 DEF IInv

LEMMA SubmitPushStep ==
  ASSUME IInv, NEW j \in Jobs, SubmitPush(j)
  PROVE  IInv'
<1>1. SchedulerTypeOK'
  <2>1. pc' \in [Workers -> PcType]
    <3>1. CASE UNCHANGED pc
      BY <3>1 DEF IInv, SchedulerTypeOK
    <3>2. CASE \E w \in Workers : Goto(w, "idle")
      BY <3>2, GotoType DEF PcType
    <3> QED BY <3>1, <3>2 DEF SubmitPush
  <2>2. task' \in [Jobs -> {"new", "submitting", "queued", "claimed"}]
    BY DEF SubmitPush, IInv, SchedulerTypeOK
  <2> QED
    BY <2>1, <2>2 DEF SubmitPush, IInv, SchedulerTypeOK, bodyVars, channelVars, controlVars
<1>2. Holding'
  BY ConstantsAssumption DEF SubmitPush, IInv, Holding, SchedulerTypeOK, Goto,
       bodyVars, channelVars, controlVars
<1>3. Progressing'
  BY ConstantsAssumption DEF SubmitPush, IInv, Progressing, SchedulerTypeOK, Holding,
       Goto, JobStates, Results, bodyVars, channelVars, controlVars
<1>4. Waiting'
  BY ConstantsAssumption DEF SubmitPush, IInv, Waiting, SchedulerTypeOK, Holding,
       Goto, NoDecision, bodyVars, channelVars, controlVars
<1>5. Starting'
  BY ConstantsAssumption DEF SubmitPush, IInv, Starting, SchedulerTypeOK, Holding,
       Goto, bodyVars, channelVars, controlVars
<1>6. Closing'
  BY ConstantsAssumption DEF SubmitPush, IInv, Closing, SchedulerTypeOK, Holding,
       Goto, Submitted, bodyVars, channelVars, controlVars
<1> QED BY <1>1, <1>2, <1>3, <1>4, <1>5, <1>6 DEF IInv

LEMMA PauseStep ==
  ASSUME IInv, NEW j \in Jobs, Pause(j)
  PROVE  IInv'
<1>1. SchedulerTypeOK'
  <2>1. j \in Jobs
    BY DEF Pause, IInv, SchedulerTypeOK, Holding
  <2>2. State("Paused") \in EventType
    BY <2>1, ConstantsAssumption DEF Pause, IInv, SchedulerTypeOK, Progressing,
       EventType, State, JobStates, Results
  <2>3. events' \in [Jobs -> Seq(EventType)]
    BY <2>1, <2>2, SendType DEF Pause, IInv
  <2> QED
    BY <2>1, <2>3, ConstantsAssumption DEF Pause, IInv, SchedulerTypeOK, Holding,
       ControlFree, Held, Submitted, bodyVars, queueVars, workerVars
<1>2. Waiting'
  BY ConstantsAssumption DEF Pause, IInv, Waiting, SchedulerTypeOK, Holding,
       ControlFree, Held, NoDecision, Send, Submitted, bodyVars, queueVars, workerVars
<1>3. Holding' /\ Progressing' /\ Starting' /\ Closing'
  BY DEF Pause, IInv, Holding, Progressing, Starting, Closing, Submitted, bodyVars,
       queueVars, workerVars
<1> QED BY <1>1, <1>2, <1>3 DEF IInv

LEMMA ResumeStep ==
  ASSUME IInv, NEW j \in Jobs, Resume(j)
  PROVE  IInv'
<1>1. SchedulerTypeOK'
  <2>1. j \in Jobs
    BY DEF Resume, IInv, SchedulerTypeOK, Holding
  <2>2. State(IF started[j] THEN "Running" ELSE "Queued") \in EventType
    BY <2>1, ConstantsAssumption DEF Resume, IInv, SchedulerTypeOK, Progressing,
       EventType, State, JobStates, Results
  <2>3. events' \in [Jobs -> Seq(EventType)]
    BY <2>1, <2>2, SendType DEF Resume, IInv
  <2> QED
    BY ZenonT(60), <2>1, <2>3, ConstantsAssumption DEF Resume, IInv, SchedulerTypeOK, Holding,
       ControlFree, Held, PcType, Submitted, Wake, bodyVars, queueVars
<1>2. Holding'
  BY ConstantsAssumption DEF Resume, IInv, Holding, SchedulerTypeOK, ControlFree,
       Held, Send, Submitted, Wake, bodyVars, queueVars
<1>3. Progressing'
  BY ConstantsAssumption DEF Resume, IInv, Progressing, SchedulerTypeOK, Holding,
       ControlFree, Held, JobStates, Results, Send, Submitted, Wake, bodyVars,
       queueVars
<1>4. Waiting'
  BY ConstantsAssumption DEF Resume, IInv, Waiting, SchedulerTypeOK, Holding,
       ControlFree, Held, NoDecision, Send, Submitted, Wake, bodyVars, queueVars
<1>5. Starting'
  BY ConstantsAssumption DEF Resume, IInv, Starting, SchedulerTypeOK, Holding,
       ControlFree, Held, Send, Submitted, Wake, bodyVars, queueVars
<1>6. Closing'
  BY ConstantsAssumption DEF Resume, IInv, Closing, SchedulerTypeOK, Holding,
       ControlFree, Held, Send, Submitted, Wake, bodyVars, queueVars
<1> QED BY <1>1, <1>2, <1>3, <1>4, <1>5, <1>6 DEF IInv

LEMMA CancelStep ==
  ASSUME IInv, NEW j \in Jobs, Cancel(j)
  PROVE  IInv'
<1>1. SchedulerTypeOK'
  BY ConstantsAssumption DEF Cancel, IInv, SchedulerTypeOK, Holding, Held, Submitted,
       bodyVars, channelVars, queueVars, workerVars
<1>2. Closing'
  BY ConstantsAssumption DEF Cancel, IInv, Closing, SchedulerTypeOK, Holding, Held,
       Submitted, bodyVars, channelVars, queueVars, workerVars
<1>3. Holding' /\ Progressing' /\ Waiting' /\ Starting'
  BY DEF Cancel, IInv, Holding, Progressing, Waiting, Starting, bodyVars, channelVars,
       queueVars, workerVars
<1> QED BY <1>1, <1>2, <1>3 DEF IInv

LEMMA CancelNotifyStep ==
  ASSUME IInv, NEW j \in Jobs, CancelNotify(j)
  PROVE  IInv'
<1>1. SchedulerTypeOK'
  BY ConstantsAssumption DEF CancelNotify, IInv, SchedulerTypeOK, Holding, PcType,
       Wake, bodyVars, channelVars, queueVars
<1>2. Holding'
  BY ConstantsAssumption DEF CancelNotify, IInv, Holding, SchedulerTypeOK, Wake,
       bodyVars, channelVars, queueVars
<1>3. Progressing'
  BY ConstantsAssumption DEF CancelNotify, IInv, Progressing, SchedulerTypeOK,
       Holding, JobStates, Results, Wake, bodyVars, channelVars, queueVars
<1>4. Waiting'
  BY ConstantsAssumption DEF CancelNotify, IInv, Waiting, SchedulerTypeOK, Holding,
       NoDecision, Wake, bodyVars, channelVars, queueVars
<1>5. Starting'
  BY ConstantsAssumption DEF CancelNotify, IInv, Starting, SchedulerTypeOK, Holding,
       Wake, bodyVars, channelVars, queueVars
<1>6. Closing'
  BY ConstantsAssumption DEF CancelNotify, IInv, Closing, SchedulerTypeOK, Holding,
       Submitted, Wake, bodyVars, channelVars, queueVars
<1> QED BY <1>1, <1>2, <1>3, <1>4, <1>5, <1>6 DEF IInv

LEMMA RespondStep ==
  ASSUME IInv, NEW j \in Jobs, NEW a \in Answers, NEW n \in 1..MaxPrompts, Respond(j, a, n)
  PROVE  IInv'
<1>1. SchedulerTypeOK'
  BY ConstantsAssumption DEF Respond, IInv, SchedulerTypeOK, Holding, Answers,
       ControlFree, DecisionType, Held, NoDecision, PcType, Submitted, Wake, bodyVars,
       channelVars, queueVars
<1>2. Holding'
  BY ConstantsAssumption DEF Respond, IInv, Holding, SchedulerTypeOK, ControlFree,
       Held, Submitted, Wake, bodyVars, channelVars, queueVars
<1>3. Progressing'
  BY ConstantsAssumption DEF Respond, IInv, Progressing, SchedulerTypeOK, Holding,
       ControlFree, Held, JobStates, Results, Submitted, Wake, bodyVars, channelVars,
       queueVars
<1>4. Waiting'
  BY ConstantsAssumption DEF Respond, IInv, Waiting, SchedulerTypeOK, Holding,
       ControlFree, Held, NoDecision, Submitted, Wake, bodyVars, channelVars,
       queueVars
<1>5. Starting'
  BY ConstantsAssumption DEF Respond, IInv, Starting, SchedulerTypeOK, Holding,
       ControlFree, Held, Submitted, Wake, bodyVars, channelVars, queueVars
<1>6. Closing'
  BY ConstantsAssumption DEF Respond, IInv, Closing, SchedulerTypeOK, Holding,
       ControlFree, Held, Submitted, Wake, bodyVars, channelVars, queueVars
<1> QED BY <1>1, <1>2, <1>3, <1>4, <1>5, <1>6 DEF IInv

LEMMA DropBeginStep ==
  ASSUME IInv, DropBegin
  PROVE  IInv'
<1>1. SchedulerTypeOK'
  BY ConstantsAssumption DEF DropBegin, IInv, SchedulerTypeOK, Holding, Submitted,
       bodyVars, channelVars, controlVars, queueVars, workerVars
<1>2. Closing'
  BY ConstantsAssumption DEF DropBegin, IInv, Closing, SchedulerTypeOK, Holding,
       Submitted, bodyVars, channelVars, controlVars, queueVars, workerVars
<1>3. Holding' /\ Progressing' /\ Waiting' /\ Starting'
  BY DEF DropBegin, IInv, Holding, Progressing, Waiting, Starting, bodyVars,
       channelVars, controlVars, queueVars, workerVars
<1> QED BY <1>1, <1>2, <1>3 DEF IInv

LEMMA DropCancelStep ==
  ASSUME IInv, NEW j \in Jobs, DropCancel(j)
  PROVE  IInv'
<1>1. SchedulerTypeOK'
  BY ConstantsAssumption DEF DropCancel, IInv, SchedulerTypeOK, Holding, bodyVars,
       channelVars, queueVars, workerVars
<1>2. Closing'
  BY ConstantsAssumption DEF DropCancel, IInv, Closing, SchedulerTypeOK, Holding,
       Submitted, bodyVars, channelVars, queueVars, workerVars
<1>3. Holding' /\ Progressing' /\ Waiting' /\ Starting'
  BY DEF DropCancel, IInv, Holding, Progressing, Waiting, Starting, bodyVars,
       channelVars, queueVars, workerVars
<1> QED BY <1>1, <1>2, <1>3 DEF IInv

LEMMA DropNotifyStep ==
  ASSUME IInv, NEW j \in Jobs, DropNotify(j)
  PROVE  IInv'
<1>1. SchedulerTypeOK'
  <2>1. pc' \in [Workers -> PcType]
    BY DEF DropNotify, IInv, SchedulerTypeOK, PcType, Wake
  <2>2. Entering(j) \subseteq Jobs
    BY DEF Entering
  <2>3. drop' \in [pc : {"no", "sweep", "flagged", "join", "dropped"},
                   todo : SUBSET Jobs, at : Jobs \cup {NoJob}, missed : SUBSET Jobs]
    BY <2>2 DEF DropNotify, IInv, SchedulerTypeOK
  <2> QED
    BY <2>1, <2>3 DEF DropNotify, IInv, SchedulerTypeOK, bodyVars, channelVars,
       controlVars, queueVars
<1>2. Holding'
  BY ConstantsAssumption DEF DropNotify, IInv, Holding, SchedulerTypeOK, Wake,
       bodyVars, channelVars, controlVars, queueVars
<1>3. Progressing'
  BY ConstantsAssumption DEF DropNotify, IInv, Progressing, SchedulerTypeOK, Holding,
       JobStates, Results, Wake, bodyVars, channelVars, controlVars, queueVars
<1>4. Waiting'
  BY ConstantsAssumption DEF DropNotify, IInv, Waiting, SchedulerTypeOK, Holding,
       NoDecision, Wake, bodyVars, channelVars, controlVars, queueVars
<1>5. Starting'
  BY ConstantsAssumption DEF DropNotify, IInv, Starting, SchedulerTypeOK, Holding,
       Wake, bodyVars, channelVars, controlVars, queueVars
<1>6. Closing'
  BY ConstantsAssumption DEF DropNotify, IInv, Closing, SchedulerTypeOK, Holding,
       Submitted, Wake, bodyVars, channelVars, controlVars, queueVars
<1> QED BY <1>1, <1>2, <1>3, <1>4, <1>5, <1>6 DEF IInv

LEMMA DropFlagStep ==
  ASSUME IInv, DropFlag
  PROVE  IInv'
<1>1. SchedulerTypeOK'
  BY ConstantsAssumption DEF DropFlag, IInv, SchedulerTypeOK, Holding, bodyVars,
       channelVars, queue, workerVars
<1>2. Closing'
  BY ConstantsAssumption DEF DropFlag, IInv, Closing, SchedulerTypeOK, Holding,
       Submitted, bodyVars, channelVars, queue, workerVars
<1>3. Holding' /\ Progressing' /\ Waiting' /\ Starting'
  BY DEF DropFlag, IInv, Holding, Progressing, Waiting, Starting, bodyVars,
       channelVars, workerVars
<1> QED BY <1>1, <1>2, <1>3 DEF IInv

LEMMA DropWakeStep ==
  ASSUME IInv, DropWake
  PROVE  IInv'
<1>1. SchedulerTypeOK'
  BY ZenonT(60), ConstantsAssumption DEF DropWake, IInv, SchedulerTypeOK, Holding, PcType,
       bodyVars, channelVars, controlVars, queueVars
<1>2. Holding'
  BY ConstantsAssumption DEF DropWake, IInv, Holding, SchedulerTypeOK, bodyVars,
       channelVars, controlVars, queueVars
<1>3. Progressing'
  BY ConstantsAssumption DEF DropWake, IInv, Progressing, SchedulerTypeOK, Holding,
       JobStates, Results, bodyVars, channelVars, controlVars, queueVars
<1>4. Waiting'
  BY ConstantsAssumption DEF DropWake, IInv, Waiting, SchedulerTypeOK, Holding,
       NoDecision, bodyVars, channelVars, controlVars, queueVars
<1>5. Starting'
  BY ConstantsAssumption DEF DropWake, IInv, Starting, SchedulerTypeOK, Holding,
       bodyVars, channelVars, controlVars, queueVars
<1>6. Closing'
  BY ConstantsAssumption DEF DropWake, IInv, Closing, SchedulerTypeOK, Holding,
       Submitted, bodyVars, channelVars, controlVars, queueVars
<1> QED BY <1>1, <1>2, <1>3, <1>4, <1>5, <1>6 DEF IInv

LEMMA DropJoinStep ==
  ASSUME IInv, DropJoin
  PROVE  IInv'
<1>1. SchedulerTypeOK'
  BY ConstantsAssumption DEF DropJoin, IInv, SchedulerTypeOK, Holding, bodyVars,
       channelVars, controlVars, queueVars, workerVars
<1>2. Closing'
  BY ConstantsAssumption DEF DropJoin, IInv, Closing, SchedulerTypeOK, Holding,
       Submitted, bodyVars, channelVars, controlVars, queueVars, workerVars
<1>3. Holding' /\ Progressing' /\ Waiting' /\ Starting'
  BY DEF DropJoin, IInv, Holding, Progressing, Waiting, Starting, bodyVars,
       channelVars, controlVars, queueVars, workerVars
<1> QED BY <1>1, <1>2, <1>3 DEF IInv

LEMMA SleepStep ==
  ASSUME IInv, NEW w \in Workers, Sleep(w)
  PROVE  IInv'
<1>1. SchedulerTypeOK'
  BY ConstantsAssumption DEF Sleep, IInv, SchedulerTypeOK, Holding, Goto, PcType,
       bodyVars, channelVars, controlVars, queue, queueVars
<1>2. Holding'
  BY ConstantsAssumption DEF Sleep, IInv, Holding, SchedulerTypeOK, Goto, bodyVars,
       channelVars, controlVars, queue, queueVars
<1>3. Progressing'
  BY ConstantsAssumption DEF Sleep, IInv, Progressing, SchedulerTypeOK, Holding, Goto,
       JobStates, Results, bodyVars, channelVars, controlVars, queue, queueVars
<1>4. Waiting'
  BY ConstantsAssumption DEF Sleep, IInv, Waiting, SchedulerTypeOK, Holding, Goto,
       NoDecision, bodyVars, channelVars, controlVars, queue, queueVars
<1>5. Starting'
  BY ConstantsAssumption DEF Sleep, IInv, Starting, SchedulerTypeOK, Holding, Goto,
       bodyVars, channelVars, controlVars, queue, queueVars
<1>6. Closing'
  BY ConstantsAssumption DEF Sleep, IInv, Closing, SchedulerTypeOK, Holding, Goto,
       Submitted, bodyVars, channelVars, controlVars, queue, queueVars
<1> QED BY <1>1, <1>2, <1>3, <1>4, <1>5, <1>6 DEF IInv

LEMMA ExitStep ==
  ASSUME IInv, NEW w \in Workers, Exit(w)
  PROVE  IInv'
<1>1. SchedulerTypeOK'
  BY ConstantsAssumption DEF Exit, IInv, SchedulerTypeOK, Holding, Goto, PcType,
       bodyVars, channelVars, controlVars, queueVars
<1>2. Holding'
  BY ConstantsAssumption DEF Exit, IInv, Holding, SchedulerTypeOK, Goto, bodyVars,
       channelVars, controlVars, queueVars
<1>3. Progressing'
  BY ConstantsAssumption DEF Exit, IInv, Progressing, SchedulerTypeOK, Holding, Goto,
       JobStates, Results, bodyVars, channelVars, controlVars, queueVars
<1>4. Waiting'
  BY ConstantsAssumption DEF Exit, IInv, Waiting, SchedulerTypeOK, Holding, Goto,
       NoDecision, bodyVars, channelVars, controlVars, queueVars
<1>5. Starting'
  BY ConstantsAssumption DEF Exit, IInv, Starting, SchedulerTypeOK, Holding, Goto,
       bodyVars, channelVars, controlVars, queueVars
<1>6. Closing'
  BY ConstantsAssumption DEF Exit, IInv, Closing, SchedulerTypeOK, Holding, Goto,
       Submitted, bodyVars, channelVars, controlVars, queueVars
<1> QED BY <1>1, <1>2, <1>3, <1>4, <1>5, <1>6 DEF IInv

LEMMA PopStep ==
  ASSUME IInv, NEW w \in Workers, Pop(w)
  PROVE  IInv'
<1>1. SchedulerTypeOK'
  BY ConstantsAssumption DEF Pop, IInv, SchedulerTypeOK, Holding, Before, Goto,
       PcType, bodyVars, channelVars, controlVars, queue
<1>2. Holding'
  <2>1. PICK j \in Jobs : /\ task[j] = "queued"
                          /\ task' = [task EXCEPT ![j] = "claimed"]
                          /\ job' = [job EXCEPT ![w] = j]
    BY DEF Pop, queue
  <2>2. /\ pc[w] = "idle" /\ pc' = [pc EXCEPT ![w] = "popped"]
        /\ completion' = completion
    BY DEF Pop, Goto, channelVars
  <2>3. \A v \in Workers : job[v] # j
    BY <2>1, ConstantsAssumption DEF IInv, Holding
  <2>4. completion[j] = "none"
    BY <2>1 DEF IInv, Starting
  <2> QED
    BY <2>1, <2>2, <2>3, <2>4, ConstantsAssumption DEF IInv, Holding, SchedulerTypeOK
<1>3. Progressing'
  BY ConstantsAssumption DEF Pop, IInv, Progressing, SchedulerTypeOK, Holding, Before,
       Goto, JobStates, Results, bodyVars, channelVars, controlVars, queue
<1>4. Waiting'
  BY ConstantsAssumption DEF Pop, IInv, Waiting, SchedulerTypeOK, Holding, Before,
       Goto, NoDecision, bodyVars, channelVars, controlVars, queue
<1>5. Starting'
  BY ConstantsAssumption DEF Pop, IInv, Starting, SchedulerTypeOK, Holding, Before,
       Goto, bodyVars, channelVars, controlVars, queue
<1>6. Closing'
  BY ConstantsAssumption DEF Pop, IInv, Closing, SchedulerTypeOK, Holding, Before,
       Goto, Submitted, bodyVars, channelVars, controlVars, queue
<1> QED BY <1>1, <1>2, <1>3, <1>4, <1>5, <1>6 DEF IInv

LEMMA SkipCancelledStep ==
  ASSUME IInv, NEW w \in Workers, SkipCancelled(w)
  PROVE  IInv'
<1>1. SchedulerTypeOK'
  <2>1. job[w] \in Jobs
    BY HoldsJob DEF SkipCancelled
  <2>2. State("Cancelled") \in EventType
    BY <2>1, ConstantsAssumption DEF SkipCancelled, IInv, SchedulerTypeOK,
       Progressing, EventType, State, JobStates, Results
  <2>3. events' \in [Jobs -> Seq(EventType)]
    BY <2>1, <2>2, SendType DEF SkipCancelled, IInv
  <2> QED
    BY <2>1, <2>3, ConstantsAssumption DEF SkipCancelled, IInv, SchedulerTypeOK,
       Holding, Goto, PcType, Results, controlVars, queueVars
<1>2. Holding'
  BY ConstantsAssumption DEF SkipCancelled, IInv, Holding, SchedulerTypeOK, Goto,
       Send, controlVars, queueVars
<1>3. Progressing'
  <2>1. /\ result' = [result EXCEPT ![job[w]] = "Cancelled"]
        /\ pc' = [pc EXCEPT ![w] = "complete"]
        /\ UNCHANGED <<job, msg, prompts>>
    BY DEF SkipCancelled, Goto
  <2>2. job[w] \in Jobs
    BY HoldsJob DEF SkipCancelled
  <2>3. \A v \in Workers : result[job[v]] \in Results /\ job[v] \in Jobs
                              => result'[job[v]] \in Results
    BY <2>1, <2>2 DEF IInv, SchedulerTypeOK, Results
  <2>4. result'[job[w]] \in Results
    BY <2>1, <2>2 DEF IInv, SchedulerTypeOK, Results
  <2>5. \A v \in Workers \ {w} : pc'[v] = pc[v]
    BY <2>1 DEF IInv, SchedulerTypeOK
  <2>6. pc'[w] = "complete"
    BY <2>1 DEF IInv, SchedulerTypeOK
  <2> QED
    BY <2>1, <2>3, <2>4, <2>5, <2>6, HoldsJob DEF IInv, Progressing
<1>4. Waiting'
  BY ConstantsAssumption DEF SkipCancelled, IInv, Waiting, SchedulerTypeOK, Holding,
       Goto, NoDecision, Send, controlVars, queueVars
<1>5. Starting'
  BY ConstantsAssumption DEF SkipCancelled, IInv, Starting, SchedulerTypeOK, Holding,
       Goto, Send, controlVars, queueVars
<1>6. Closing'
  BY ConstantsAssumption DEF SkipCancelled, IInv, Closing, SchedulerTypeOK, Holding,
       Goto, Send, Submitted, controlVars, queueVars
<1> QED BY <1>1, <1>2, <1>3, <1>4, <1>5, <1>6 DEF IInv

LEMMA AcceptStep ==
  ASSUME IInv, NEW w \in Workers, Accept(w)
  PROVE  IInv'
<1>1. SchedulerTypeOK'
  BY ConstantsAssumption DEF Accept, IInv, SchedulerTypeOK, Holding, Goto,
       PcType, bodyVars, channelVars, controlVars, queueVars
<1>2. Holding'
  BY ConstantsAssumption DEF Accept, IInv, Holding, SchedulerTypeOK, Goto,
       bodyVars, channelVars, controlVars, queueVars
<1>3. Progressing'
  BY ConstantsAssumption DEF Accept, IInv, Progressing, SchedulerTypeOK,
       Holding, Goto, JobStates, Results, bodyVars, channelVars,
       controlVars, queueVars
<1>4. Waiting'
  BY ConstantsAssumption DEF Accept, IInv, Waiting, SchedulerTypeOK, Holding,
       Goto, NoDecision, bodyVars, channelVars, controlVars, queueVars
<1>5. Starting'
  BY ConstantsAssumption DEF Accept, IInv, Starting, SchedulerTypeOK, Holding,
       Goto, bodyVars, channelVars, controlVars, queueVars
<1>6. Closing'
  BY ConstantsAssumption DEF Accept, IInv, Closing, SchedulerTypeOK, Holding,
       Goto, Submitted, bodyVars, channelVars, controlVars, queueVars
<1> QED BY <1>1, <1>2, <1>3, <1>4, <1>5, <1>6 DEF IInv

LEMMA StartStep ==
  ASSUME IInv, NEW w \in Workers, Start(w)
  PROVE  IInv'
<1>1. SchedulerTypeOK'
  BY ConstantsAssumption DEF Start, IInv, SchedulerTypeOK, Holding, Goto, JobStates,
       PcType, Results, Shown, bodyVars, channelVars, queueVars
<1>2. Holding'
  BY ConstantsAssumption DEF Start, IInv, Holding, SchedulerTypeOK, Goto, Shown,
       bodyVars, channelVars, queueVars
<1>3. Progressing'
  BY ConstantsAssumption DEF Start, IInv, Progressing, SchedulerTypeOK, Holding, Goto,
       JobStates, Results, Shown, bodyVars, channelVars, queueVars
<1>4. Waiting'
  BY ConstantsAssumption DEF Start, IInv, Waiting, SchedulerTypeOK, Holding, Goto,
       NoDecision, Shown, bodyVars, channelVars, queueVars
<1>5. Starting'
  BY ConstantsAssumption DEF Start, IInv, Starting, SchedulerTypeOK, Holding, Goto,
       Shown, bodyVars, channelVars, queueVars
<1>6. Closing'
  BY ConstantsAssumption DEF Start, IInv, Closing, SchedulerTypeOK, Holding, Goto,
       Shown, Submitted, bodyVars, channelVars, queueVars
<1> QED BY <1>1, <1>2, <1>3, <1>4, <1>5, <1>6 DEF IInv

LEMMA SendStateStep ==
  ASSUME IInv, NEW w \in Workers, SendState(w)
  PROVE  IInv'
<1>1. SchedulerTypeOK'
  <2>1. job[w] \in Jobs
    BY HoldsJob DEF SendState
  <2>2. State(msg[w]) \in EventType
    BY <2>1, ConstantsAssumption DEF SendState, IInv, SchedulerTypeOK, Progressing,
       EventType, State, JobStates, Results
  <2>3. events' \in [Jobs -> Seq(EventType)]
    BY <2>1, <2>2, SendType DEF SendState, IInv
  <2> QED
    BY <2>1, <2>3, ConstantsAssumption DEF SendState, IInv, SchedulerTypeOK, Holding,
       Goto, JobStates, PcType, Results, bodyVars, controlVars, queueVars
<1>2. Holding'
  BY ConstantsAssumption DEF SendState, IInv, Holding, SchedulerTypeOK, Goto, Send,
       bodyVars, controlVars, queueVars
<1>3. Progressing'
  BY ConstantsAssumption DEF SendState, IInv, Progressing, SchedulerTypeOK, Holding,
       Goto, JobStates, Results, Send, bodyVars, controlVars, queueVars
<1>4. Waiting'
  BY ConstantsAssumption DEF SendState, IInv, Waiting, SchedulerTypeOK, Holding, Goto,
       NoDecision, Send, bodyVars, controlVars, queueVars
<1>5. Starting'
  BY ConstantsAssumption DEF SendState, IInv, Starting, SchedulerTypeOK, Holding,
       Goto, Send, bodyVars, controlVars, queueVars
<1>6. Closing'
  BY ConstantsAssumption DEF SendState, IInv, Closing, SchedulerTypeOK, Holding, Goto,
       Send, Submitted, bodyVars, controlVars, queueVars
<1> QED BY <1>1, <1>2, <1>3, <1>4, <1>5, <1>6 DEF IInv

LEMMA TerminateStep ==
  ASSUME IInv, NEW w \in Workers, Terminate(w)
  PROVE  IInv'
<1>1. SchedulerTypeOK'
  <2>1. job[w] \in Jobs
    BY HoldsJob DEF Terminate
  <2>2. State(result[job[w]]) \in EventType
    BY <2>1, ConstantsAssumption DEF Terminate, IInv, SchedulerTypeOK, Progressing,
       EventType, State, JobStates, Results
  <2>3. events' \in [Jobs -> Seq(EventType)]
    BY <2>1, <2>2, SendType DEF Terminate, IInv
  <2> QED
    BY <2>1, <2>3, ConstantsAssumption DEF Terminate, IInv, SchedulerTypeOK, Holding,
       Goto, PcType, bodyVars, controlVars, queueVars
<1>2. Holding'
  BY ConstantsAssumption DEF Terminate, IInv, Holding, SchedulerTypeOK, Goto, Send,
       bodyVars, controlVars, queueVars
<1>3. Progressing'
  BY ConstantsAssumption DEF Terminate, IInv, Progressing, SchedulerTypeOK, Holding,
       Goto, JobStates, Results, Send, bodyVars, controlVars, queueVars
<1>4. Waiting'
  BY ConstantsAssumption DEF Terminate, IInv, Waiting, SchedulerTypeOK, Holding, Goto,
       NoDecision, Send, bodyVars, controlVars, queueVars
<1>5. Starting'
  BY ConstantsAssumption DEF Terminate, IInv, Starting, SchedulerTypeOK, Holding,
       Goto, Send, bodyVars, controlVars, queueVars
<1>6. Closing'
  BY ConstantsAssumption DEF Terminate, IInv, Closing, SchedulerTypeOK, Holding, Goto,
       Send, Submitted, bodyVars, controlVars, queueVars
<1> QED BY <1>1, <1>2, <1>3, <1>4, <1>5, <1>6 DEF IInv

LEMMA CompleteStep ==
  ASSUME IInv, NEW w \in Workers, Complete(w)
  PROVE  IInv'
<1>1. SchedulerTypeOK'
  BY ConstantsAssumption DEF Complete, IInv, SchedulerTypeOK, Holding, Goto, PcType,
       bodyVars, controlVars, queueVars
<1>2. Holding'
  BY ConstantsAssumption DEF Complete, IInv, Holding, SchedulerTypeOK, Goto, bodyVars,
       controlVars, queueVars
<1>3. Progressing'
  BY ConstantsAssumption DEF Complete, IInv, Progressing, SchedulerTypeOK, Holding,
       Goto, JobStates, Results, bodyVars, controlVars, queueVars
<1>4. Waiting'
  BY ConstantsAssumption DEF Complete, IInv, Waiting, SchedulerTypeOK, Holding, Goto,
       NoDecision, bodyVars, controlVars, queueVars
<1>5. Starting'
  BY ConstantsAssumption DEF Complete, IInv, Starting, SchedulerTypeOK, Holding, Goto,
       bodyVars, controlVars, queueVars
<1>6. Closing'
  BY ConstantsAssumption DEF Complete, IInv, Closing, SchedulerTypeOK, Holding, Goto,
       Submitted, bodyVars, controlVars, queueVars
<1> QED BY <1>1, <1>2, <1>3, <1>4, <1>5, <1>6 DEF IInv

LEMMA ReportStep ==
  ASSUME IInv, NEW w \in Workers, Report(w)
  PROVE  IInv'
<1>1. SchedulerTypeOK'
  BY ConstantsAssumption DEF Report, IInv, SchedulerTypeOK, Holding, Goto, JobStates,
       Operating, PcType, Results, Shown, bodyVars, channelVars, controlVars,
       queueVars
<1>2. Holding'
  BY ConstantsAssumption DEF Report, IInv, Holding, SchedulerTypeOK, Goto, Operating,
       Shown, bodyVars, channelVars, controlVars, queueVars
<1>3. Progressing'
  BY ConstantsAssumption DEF Report, IInv, Progressing, SchedulerTypeOK, Holding,
       Goto, JobStates, Operating, Results, Shown, bodyVars, channelVars, controlVars,
       queueVars
<1>4. Waiting'
  BY ConstantsAssumption DEF Report, IInv, Waiting, SchedulerTypeOK, Holding, Goto,
       NoDecision, Operating, Shown, bodyVars, channelVars, controlVars, queueVars
<1>5. Starting'
  BY ConstantsAssumption DEF Report, IInv, Starting, SchedulerTypeOK, Holding, Goto,
       Operating, Shown, bodyVars, channelVars, controlVars, queueVars
<1>6. Closing'
  BY ConstantsAssumption DEF Report, IInv, Closing, SchedulerTypeOK, Holding, Goto,
       Operating, Shown, Submitted, bodyVars, channelVars, controlVars, queueVars
<1> QED BY <1>1, <1>2, <1>3, <1>4, <1>5, <1>6 DEF IInv

LEMMA CallCheckpointStep ==
  ASSUME IInv, NEW w \in Workers, CallCheckpoint(w)
  PROVE  IInv'
<1>1. SchedulerTypeOK'
  BY ConstantsAssumption DEF CallCheckpoint, IInv, SchedulerTypeOK, Holding, Goto,
       Operating, PcType, bodyVars, channelVars, controlVars, queueVars
<1>2. Holding'
  BY ConstantsAssumption DEF CallCheckpoint, IInv, Holding, SchedulerTypeOK, Goto,
       Operating, bodyVars, channelVars, controlVars, queueVars
<1>3. Progressing'
  BY ConstantsAssumption DEF CallCheckpoint, IInv, Progressing, SchedulerTypeOK,
       Holding, Goto, JobStates, Operating, Results, bodyVars, channelVars,
       controlVars, queueVars
<1>4. Waiting'
  BY ConstantsAssumption DEF CallCheckpoint, IInv, Waiting, SchedulerTypeOK, Holding,
       Goto, NoDecision, Operating, bodyVars, channelVars, controlVars, queueVars
<1>5. Starting'
  BY ConstantsAssumption DEF CallCheckpoint, IInv, Starting, SchedulerTypeOK, Holding,
       Goto, Operating, bodyVars, channelVars, controlVars, queueVars
<1>6. Closing'
  BY ConstantsAssumption DEF CallCheckpoint, IInv, Closing, SchedulerTypeOK, Holding,
       Goto, Operating, Submitted, bodyVars, channelVars, controlVars, queueVars
<1> QED BY <1>1, <1>2, <1>3, <1>4, <1>5, <1>6 DEF IInv

LEMMA CheckpointStep ==
  ASSUME IInv, NEW w \in Workers, Checkpoint(w)
  PROVE  IInv'
<1>1. SchedulerTypeOK'
  <2>1. pc' \in [Workers -> PcType]
    <3>1. \A there \in {"pauseHeld", "body"} : there \in PcType
      BY DEF PcType
    <3> QED BY <3>1, GotoType DEF Checkpoint
  <2>2. stop' \in [Workers -> BOOLEAN]
    BY ZenonT(60), HoldsJob DEF Checkpoint, IInv, SchedulerTypeOK
  <2> QED
    BY <2>1, <2>2 DEF Checkpoint, IInv, SchedulerTypeOK, bodyVars, channelVars,
       controlVars, queueVars
<1>2. Holding'
  <2>1. pc[w] = "checkpoint" /\ pc'[w] \in {"pauseHeld", "body"}
    BY DEF Checkpoint, IInv, SchedulerTypeOK, Goto
  <2>2. \A v \in Workers \ {w} : pc'[v] = pc[v]
    BY DEF Checkpoint, IInv, SchedulerTypeOK, Goto
  <2>3. UNCHANGED <<job, task, completion>>
    BY DEF Checkpoint, channelVars, queueVars
  <2> QED
    BY <2>1, <2>2, <2>3 DEF IInv, Holding
<1>3. Progressing'
  BY ConstantsAssumption DEF Checkpoint, IInv, Progressing, SchedulerTypeOK, Holding,
       Goto, JobStates, Results, bodyVars, channelVars, controlVars, queueVars
<1>4. Waiting'
  BY ConstantsAssumption DEF Checkpoint, IInv, Waiting, SchedulerTypeOK, Holding,
       Goto, NoDecision, bodyVars, channelVars, controlVars, queueVars
<1>5. Starting'
  BY ConstantsAssumption DEF Checkpoint, IInv, Starting, SchedulerTypeOK, Holding,
       Goto, bodyVars, channelVars, controlVars, queueVars
<1>6. Closing'
  BY ConstantsAssumption DEF Checkpoint, IInv, Closing, SchedulerTypeOK, Holding,
       Goto, Submitted, bodyVars, channelVars, controlVars, queueVars
<1> QED BY <1>1, <1>2, <1>3, <1>4, <1>5, <1>6 DEF IInv

LEMMA CallRequestStep ==
  ASSUME IInv, NEW w \in Workers, CallRequest(w)
  PROVE  IInv'
<1>1. SchedulerTypeOK'
  BY ConstantsAssumption DEF CallRequest, IInv, SchedulerTypeOK, Holding, Goto,
       JobStates, Operating, PcType, Results, bodyVars, channelVars, controlVars,
       queueVars
<1>2. Holding'
  BY ConstantsAssumption DEF CallRequest, IInv, Holding, SchedulerTypeOK, Goto,
       Operating, bodyVars, channelVars, controlVars, queueVars
<1>3. Progressing'
  BY ConstantsAssumption DEF CallRequest, IInv, Progressing, SchedulerTypeOK, Holding,
       Goto, JobStates, Operating, Results, bodyVars, channelVars, controlVars,
       queueVars
<1>4. Waiting'
  BY ConstantsAssumption DEF CallRequest, IInv, Waiting, SchedulerTypeOK, Holding,
       Goto, NoDecision, Operating, bodyVars, channelVars, controlVars, queueVars
<1>5. Starting'
  BY ConstantsAssumption DEF CallRequest, IInv, Starting, SchedulerTypeOK, Holding,
       Goto, Operating, bodyVars, channelVars, controlVars, queueVars
<1>6. Closing'
  BY ConstantsAssumption DEF CallRequest, IInv, Closing, SchedulerTypeOK, Holding,
       Goto, Operating, Submitted, bodyVars, channelVars, controlVars, queueVars
<1> QED BY <1>1, <1>2, <1>3, <1>4, <1>5, <1>6 DEF IInv

LEMMA SendPromptStep ==
  ASSUME IInv, NEW w \in Workers, SendPrompt(w)
  PROVE  IInv'
<1>1. SchedulerTypeOK'
  <2>1. job[w] \in Jobs /\ prompts[job[w]] < MaxPrompts
    BY HoldsJob DEF SendPrompt, IInv, Progressing
  <2>2. /\ prompts' \in [Jobs -> 0..MaxPrompts]
        /\ prompts'[job[w]] \in 0..MaxPrompts
    BY <2>1, ConstantsAssumption DEF SendPrompt, IInv, SchedulerTypeOK
  <2>3. Prompt(prompts'[job[w]]) \in EventType
    BY <2>2 DEF Prompt, EventType
  <2>4. events' \in [Jobs -> Seq(EventType)]
    BY <2>1, <2>3, SendType DEF SendPrompt, IInv
  <2>5. pc' \in [Workers -> PcType]
    BY DEF SendPrompt, IInv, SchedulerTypeOK, Goto, PcType
  <2> QED
    BY <2>2, <2>4, <2>5 DEF SendPrompt, IInv, SchedulerTypeOK, controlVars, queueVars
<1>2. Holding'
  BY ConstantsAssumption DEF SendPrompt, IInv, Holding, SchedulerTypeOK, Goto, Send,
       controlVars, queueVars
<1>3. Progressing'
  <2>1. pc' = [pc EXCEPT ![w] = "answer"] /\ UNCHANGED <<job, msg, result>>
    BY DEF SendPrompt, Goto
  <2>2. \A v \in Workers \ {w} : job[v] \in Jobs => prompts'[job[v]] = prompts[job[v]]
    <3>1. job[w] # NoJob /\ prompts' = [prompts EXCEPT ![job[w]] = @ + 1]
      BY HoldsJob DEF SendPrompt
    <3>2. \A v \in Workers \ {w} : job[v] # job[w]
      BY <3>1 DEF IInv, Holding
    <3> QED BY <3>1, <3>2 DEF IInv, SchedulerTypeOK
  <2>3. pc'[w] = "answer" /\ \A v \in Workers \ {w} : pc'[v] = pc[v]
    BY <2>1 DEF IInv, SchedulerTypeOK
  <2> QED
    BY <2>1, <2>2, <2>3, HoldsJob DEF IInv, Progressing
<1>4. Waiting'
  BY ConstantsAssumption DEF SendPrompt, IInv, Waiting, SchedulerTypeOK, Holding,
       Goto, NoDecision, Send, controlVars, queueVars
<1>5. Starting'
  BY ConstantsAssumption DEF SendPrompt, IInv, Starting, SchedulerTypeOK, Holding,
       Goto, Send, controlVars, queueVars
<1>6. Closing'
  BY ConstantsAssumption DEF SendPrompt, IInv, Closing, SchedulerTypeOK, Holding,
       Goto, Send, Submitted, controlVars, queueVars
<1> QED BY <1>1, <1>2, <1>3, <1>4, <1>5, <1>6 DEF IInv

LEMMA AnswerCancelledStep ==
  ASSUME IInv, NEW w \in Workers, AnswerCancelled(w)
  PROVE  IInv'
<1>1. SchedulerTypeOK'
  BY ConstantsAssumption DEF AnswerCancelled, IInv, SchedulerTypeOK, Holding, Goto,
       PcType, bodyVars, channelVars, controlVars, queueVars
<1>2. Holding'
  BY ConstantsAssumption DEF AnswerCancelled, IInv, Holding, SchedulerTypeOK, Goto,
       bodyVars, channelVars, controlVars, queueVars
<1>3. Progressing'
  BY ConstantsAssumption DEF AnswerCancelled, IInv, Progressing, SchedulerTypeOK,
       Holding, Goto, JobStates, Results, bodyVars, channelVars, controlVars,
       queueVars
<1>4. Waiting'
  BY ConstantsAssumption DEF AnswerCancelled, IInv, Waiting, SchedulerTypeOK, Holding,
       Goto, NoDecision, bodyVars, channelVars, controlVars, queueVars
<1>5. Starting'
  BY ConstantsAssumption DEF AnswerCancelled, IInv, Starting, SchedulerTypeOK,
       Holding, Goto, bodyVars, channelVars, controlVars, queueVars
<1>6. Closing'
  BY ConstantsAssumption DEF AnswerCancelled, IInv, Closing, SchedulerTypeOK, Holding,
       Goto, Submitted, bodyVars, channelVars, controlVars, queueVars
<1> QED BY <1>1, <1>2, <1>3, <1>4, <1>5, <1>6 DEF IInv

LEMMA TakeDecisionStep ==
  ASSUME IInv, NEW w \in Workers, TakeDecision(w)
  PROVE  IInv'
<1>1. SchedulerTypeOK'
  BY ConstantsAssumption DEF TakeDecision, IInv, SchedulerTypeOK, Holding, Answers,
       DecisionType, Goto, NoDecision, PcType, bodyVars, channelVars, queueVars
<1>2. Holding'
  BY ConstantsAssumption DEF TakeDecision, IInv, Holding, SchedulerTypeOK, Goto,
       NoDecision, bodyVars, channelVars, queueVars
<1>3. Progressing'
  BY ConstantsAssumption DEF TakeDecision, IInv, Progressing, SchedulerTypeOK,
       Holding, Goto, JobStates, NoDecision, Results, bodyVars, channelVars, queueVars
<1>4. Waiting'
  BY ConstantsAssumption DEF TakeDecision, IInv, Waiting, SchedulerTypeOK, Holding,
       Goto, NoDecision, bodyVars, channelVars, queueVars
<1>5. Starting'
  BY ConstantsAssumption DEF TakeDecision, IInv, Starting, SchedulerTypeOK, Holding,
       Goto, NoDecision, bodyVars, channelVars, queueVars
<1>6. Closing'
  BY ConstantsAssumption DEF TakeDecision, IInv, Closing, SchedulerTypeOK, Holding,
       Goto, NoDecision, Submitted, bodyVars, channelVars, queueVars
<1> QED BY <1>1, <1>2, <1>3, <1>4, <1>5, <1>6 DEF IInv

LEMMA AwaitDecisionStep ==
  ASSUME IInv, NEW w \in Workers, AwaitDecision(w)
  PROVE  IInv'
<1>1. SchedulerTypeOK'
  BY ConstantsAssumption DEF AwaitDecision, IInv, SchedulerTypeOK, Holding, Goto,
       PcType, bodyVars, channelVars, controlVars, queueVars
<1>2. Holding'
  BY ConstantsAssumption DEF AwaitDecision, IInv, Holding, SchedulerTypeOK, Goto,
       NoDecision, bodyVars, channelVars, controlVars, queueVars
<1>3. Progressing'
  BY ConstantsAssumption DEF AwaitDecision, IInv, Progressing, SchedulerTypeOK,
       Holding, Goto, JobStates, NoDecision, Results, bodyVars, channelVars,
       controlVars, queueVars
<1>4. Waiting'
  BY ConstantsAssumption DEF AwaitDecision, IInv, Waiting, SchedulerTypeOK, Holding,
       Goto, NoDecision, bodyVars, channelVars, controlVars, queueVars
<1>5. Starting'
  BY ConstantsAssumption DEF AwaitDecision, IInv, Starting, SchedulerTypeOK, Holding,
       Goto, NoDecision, bodyVars, channelVars, controlVars, queueVars
<1>6. Closing'
  BY ConstantsAssumption DEF AwaitDecision, IInv, Closing, SchedulerTypeOK, Holding,
       Goto, NoDecision, Submitted, bodyVars, channelVars, controlVars, queueVars
<1> QED BY <1>1, <1>2, <1>3, <1>4, <1>5, <1>6 DEF IInv

LEMMA ResumedStep ==
  ASSUME IInv, NEW w \in Workers, Resumed(w)
  PROVE  IInv'
<1>1. SchedulerTypeOK'
  BY ConstantsAssumption DEF Resumed, IInv, SchedulerTypeOK, Holding, Goto, JobStates,
       PcType, Results, Shown, bodyVars, channelVars, controlVars, queueVars
<1>2. Holding'
  BY ConstantsAssumption DEF Resumed, IInv, Holding, SchedulerTypeOK, Goto, Shown,
       bodyVars, channelVars, controlVars, queueVars
<1>3. Progressing'
  BY ConstantsAssumption DEF Resumed, IInv, Progressing, SchedulerTypeOK, Holding,
       Goto, JobStates, Results, Shown, bodyVars, channelVars, controlVars, queueVars
<1>4. Waiting'
  BY ConstantsAssumption DEF Resumed, IInv, Waiting, SchedulerTypeOK, Holding, Goto,
       NoDecision, Shown, bodyVars, channelVars, controlVars, queueVars
<1>5. Starting'
  BY ConstantsAssumption DEF Resumed, IInv, Starting, SchedulerTypeOK, Holding, Goto,
       Shown, bodyVars, channelVars, controlVars, queueVars
<1>6. Closing'
  BY ConstantsAssumption DEF Resumed, IInv, Closing, SchedulerTypeOK, Holding, Goto,
       Shown, Submitted, bodyVars, channelVars, controlVars, queueVars
<1> QED BY <1>1, <1>2, <1>3, <1>4, <1>5, <1>6 DEF IInv

LEMMA WaitStep ==
  ASSUME IInv, NEW w \in Workers, Wait(w)
  PROVE  IInv'
<1>1. SchedulerTypeOK'
  <2>1. pc' \in [Workers -> PcType]
    <3>1. \A there \in {"pauseWait", "askWait"} : there \in PcType
      BY DEF PcType
    <3> QED BY <3>1, GotoType DEF Wait
  <2> QED
    BY <2>1 DEF Wait, IInv, SchedulerTypeOK, bodyVars, channelVars, controlVars, queueVars
<1>2. Holding'
  <2>1. pc'[w] \in {"idle", "asleep", "exited"} <=> pc[w] \in {"idle", "asleep", "exited"}
    BY DEF Wait, IInv, SchedulerTypeOK, Goto
  <2>2. \A v \in Workers \ {w} : pc'[v] = pc[v]
    BY DEF Wait, IInv, SchedulerTypeOK, Goto
  <2>3. UNCHANGED <<job, task, completion>>
    BY DEF Wait, channelVars, queueVars
  <2> QED
    BY <2>1, <2>2, <2>3 DEF IInv, Holding
<1>3. Progressing'
  BY ConstantsAssumption DEF Wait, IInv, Progressing, SchedulerTypeOK, Holding, Goto,
       JobStates, Results, bodyVars, channelVars, controlVars, queueVars
<1>4. Waiting'
  BY ConstantsAssumption DEF Wait, IInv, Waiting, SchedulerTypeOK, Holding, Goto,
       NoDecision, bodyVars, channelVars, controlVars, queueVars
<1>5. Starting'
  BY ConstantsAssumption DEF Wait, IInv, Starting, SchedulerTypeOK, Holding, Goto,
       bodyVars, channelVars, controlVars, queueVars
<1>6. Closing'
  BY ConstantsAssumption DEF Wait, IInv, Closing, SchedulerTypeOK, Holding, Goto,
       Submitted, bodyVars, channelVars, controlVars, queueVars
<1> QED BY <1>1, <1>2, <1>3, <1>4, <1>5, <1>6 DEF IInv

LEMMA SpuriousWakeupStep ==
  ASSUME IInv, NEW w \in Workers, SpuriousWakeup(w)
  PROVE  IInv'
<1>1. SchedulerTypeOK'
  <2>1. pc' \in [Workers -> PcType]
    <3>1. \A there \in {"checkpoint", "answer", "idle"} : there \in PcType
      BY DEF PcType
    <3> QED BY <3>1, GotoType DEF SpuriousWakeup
  <2> QED
    BY <2>1 DEF SpuriousWakeup, IInv, SchedulerTypeOK, bodyVars, channelVars, controlVars, queueVars
<1>2. Holding'
  <2>1. pc'[w] \in {"idle", "asleep", "exited"} <=> pc[w] \in {"idle", "asleep", "exited"}
    BY DEF SpuriousWakeup, IInv, SchedulerTypeOK, Goto
  <2>2. \A v \in Workers \ {w} : pc'[v] = pc[v]
    BY DEF SpuriousWakeup, IInv, SchedulerTypeOK, Goto
  <2>3. UNCHANGED <<job, task, completion>>
    BY DEF SpuriousWakeup, channelVars, queueVars
  <2> QED
    BY <2>1, <2>2, <2>3 DEF IInv, Holding
<1>3. Progressing'
  BY ConstantsAssumption DEF SpuriousWakeup, IInv, Progressing, SchedulerTypeOK,
       Holding, Goto, JobStates, Results, bodyVars, channelVars, controlVars,
       queueVars
<1>4. Waiting'
  BY ConstantsAssumption DEF SpuriousWakeup, IInv, Waiting, SchedulerTypeOK, Holding,
       Goto, NoDecision, bodyVars, channelVars, controlVars, queueVars
<1>5. Starting'
  BY ConstantsAssumption DEF SpuriousWakeup, IInv, Starting, SchedulerTypeOK, Holding,
       Goto, bodyVars, channelVars, controlVars, queueVars
<1>6. Closing'
  BY ConstantsAssumption DEF SpuriousWakeup, IInv, Closing, SchedulerTypeOK, Holding,
       Goto, Submitted, bodyVars, channelVars, controlVars, queueVars
<1> QED BY <1>1, <1>2, <1>3, <1>4, <1>5, <1>6 DEF IInv

LEMMA ReturnStep ==
  ASSUME IInv, NEW w \in Workers, Return(w)
  PROVE  IInv'
<1>1. SchedulerTypeOK'
  <2>1. job[w] \in Jobs
    BY HoldsJob DEF Return
  <2>2. result' \in [Jobs -> Results \cup {"none"}]
    BY <2>1, OutcomesType DEF Return, IInv, SchedulerTypeOK
  <2>3. yields' \in [Jobs -> BOOLEAN]
    BY <2>1 DEF Return, IInv, SchedulerTypeOK
  <2>4. pc' \in [Workers -> PcType]
    BY DEF Return, IInv, SchedulerTypeOK, Goto, PcType
  <2> QED
    BY <2>2, <2>3, <2>4 DEF Return, IInv, SchedulerTypeOK, channelVars, controlVars, queueVars
<1>2. Holding'
  BY ConstantsAssumption DEF Return, IInv, Holding, SchedulerTypeOK, Goto, Outcomes,
       Results, channelVars, controlVars, queueVars
<1>3. Progressing'
  <2>1. PICK r \in Results : result' = [result EXCEPT ![job[w]] = r]
    BY OutcomesType DEF Return
  <2>2. pc' = [pc EXCEPT ![w] = "terminal"] /\ UNCHANGED <<job, msg, prompts>>
    BY DEF Return, Goto
  <2>3. job[w] \in Jobs
    BY HoldsJob DEF Return
  <2>4. \A v \in Workers : result[job[v]] \in Results /\ job[v] \in Jobs
                              => result'[job[v]] \in Results
    BY <2>1, <2>3 DEF IInv, SchedulerTypeOK
  <2>5. result'[job[w]] \in Results
    BY <2>1, <2>3 DEF IInv, SchedulerTypeOK
  <2>6. pc'[w] = "terminal" /\ \A v \in Workers \ {w} : pc'[v] = pc[v]
    BY <2>2 DEF IInv, SchedulerTypeOK
  <2> QED
    BY <2>2, <2>4, <2>5, <2>6, HoldsJob DEF IInv, Progressing
<1>4. Waiting'
  BY ConstantsAssumption DEF Return, IInv, Waiting, SchedulerTypeOK, Holding, Goto,
       NoDecision, Outcomes, Results, channelVars, controlVars, queueVars
<1>5. Starting'
  BY ConstantsAssumption DEF Return, IInv, Starting, SchedulerTypeOK, Holding, Goto,
       Outcomes, Results, channelVars, controlVars, queueVars
<1>6. Closing'
  BY ConstantsAssumption DEF Return, IInv, Closing, SchedulerTypeOK, Holding, Goto,
       Outcomes, Results, Submitted, channelVars, controlVars, queueVars
<1> QED BY <1>1, <1>2, <1>3, <1>4, <1>5, <1>6 DEF IInv

-----------------------------------------------------------------------------
LEMMA InitIInv == SchedulerInit => IInv
<1> SUFFICES ASSUME SchedulerInit PROVE IInv
  OBVIOUS
<1>1. SchedulerTypeOK
  <2>1. events \in [Jobs -> Seq(EventType)]
    BY DEF SchedulerInit
  <2>2. pc \in [Workers -> PcType]
    BY DEF SchedulerInit, PcType
  <2>3. decision \in [Jobs -> DecisionType]
    BY DEF SchedulerInit, DecisionType
  <2>4. /\ prompts \in [Jobs -> 0..MaxPrompts]
        /\ seq \in [Jobs -> Nat] /\ nextSeq \in Nat
        /\ \A j \in Jobs : seq[j] < nextSeq
    BY ConstantsAssumption DEF SchedulerInit
  <2>5. drop \in [pc : {"no", "sweep", "flagged", "join", "dropped"},
                 todo : SUBSET Jobs, at : Jobs \cup {NoJob}, missed : SUBSET Jobs]
    BY DEF SchedulerInit
  <2> QED
    BY <2>1, <2>2, <2>3, <2>4, <2>5 DEF SchedulerInit, SchedulerTypeOK
<1>2. Holding /\ Progressing /\ Waiting
  BY ConstantsAssumption DEF SchedulerInit, Holding, Progressing, Waiting
<1>3. Starting /\ Closing
  BY ConstantsAssumption DEF SchedulerInit, Starting, Closing
<1> QED BY <1>1, <1>2, <1>3 DEF IInv

LEMMA StutterIInv == IInv /\ UNCHANGED schedulerVars => IInv'
BY DEF IInv, SchedulerTypeOK, Holding, Progressing, Waiting, Starting, Closing, Submitted,
   schedulerVars, queueVars, controlVars, workerVars, bodyVars, channelVars

LEMMA NextIInv == IInv /\ [SchedulerNext]_schedulerVars => IInv'
<1> SUFFICES ASSUME IInv, [SchedulerNext]_schedulerVars PROVE IInv'
  OBVIOUS
<1>1. ASSUME NEW w \in Workers, Worker(w) PROVE IInv'
  BY <1>1, SleepStep, ExitStep, PopStep, SkipCancelledStep, AcceptStep, StartStep, SendStateStep,
     TerminateStep, CompleteStep, ReportStep, CallCheckpointStep, CheckpointStep,
     CallRequestStep, SendPromptStep, AnswerCancelledStep, TakeDecisionStep,
     AwaitDecisionStep, ResumedStep, WaitStep, ReturnStep DEF Worker
<1>2. ASSUME NEW w \in Workers, SpuriousWakeup(w) PROVE IInv'
  BY <1>2, SpuriousWakeupStep
<1>3. ASSUME NEW j \in Jobs, Client(j) PROVE IInv'
  BY <1>3, SubmitTicketStep, SubmitPushStep, PauseStep, ResumeStep, CancelStep,
     CancelNotifyStep, RespondStep DEF Client
<1>4. ASSUME Dropping PROVE IInv'
  BY <1>4, DropBeginStep, DropCancelStep, DropNotifyStep, DropFlagStep, DropWakeStep,
     DropJoinStep DEF Dropping
<1>5. CASE UNCHANGED schedulerVars
  BY <1>5, StutterIInv
<1> QED BY <1>1, <1>2, <1>3, <1>4, <1>5 DEF SchedulerNext

LEMMA Invariance == SchedulerSpec => []IInv
<1>1. SchedulerInit => IInv
  BY InitIInv
<1>2. IInv /\ [SchedulerNext]_schedulerVars => IInv'
  BY NextIInv
<1> QED BY <1>1, <1>2, PTL DEF SchedulerSpec

\* Type correctness: every variable of the scheduler keeps its type.
THEOREM TypeCorrect == SchedulerSpec => []SchedulerTypeOK
<1>1. IInv => SchedulerTypeOK
  BY DEF IInv
<1> QED BY <1>1, Invariance, PTL

\* No task is ever in the hands of two workers, nor completed twice.
THEOREM ExecutedOnce == SchedulerSpec => []SingleExecution
<1>1. IInv => SingleExecution
  BY DEF IInv, Holding, SingleExecution
<1> QED BY <1>1, Invariance, PTL

\* A worker sleeps on `changed` only while its job is paused, or unanswered.
THEOREM WaitsForAReason == SchedulerSpec => []NoLostWakeup
<1>1. IInv => NoLostWakeup
  BY DEF IInv, Waiting, NoLostWakeup
<1> QED BY <1>1, Invariance, PTL

-----------------------------------------------------------------------------
(* TaskScheduler implements JobLifecycle.  Four actions of the scheduler   *)
(* move a job: the push that ends submit, the pop, the start of its body   *)
(* and the completion; all others stutter.                                 *)

\* An action that moves no job leaves its phase and its outcome alone.
LEMMA StutterStep ==
  ASSUME UNCHANGED <<started, completion, shutdown>>,
         \A j \in Jobs : task'[j] = task[j] \/ {task[j], task'[j]} \cap {"queued", "claimed"} = {},
         \A j \in Jobs : completion[j] # "none" => result'[j] = result[j]
  PROVE  UNCHANGED <<Phase, Outcome, shutdown>>
<1>1. Phase' = Phase
  BY DEF Phase
<1>2. Outcome' = Outcome
  BY DEF Outcome
<1> QED BY <1>1, <1>2

\* Most actions touch nothing that Phase and Outcome depend on.
LEMMA IdleStep ==
  ASSUME UNCHANGED <<task, started, completion, result, shutdown>>
  PROVE  UNCHANGED <<Phase, Outcome, shutdown>>
BY StutterStep

LEMMA PhaseInit == SchedulerInit => Lifecycle!LifecycleInit
BY DEF SchedulerInit, Lifecycle!LifecycleInit, Phase, Outcome

LEMMA SubmitPushRefines ==
  ASSUME IInv, NEW j \in Jobs, SubmitPush(j)
  PROVE  Lifecycle!Submit(j)
<1>1. /\ task[j] = "submitting" /\ task' = [task EXCEPT ![j] = "queued"]
      /\ UNCHANGED <<started, completion, result, shutdown>>
  BY DEF SubmitPush, controlVars, channelVars, bodyVars
<1>2. ~started[j] /\ completion[j] = "none"
  BY <1>1 DEF IInv, Starting
<1>3. Phase[j] = "new"
  BY <1>1, <1>2 DEF Phase
<1>4. Phase' = [Phase EXCEPT ![j] = "queued"]
  BY <1>1, <1>2 DEF Phase, IInv, SchedulerTypeOK
<1>5. ~shutdown
  BY <1>1 DEF IInv, Closing
<1>6. Outcome' = Outcome
  BY <1>1 DEF Outcome
<1> QED BY <1>1, <1>3, <1>4, <1>5, <1>6 DEF Lifecycle!Submit

LEMMA PopRefines ==
  ASSUME IInv, NEW w \in Workers, Pop(w)
  PROVE  \E j \in Jobs : Lifecycle!Claim(j)
<1>1. PICK j \in Jobs : task[j] = "queued" /\ task' = [task EXCEPT ![j] = "claimed"]
  BY DEF Pop, queue
<1>2. ~shutdown /\ UNCHANGED <<started, completion, result, shutdown>>
  BY DEF Pop, controlVars, channelVars, bodyVars
<1>3. ~started[j] /\ completion[j] = "none"
  BY <1>1 DEF IInv, Starting
<1>4. Phase[j] = "queued"
  BY <1>1, <1>3 DEF Phase
<1>5. Phase' = [Phase EXCEPT ![j] = "claimed"]
  BY <1>1, <1>2, <1>3 DEF Phase, IInv, SchedulerTypeOK
<1>6. Outcome' = Outcome
  BY <1>2 DEF Outcome
<1> QED BY <1>2, <1>4, <1>5, <1>6 DEF Lifecycle!Claim

LEMMA StartRefines ==
  ASSUME IInv, NEW w \in Workers, Start(w)
  PROVE  Lifecycle!Begin(job[w])
<1> DEFINE j == job[w]
<1>1. j \in Jobs /\ j # NoJob
  BY HoldsJob DEF Start
<1>2. task[j] = "claimed" /\ completion[j] = "none" /\ ~started[j]
  BY <1>1 DEF Start, IInv, Holding, Starting
<1>3. started' = [started EXCEPT ![j] = TRUE] /\ UNCHANGED <<task, completion, result, shutdown>>
  BY DEF Start, queueVars, bodyVars, channelVars
<1>4. Phase[j] = "claimed"
  BY <1>1, <1>2 DEF Phase
<1>5. Phase' = [Phase EXCEPT ![j] = "running"]
  <2>1. started'[j] /\ \A k \in Jobs \ {j} : started'[k] = started[k]
    BY <1>1, <1>3 DEF IInv, SchedulerTypeOK
  <2>2. completion'[j] = "none" /\ completion' = completion /\ task' = task
    BY <1>2, <1>3
  <2>3. \A k \in Jobs : Phase'[k] = IF k = j THEN "running" ELSE Phase[k]
    BY <2>1, <2>2 DEF Phase
  <2> QED BY <1>1, <2>3 DEF Phase
<1>6. Outcome' = Outcome
  BY <1>3 DEF Outcome
<1> QED BY <1>3, <1>4, <1>5, <1>6 DEF Lifecycle!Begin

LEMMA CompleteRefines ==
  ASSUME IInv, NEW w \in Workers, Complete(w)
  PROVE  Lifecycle!End(job[w]) \/ Lifecycle!Skip(job[w])
<1> DEFINE j == job[w]
<1>1. j \in Jobs /\ j # NoJob
  BY HoldsJob DEF Complete
<1>2. task[j] = "claimed" /\ completion[j] = "none" /\ result[j] \in Results
  BY <1>1 DEF Complete, IInv, Holding, Progressing
<1>3. /\ completion' = [completion EXCEPT ![j] = "sent"]
      /\ UNCHANGED <<task, started, result, shutdown>>
  BY DEF Complete, queueVars, controlVars, bodyVars
<1>4. Phase' = [Phase EXCEPT ![j] = "done"]
  <2>1. completion'[j] = "sent" /\ \A k \in Jobs \ {j} : completion'[k] = completion[k]
    BY <1>1, <1>3 DEF IInv, SchedulerTypeOK
  <2>2. \A k \in Jobs : Phase'[k] = IF k = j THEN "done" ELSE Phase[k]
    BY <1>3, <2>1 DEF Phase
  <2> QED BY <1>1, <2>2 DEF Phase
<1>5. Outcome' = [Outcome EXCEPT ![j] = result[j]]
  BY <1>1, <1>2, <1>3 DEF Outcome, IInv, SchedulerTypeOK
<1>6. CASE started[j]
  <2>1. Phase[j] = "running"
    BY <1>1, <1>2, <1>6 DEF Phase
  <2> QED BY <1>2, <1>3, <1>4, <1>5, <2>1 DEF Lifecycle!End
<1>7. CASE ~started[j]
  <2>1. Phase[j] = "claimed"
    BY <1>1, <1>2, <1>7 DEF Phase
  <2>2. result[j] = "Cancelled"
    BY <1>1, <1>7 DEF Complete, IInv, Starting
  <2> QED BY <1>3, <1>4, <1>5, <2>1, <2>2 DEF Lifecycle!Skip
<1> QED BY <1>6, <1>7

\* A returned result shows nothing to the owner yet.
LEMMA ResultStutters ==
  ASSUME IInv, NEW w \in Workers, SkipCancelled(w) \/ Return(w)
  PROVE  UNCHANGED <<Phase, Outcome, shutdown>>
<1>1. UNCHANGED <<task, started, completion, shutdown>>
  BY DEF SkipCancelled, Return, queueVars, controlVars, channelVars
<1>2. job[w] \in Jobs /\ completion[job[w]] = "none"
  BY HoldsJob DEF SkipCancelled, Return, IInv, Holding
<1>3. \A j \in Jobs : completion[j] # "none" => result'[j] = result[j]
  BY <1>2 DEF SkipCancelled, Return, IInv, SchedulerTypeOK
<1> QED BY <1>1, <1>3, StutterStep

LEMMA SubmitTicketStutters ==
  ASSUME IInv, NEW j \in Jobs, SubmitTicket(j)
  PROVE  UNCHANGED <<Phase, Outcome, shutdown>>
<1>1. UNCHANGED <<started, completion, result, shutdown>>
  BY DEF SubmitTicket, controlVars, bodyVars
<1>2. task[j] = "new" /\ task' = [task EXCEPT ![j] = "submitting"]
  BY DEF SubmitTicket
<1>3. \A k \in Jobs : task'[k] = task[k] \/ {task[k], task'[k]} \cap {"queued", "claimed"} = {}
  BY <1>2 DEF IInv, SchedulerTypeOK
<1> QED BY <1>1, <1>3, StutterStep

LEMMA DropFlagRefines ==
  ASSUME DropFlag
  PROVE  Lifecycle!Close
<1>1. shutdown' = TRUE /\ UNCHANGED <<task, started, completion, result>>
  BY DEF DropFlag, channelVars, bodyVars
<1>2. Phase' = Phase /\ Outcome' = Outcome
  BY <1>1 DEF Phase, Outcome
<1> QED BY <1>1, <1>2 DEF Lifecycle!Close

LEMMA StepRefines ==
  IInv /\ [SchedulerNext]_schedulerVars => [Lifecycle!LifecycleNext]_<<Phase, Outcome, shutdown>>
<1> SUFFICES ASSUME IInv, [SchedulerNext]_schedulerVars
             PROVE  [Lifecycle!LifecycleNext]_<<Phase, Outcome, shutdown>>
  OBVIOUS
<1>1. ASSUME NEW w \in Workers, Worker(w)
      PROVE  [Lifecycle!LifecycleNext]_<<Phase, Outcome, shutdown>>
  <2>1. CASE Start(w)
    <3>1. job[w] \in Jobs
      BY <2>1, HoldsJob DEF Start
    <3> QED BY <2>1, <3>1, StartRefines DEF Lifecycle!LifecycleNext
  <2>2. CASE Complete(w)
    <3>1. job[w] \in Jobs
      BY <2>2, HoldsJob DEF Complete
    <3> QED BY <2>2, <3>1, CompleteRefines DEF Lifecycle!LifecycleNext
  <2>3. CASE Pop(w)
    BY <2>3, PopRefines DEF Lifecycle!LifecycleNext
  <2>4. CASE SkipCancelled(w) \/ Return(w)
    BY <2>4, ResultStutters
  <2>5. CASE Sleep(w) \/ Exit(w) \/ Accept(w) \/ SendState(w) \/ Terminate(w)
    BY <2>5, IdleStep DEF Sleep, Exit, Accept, SendState, Terminate, queueVars, controlVars,
       bodyVars, channelVars
  <2>6. CASE Report(w) \/ CallCheckpoint(w) \/ Checkpoint(w) \/ Wait(w)
    BY <2>6, IdleStep DEF Report, CallCheckpoint, Checkpoint, Wait, queueVars,
       controlVars, bodyVars, channelVars
  <2>7. CASE CallRequest(w) \/ SendPrompt(w) \/ AnswerCancelled(w) \/ TakeDecision(w)
             \/ AwaitDecision(w) \/ Resumed(w)
    BY <2>7, IdleStep DEF CallRequest, SendPrompt, AnswerCancelled, TakeDecision,
       AwaitDecision, Resumed, queueVars, controlVars, bodyVars, channelVars
  <2> QED BY <1>1, <2>1, <2>2, <2>3, <2>4, <2>5, <2>6, <2>7 DEF Worker
<1>2. ASSUME NEW w \in Workers, SpuriousWakeup(w)
      PROVE  [Lifecycle!LifecycleNext]_<<Phase, Outcome, shutdown>>
  BY <1>2, IdleStep DEF SpuriousWakeup, queueVars, controlVars, bodyVars, channelVars
<1>3. ASSUME NEW j \in Jobs, Client(j)
      PROVE  [Lifecycle!LifecycleNext]_<<Phase, Outcome, shutdown>>
  <2>1. CASE SubmitPush(j)
    BY <2>1, SubmitPushRefines DEF Lifecycle!LifecycleNext
  <2>2. CASE SubmitTicket(j)
    BY <2>2, SubmitTicketStutters
  <2>3. CASE Pause(j) \/ Resume(j) \/ Cancel(j) \/ CancelNotify(j)
    BY <2>3, IdleStep DEF Pause, Resume, Cancel, CancelNotify, queueVars, bodyVars,
       channelVars
  <2>4. CASE \E a \in Answers, n \in 1..MaxPrompts : Respond(j, a, n)
    BY <2>4, IdleStep DEF Respond, queueVars, bodyVars, channelVars
  <2> QED BY <1>3, <2>1, <2>2, <2>3, <2>4 DEF Client
<1>4. ASSUME Dropping
      PROVE  [Lifecycle!LifecycleNext]_<<Phase, Outcome, shutdown>>
  <2>1. CASE DropFlag
    BY <2>1, DropFlagRefines DEF Lifecycle!LifecycleNext
  <2>2. CASE DropBegin \/ DropWake \/ DropJoin \/ \E j \in Jobs : DropCancel(j) \/ DropNotify(j)
    BY <2>2, IdleStep DEF DropBegin, DropWake, DropJoin, DropCancel, DropNotify,
       queueVars, controlVars, bodyVars, channelVars
  <2> QED BY <1>4, <2>1, <2>2 DEF Dropping
<1>5. CASE UNCHANGED schedulerVars
  BY <1>5, IdleStep DEF schedulerVars, queueVars, controlVars, bodyVars, channelVars
<1> QED BY <1>1, <1>2, <1>3, <1>4, <1>5 DEF SchedulerNext

\* The scheduler implements JobLifecycle: a job begins and ends at most once, with
\* the result its owner is told, and none begins after Drop has set `shutdown`.
THEOREM RefinesLifecycle == SchedulerSpec => ImplementsLifecycle
<1>1. SchedulerInit => Lifecycle!LifecycleInit
  BY PhaseInit
<1>2. IInv /\ [SchedulerNext]_schedulerVars => [Lifecycle!LifecycleNext]_<<Phase, Outcome, shutdown>>
  BY StepRefines
<1> QED
  BY <1>1, <1>2, Invariance, PTL
     DEF SchedulerSpec, ImplementsLifecycle, Lifecycle!LifecycleSpec, Lifecycle!lifecycleVars

-----------------------------------------------------------------------------
(* Drop settles every job.  Two facts are added to IInv: a popped task     *)
(* stays with some worker until its completion is sent, and a worker that  *)
(* has exited never comes back; so when all were joined, no popped task is *)
(* without its completion.                                                 *)

\* A popped task that has not sent its completion is in the hands of a worker.
Owned ==
    \A j \in Jobs : task[j] = "claimed" /\ completion[j] = "none"
                       => \E w \in Workers : job[w] = j

\* Drop has returned only after every worker did.
Joined == drop.pc = "dropped" => \A w \in Workers : pc[w] = "exited"

\* What each group of actions leaves alone.
LEMMA QueuedStep ==
  ASSUME IInv, Owned, UNCHANGED <<job, completion>>,
         \A j \in Jobs : task'[j] = "claimed" => task[j] = "claimed"
  PROVE  Owned'
BY DEF Owned

LEMMA PopOwns ==
  ASSUME IInv, Owned, NEW w \in Workers, Pop(w)
  PROVE  Owned'
<1>1. PICK j \in Jobs : task' = [task EXCEPT ![j] = "claimed"] /\ job' = [job EXCEPT ![w] = j]
  BY DEF Pop, queue
<1>2. completion' = completion /\ pc[w] = "idle"
  BY DEF Pop, channelVars
<1>3. job[w] = NoJob
  BY <1>2 DEF IInv, Holding
<1>4. job'[w] = j /\ \A v \in Workers \ {w} : job'[v] = job[v]
  BY <1>1 DEF IInv, SchedulerTypeOK
<1>5. \A k \in Jobs \ {j} : task'[k] = task[k]
  BY <1>1 DEF IInv, SchedulerTypeOK
<1> QED BY <1>2, <1>3, <1>4, <1>5, ConstantsAssumption DEF Owned

LEMMA CompleteOwns ==
  ASSUME IInv, Owned, NEW w \in Workers, Complete(w)
  PROVE  Owned'
<1>1. /\ completion' = [completion EXCEPT ![job[w]] = "sent"]
      /\ job' = [job EXCEPT ![w] = NoJob] /\ task' = task
  BY DEF Complete, queueVars
<1>2. job[w] \in Jobs
  BY HoldsJob DEF Complete
<1>3. completion'[job[w]] = "sent" /\ \A j \in Jobs \ {job[w]} : completion'[j] = completion[j]
  BY <1>1, <1>2 DEF IInv, SchedulerTypeOK
<1>4. \A v \in Workers \ {w} : job'[v] = job[v]
  BY <1>1 DEF IInv, SchedulerTypeOK
<1> QED BY <1>1, <1>3, <1>4 DEF Owned

LEMMA NextOwns == IInv /\ Owned /\ [SchedulerNext]_schedulerVars => Owned'
<1> SUFFICES ASSUME IInv, Owned, [SchedulerNext]_schedulerVars PROVE Owned'
  OBVIOUS
<1>1. ASSUME NEW w \in Workers, Worker(w) PROVE Owned'
  <2>1. CASE Pop(w)
    BY <2>1, PopOwns
  <2>2. CASE Complete(w)
    BY <2>2, CompleteOwns
  <2>3. CASE ~Pop(w) /\ ~Complete(w)
    BY <1>1, <2>3, QueuedStep DEF Worker, Sleep, Exit, SkipCancelled, Accept, Start,
       SendState, Terminate, Report, CallCheckpoint, Checkpoint, CallRequest, SendPrompt,
       AnswerCancelled, TakeDecision, AwaitDecision, Resumed, Wait, Return, queueVars,
       workerVars, channelVars
  <2> QED BY <2>1, <2>2, <2>3
<1>2. ASSUME NEW w \in Workers, SpuriousWakeup(w) PROVE Owned'
  BY <1>2, QueuedStep DEF SpuriousWakeup, queueVars, channelVars
<1>3. ASSUME NEW j \in Jobs, Client(j) PROVE Owned'
  <2>1. UNCHANGED <<job, completion>>
    BY <1>3 DEF Client, SubmitTicket, SubmitPush, Pause, Resume, Cancel, CancelNotify,
       Respond, workerVars, channelVars
  <2>2. task' = task \/ \E s \in {"submitting", "queued"} : task' = [task EXCEPT ![j] = s]
    BY <1>3 DEF Client, SubmitTicket, SubmitPush, Pause, Resume, Cancel, CancelNotify,
       Respond, queueVars
  <2>3. \A k \in Jobs : task'[k] = "claimed" => task[k] = "claimed"
    BY <2>2 DEF IInv, SchedulerTypeOK
  <2> QED BY <2>1, <2>3, QueuedStep
<1>4. ASSUME Dropping PROVE Owned'
  BY <1>4, QueuedStep DEF Dropping, DropBegin, DropCancel, DropNotify, DropFlag, DropWake,
     DropJoin, queueVars, workerVars, channelVars
<1>5. CASE UNCHANGED schedulerVars
  BY <1>5, QueuedStep DEF schedulerVars, queueVars, workerVars, channelVars
<1> QED BY <1>1, <1>2, <1>3, <1>4, <1>5 DEF SchedulerNext

-----------------------------------------------------------------------------
\* A thread that has returned from worker_loop stays so.
LEMMA ExitedStays ==
  ASSUME IInv, [SchedulerNext]_schedulerVars, NEW w \in Workers, pc[w] = "exited"
  PROVE  pc'[w] = "exited"
<1>1. ASSUME NEW v \in Workers, Worker(v) PROVE pc'[w] = "exited"
  <2>1. pc[v] # "exited" /\ \E there : Goto(v, there)
    BY <1>1 DEF Worker, Sleep, Exit, Pop, SkipCancelled, Accept, Start, SendState,
       Terminate, Complete, Report, Operating, CallCheckpoint, Checkpoint, CallRequest,
       SendPrompt, AnswerCancelled, TakeDecision, AwaitDecision, Resumed, Wait, Return
  <2> QED BY <2>1 DEF Goto, IInv, SchedulerTypeOK
<1>2. ASSUME NEW v \in Workers, SpuriousWakeup(v) PROVE pc'[w] = "exited"
  BY <1>2 DEF SpuriousWakeup, Goto, IInv, SchedulerTypeOK
<1>3. ASSUME NEW j \in Jobs, Client(j) PROVE pc'[w] = "exited"
  <2>1. pc \in [Workers -> PcType]
    BY DEF IInv, SchedulerTypeOK
  <2> QED
    BY <1>3, <2>1 DEF Client, SubmitTicket, SubmitPush, Pause, Resume, Cancel,
       CancelNotify, Respond, Wake, Goto, workerVars
<1>4. ASSUME Dropping PROVE pc'[w] = "exited"
  BY <1>4 DEF Dropping, DropBegin, DropCancel, DropNotify, DropFlag, DropWake, DropJoin,
     Wake, workerVars
<1>5. CASE UNCHANGED schedulerVars
  BY <1>5 DEF schedulerVars, workerVars
<1> QED BY <1>1, <1>2, <1>3, <1>4, <1>5 DEF SchedulerNext

LEMMA NextJoined == IInv /\ Joined /\ [SchedulerNext]_schedulerVars => Joined'
<1> SUFFICES ASSUME IInv, Joined, [SchedulerNext]_schedulerVars, drop'.pc = "dropped",
                    NEW w \in Workers
             PROVE  pc'[w] = "exited"
  BY DEF Joined
<1>1. pc[w] = "exited"
  <2>1. CASE DropJoin
    BY <2>1 DEF DropJoin
  <2>2. CASE ~DropJoin
    <3>1. drop.pc = "dropped"
      <4>1. CASE \E v \in Workers : Worker(v) \/ SpuriousWakeup(v)
        BY <4>1 DEF Worker, Sleep, Exit, Pop, SkipCancelled, Accept, Start, SendState,
           Terminate, Complete, Report, CallCheckpoint, Checkpoint, CallRequest,
           SendPrompt, AnswerCancelled, TakeDecision, AwaitDecision, Resumed, Wait,
           Return, SpuriousWakeup
      <4>2. CASE \E j \in Jobs : Client(j)
        BY <4>2 DEF Client, SubmitTicket, SubmitPush, Pause, Resume, Cancel,
           CancelNotify, Respond
      <4>3. CASE Dropping
        <5>1. CASE DropBegin \/ DropFlag \/ DropWake
          BY <5>1 DEF DropBegin, DropFlag, DropWake, IInv, SchedulerTypeOK
        <5>2. CASE \E j \in Jobs : DropCancel(j) \/ DropNotify(j)
          BY <5>2 DEF DropCancel, DropNotify, IInv, SchedulerTypeOK
        <5> QED BY <2>2, <4>3, <5>1, <5>2 DEF Dropping
      <4>4. CASE UNCHANGED schedulerVars
        BY <4>4 DEF schedulerVars
      <4> QED BY <4>1, <4>2, <4>3, <4>4 DEF SchedulerNext
    <3> QED BY <3>1 DEF Joined
  <2> QED BY <2>1, <2>2
<1> QED BY <1>1, ExitedStays

\* When Drop has joined its threads, every job has sent its completion, or was
\* still queued: then it is cancelled, and its body never ran.
THEOREM DropSettles == SchedulerSpec => []DropSettlesEveryJob
<1>1. SchedulerInit => Owned /\ Joined
  BY DEF SchedulerInit, Owned, Joined
<1>2. IInv /\ Owned /\ Joined /\ [SchedulerNext]_schedulerVars => Owned' /\ Joined'
  BY NextOwns, NextJoined
<1>3. IInv /\ Owned /\ Joined => DropSettlesEveryJob
  <2> SUFFICES ASSUME IInv, Owned, Joined, drop.pc = "dropped", NEW j \in Submitted
               PROVE  \/ completion[j] # "none"
                      \/ task[j] = "queued" /\ cancelled[j] /\ ~started[j]
    BY DEF DropSettlesEveryJob
  <2>1. j \in Jobs /\ task[j] \in {"queued", "claimed"}
    BY DEF Submitted
  <2>2. CASE task[j] = "queued"
    <3>1. cancelled[j]
      BY DEF IInv, Closing
    <3>2. ~started[j]
      BY <2>1, <2>2 DEF IInv, Starting
    <3> QED BY <2>2, <3>1, <3>2
  <2>3. CASE task[j] = "claimed"
    <3>1. \A w \in Workers : job[w] = NoJob
      BY DEF Joined, IInv, Holding
    <3> QED BY <2>1, <2>3, <3>1, ConstantsAssumption DEF Owned
  <2> QED BY <2>1, <2>2, <2>3
<1> QED BY <1>1, <1>2, <1>3, Invariance, PTL DEF SchedulerSpec
=============================================================================
