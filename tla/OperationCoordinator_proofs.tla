-------------------- MODULE OperationCoordinator_proofs --------------------
(***************************************************************************)
(* Theorems about OperationCoordinator, for any jobs, workers and bounds.  *)
(* The coordinator works on the state of its scheduler, so the invariants  *)
(* of the scheduler are carried along; CInv adds to them what the handlers *)
(* of the UI thread keep: which ids are listed, what a poll has received   *)
(* and not yet announced, where the record of each undo job is, and which  *)
(* event is the last one of a job.  Steps fall into three kinds: those of  *)
(* the workers and the clicks that only call a JobController leave the     *)
(* coordinator alone (Quiet), those on the channels only read or drop      *)
(* messages (ChannelStep), and the others are proved one at a time.        *)
(***************************************************************************)
EXTENDS OperationCoordinator, TaskScheduler_proofs, SequenceTheorems, FiniteSetTheorems

\* Once the worker has reported how j ended, that is the last event of j.
EndsWithResult(j) ==
    events[j] # << >> /\ (completion[j] # "none"
                          \/ \E w \in Workers : pc[w] = "complete" /\ job[w] = j)
       => events[j][Len(events[j])] = State(result[j])

\* Nothing is seen waiting in the channels of handles that empty them at once.
Unseen == ~Buffered => \A j \in Jobs : events[j] = << >>

-----------------------------------------------------------------------------
(* What a step of a worker, or a wait that ends by itself, may change.     *)

\* Only Pop moves a task, and only Complete completes it.
Moves ==
    /\ UNCHANGED <<seq, nextSeq>>
    /\ \A j \in Jobs :
          /\ \/ task'[j] = task[j]
             \/ task[j] = "queued" /\ task'[j] = "claimed"
          /\ \/ completion'[j] = completion[j]
             \/ completion[j] = "none" /\ completion'[j] = "sent"
                /\ result'[j] = result[j] /\ result[j] \in Results

\* What a job returned and sent is settled once its completion was sent.
Settled ==
    /\ \A j \in Jobs : completion[j] # "none" => result'[j] = result[j] /\ yields'[j] = yields[j]
    /\ \A j \in UndoJobs :
          result'[j] = result[j] \/ result'[j] \in {"Completed", "Failed", "Cancelled"}

SettledEvents == \A j \in Jobs : completion[j] # "none" => events'[j] = events[j]

Running(w) == Worker(w) \/ SpuriousWakeup(w)

\* Only Pop and Complete move a job; the ticket counter is never touched.
LEMMA RunningMoves ==
  ASSUME IInv, NEW w \in Workers, Running(w)
  PROVE  Moves
<1>1. CASE Pop(w)
  BY <1>1 DEF Pop, Moves, IInv, SchedulerTypeOK, queue, channelVars
<1>2. CASE Complete(w)
  <2>1. job[w] \in Jobs /\ completion[job[w]] = "none" /\ result[job[w]] \in Results
    BY <1>2, HoldsJob DEF Complete, IInv, Holding, Progressing
  <2> QED BY <1>2, <2>1 DEF Complete, Moves, IInv, SchedulerTypeOK, queueVars, bodyVars
<1>3. CASE ~Pop(w) /\ ~Complete(w)
  <2>1. UNCHANGED <<task, seq, nextSeq, completion>>
    BY <1>3 DEF Running, Worker, SpuriousWakeup, Sleep, Exit, SkipCancelled, Accept, Start,
       SendState, Terminate, Report, CallCheckpoint, Checkpoint, CallRequest, SendPrompt,
       AnswerCancelled, TakeDecision, AwaitDecision, Resumed, Wait, Return,
       queueVars, channelVars
  <2> QED BY <2>1 DEF Moves
<1> QED BY <1>1, <1>2, <1>3

\* The worker that holds a job is the only one to change its outcome or events.
LEMMA RunningKeeps ==
  ASSUME IInv, NEW w \in Workers, Running(w)
  PROVE  Settled /\ SettledEvents
<1>1. CASE SkipCancelled(w)
  <2>1. job[w] \in Jobs /\ completion[job[w]] = "none"
    BY <1>1, HoldsJob DEF SkipCancelled, IInv, Holding
  <2> QED BY <1>1, <2>1, ConstantsAssumption
          DEF SkipCancelled, Settled, SettledEvents, IInv, SchedulerTypeOK, Send
<1>2. CASE Return(w)
  <2>1. job[w] \in Jobs /\ completion[job[w]] = "none"
    BY <1>2, HoldsJob DEF Return, IInv, Holding
  <2>2. PICK r \in Outcomes(w) : result' = [result EXCEPT ![job[w]] = r]
    BY <1>2 DEF Return
  <2>3. job[w] \in UndoJobs => r \in {"Completed", "Failed"}
    BY <2>2 DEF Outcomes
  <2>4. \A j \in Jobs \ {job[w]} : result'[j] = result[j] /\ yields'[j] = yields[j]
    BY <1>2, <2>2 DEF Return, IInv, SchedulerTypeOK
  <2>5. result'[job[w]] = r /\ events' = events
    BY <1>2, <2>1, <2>2 DEF Return, IInv, SchedulerTypeOK, channelVars
  <2> QED BY <2>1, <2>3, <2>4, <2>5, ConstantsAssumption DEF Settled, SettledEvents
<1>3. CASE SendState(w) \/ Terminate(w) \/ SendPrompt(w)
  <2>1. job[w] \in Jobs /\ completion[job[w]] = "none"
    BY <1>3, HoldsJob DEF SendState, Terminate, SendPrompt, IInv, Holding
  <2>2. UNCHANGED <<result, yields>>
    BY <1>3 DEF SendState, Terminate, SendPrompt, bodyVars
  <2>3. \E e : Send(job[w], e)
    BY <1>3 DEF SendState, Terminate, SendPrompt
  <2> QED BY <2>1, <2>2, <2>3 DEF Settled, SettledEvents, IInv, SchedulerTypeOK, Send
<1>4. CASE ~SkipCancelled(w) /\ ~Return(w) /\ ~SendState(w) /\ ~Terminate(w) /\ ~SendPrompt(w)
  <2>1. UNCHANGED <<result, yields, events>>
    BY <1>4 DEF Running, Worker, SpuriousWakeup, Sleep, Exit, Pop, Accept, Start, Complete,
       Report, CallCheckpoint, Checkpoint, CallRequest,
       AnswerCancelled, TakeDecision, AwaitDecision, Resumed, Wait,
       bodyVars, channelVars
  <2> QED BY <2>1 DEF Settled, SettledEvents
<1> QED BY <1>1, <1>2, <1>3, <1>4

\* After SkipCancelled or Terminate no worker sends another event of the job.
LEMMA RunningEnds ==
  ASSUME IInv, Unseen, NEW w \in Workers, Running(w), NEW j \in Jobs, EndsWithResult(j)
  PROVE  EndsWithResult(j)'
<1>1. CASE SkipCancelled(w) \/ Terminate(w)
  <2>1. job[w] \in Jobs /\ job' = job /\ completion' = completion
    BY <1>1, HoldsJob DEF SkipCancelled, Terminate
  <2>2. CASE j = job[w]
    <3>1. Send(j, State(result'[j]))
      BY <1>1, <2>1, <2>2 DEF SkipCancelled, Terminate, bodyVars, IInv, SchedulerTypeOK
    <3>2. completion[j] = "none" /\ \A v \in Workers : job[v] = j => v = w
      BY <2>1, <2>2, ConstantsAssumption DEF IInv, Holding
    <3>3. CASE Buffered
      <4>1. events'[j] = Append(events[j], State(result'[j]))
        BY <3>1, <3>3 DEF Send, IInv, SchedulerTypeOK
      <4>2. events[j] \in Seq(EventType)
        BY DEF IInv, SchedulerTypeOK
      <4> QED BY <4>1, <4>2 DEF EndsWithResult
    <3>4. CASE ~Buffered
      <4>1. events'[j] = events[j]
        BY <3>1, <3>4 DEF Send
      <4> QED BY <4>1, <3>4 DEF EndsWithResult, Unseen
    <3> QED BY <3>3, <3>4
  <2>3. CASE j # job[w]
    <3>1. events'[j] = events[j] /\ result'[j] = result[j]
      BY <1>1, <2>1, <2>3 DEF SkipCancelled, Terminate, bodyVars, IInv, SchedulerTypeOK, Send
    <3>2. \A v \in Workers : job[v] = j => v # w /\ pc'[v] = pc[v]
      BY <1>1, <2>1, <2>3 DEF SkipCancelled, Terminate, Goto, IInv, SchedulerTypeOK
    <3> QED BY <2>1, <3>1, <3>2 DEF EndsWithResult
  <2> QED BY <2>2, <2>3
<1>2. CASE SendState(w) \/ SendPrompt(w) \/ Return(w)
  <2>0. DOMAIN pc = Workers
    BY DEF IInv, SchedulerTypeOK
  <2>1. job[w] \in Jobs /\ job' = job /\ completion' = completion /\ pc'[w] # "complete"
    <3>1. pc[w] \in {"send", "prompt", "body"} /\ job' = job /\ completion' = completion
      BY <1>2 DEF SendState, SendPrompt, Return, channelVars
    <3>2. pc'[w] # "complete"
      BY <1>2, <2>0 DEF SendState, SendPrompt, Return, Goto
    <3>3. job[w] \in Jobs
      BY <3>1, HoldsJob
    <3> QED BY <3>1, <3>2, <3>3
  <2>2. CASE j = job[w]
    BY <2>1, <2>2, ConstantsAssumption DEF IInv, Holding, EndsWithResult
  <2>3. CASE j # job[w]
    <3>1. events'[j] = events[j] /\ result'[j] = result[j]
      BY <1>2, <2>1, <2>3 DEF SendState, SendPrompt, Return, bodyVars, channelVars, IInv,
         SchedulerTypeOK, Send
    <3>2. \A v \in Workers : job[v] = j => v # w /\ pc'[v] = pc[v]
      BY <1>2, <2>1, <2>3 DEF SendState, SendPrompt, Return, Goto, IInv, SchedulerTypeOK
    <3> QED BY <2>1, <3>1, <3>2 DEF EndsWithResult
  <2> QED BY <2>2, <2>3
<1>3. CASE Complete(w)
  <2>1. /\ job[w] \in Jobs /\ pc[w] = "complete"
        /\ events' = events /\ result' = result
    BY <1>3, HoldsJob DEF Complete, bodyVars
  <2>2. completion'[j] # completion[j] => j = job[w]
    BY <1>3, <2>1 DEF Complete, IInv, SchedulerTypeOK
  <2>3. \A v \in Workers : pc'[v] = "complete" => pc[v] = "complete" /\ job'[v] = job[v]
    BY <1>3 DEF Complete, Goto, IInv, SchedulerTypeOK
  <2> QED BY <2>1, <2>2, <2>3 DEF EndsWithResult
<1>4. CASE ~SkipCancelled(w) /\ ~Terminate(w) /\ ~SendState(w) /\ ~SendPrompt(w)
           /\ ~Return(w) /\ ~Complete(w)
  <2>1. UNCHANGED <<result, completion, events>>
    BY <1>4 DEF Running, Worker, SpuriousWakeup, Sleep, Exit, Pop, Accept, Start,
       Report, CallCheckpoint, Checkpoint, CallRequest, AnswerCancelled, TakeDecision,
       AwaitDecision, Resumed, Wait, bodyVars, channelVars
  <2>2. pc'[w] # "complete" /\ \A v \in Workers \ {w} : pc'[v] = pc[v] /\ job'[v] = job[v]
    BY <1>4 DEF Running, Worker, SpuriousWakeup, Sleep, Exit, Pop, Accept, Start,
       Report, CallCheckpoint, Checkpoint, CallRequest, AnswerCancelled, TakeDecision,
       AwaitDecision, Resumed, Wait, Goto, queue, IInv, SchedulerTypeOK
  <2> QED BY <2>1, <2>2 DEF EndsWithResult
<1> QED BY <1>1, <1>2, <1>3, <1>4

-----------------------------------------------------------------------------
(* The invariant.                                                          *)

\* The types, except that the undo records are those of operations (Recorded).
Typed ==
    /\ SchedulerTypeOK
    /\ order \in Seq(Jobs)
    /\ snap \in [Jobs -> JobStates]
    /\ prompt \in [Jobs -> 0..MaxPrompts]
    /\ undoStack \in Seq(Jobs)
    /\ undoes \in [Jobs -> Jobs \cup {NoJob}]
    /\ reserved \subseteq UndoJobs
    /\ polling \in BOOLEAN
    /\ ui \in {"idle", "submit", "drain", "receive", "finish"}
    /\ todo \in Seq(Jobs)
    /\ finished \in Seq(Jobs)
    /\ announced \subseteq Jobs
    /\ expiring \subseteq Jobs

\* An id is listed once, from submit on; while a submit runs no other handler does.
Listed ==
    /\ \A i, k \in DOMAIN order : order[i] = order[k] => i = k
    /\ Records \subseteq Submitted
    /\ \A j \in Jobs : task[j] = "submitting" =>
          ui = "submit" /\ \A k \in Jobs : task[k] = "submitting" => k = j

\* What was sent as the outcome of a job.
Answered ==
    /\ \A j \in Jobs : completion[j] # "none" => result[j] \in Results
    /\ \A j \in UndoJobs : result[j] # "CompletedWithIssues"

\* A poll visits the records it found, and announces each completion it received.
Polled ==
    /\ ui \in {"drain", "receive"} <=> todo # << >>
    /\ ui \in {"idle", "submit"} => finished = << >>
    /\ \A i \in DOMAIN todo : todo[i] \in Records
    /\ \A i \in DOMAIN finished : finished[i] \in Records \ announced
    /\ \A i, k \in DOMAIN finished : finished[i] = finished[k] => i = k
    /\ \A j \in Records : completion[j] = "received" <=>
          (j \in announced \/ \E i \in DOMAIN finished : finished[i] = j)
    /\ \A j \in announced : completion[j] = "received"

\* The record of each undo job is pending, or back, or spent, and only one of these.
Pending(k) == k \notin announced \/ result[k] = "Completed"

UndoKept ==
    /\ \A k \in UndoJobs \ announced : k \in Records \/ task[k] = "submitting" => k \in reserved
    /\ \A k \in UndoJobs : /\ undoes[k] \in announced \cup {NoJob}
                           /\ task[k] # "new" <=> undoes[k] # NoJob
    /\ \A i \in DOMAIN undoStack :
          /\ undoStack[i] \in announced
          /\ \A k \in UndoJobs : undoes[k] = undoStack[i] => ~Pending(k)
    /\ \A i, k \in DOMAIN undoStack : undoStack[i] = undoStack[k] => i = k
    /\ \A k, l \in UndoJobs : k # l /\ undoes[k] = undoes[l] /\ undoes[k] # NoJob /\ Pending(k)
          => ~Pending(l)
    /\ \A j \in announced : yields[j] =>
          (\E i \in DOMAIN undoStack : undoStack[i] = j)
             \/ \E k \in UndoJobs : undoes[k] = j /\ Pending(k)

\* What an announced job shows, also while events of it are still read.
Told ==
    /\ Unseen
    /\ \A j \in Jobs : completion[j] = "received" => EndsWithResult(j)
    /\ ui = "receive" => EndsWithResult(Head(todo))
    /\ \A j \in announced \cap Records :
          snap[j] = result[j] \/ (events[j] # << >> /\ ui = "drain" /\ j = Head(todo))

CInv == /\ IInv /\ Owned
        /\ Typed /\ Listed /\ Answered /\ Polled /\ UndoKept /\ Told
        /\ ActiveKeepsPolling

-----------------------------------------------------------------------------
(* Steps that leave the coordinator alone: workers, waits that end, and the*)
(* clicks that only call a JobController.                                  *)
Clicked ==
    \E j \in Jobs : \/ PauseClicked(j) \/ ResumeClicked(j) \/ CancelClicked(j) \/ CancelReturns(j)
                    \/ \E a \in Answers : DecisionClicked(j, a)

Quiet == UNCHANGED coordinatorVars /\ Moves /\ Settled

\* A click on Pause, Resume, Cancel or an answer leaves the records alone.
LEMMA ClickedIsQuiet == ASSUME IInv, Clicked PROVE Quiet /\ UNCHANGED <<task, completion, result, job>>
BY DEF Clicked, PauseClicked, ResumeClicked, CancelClicked, CancelReturns, DecisionClicked,
   Pause, Resume, Cancel, CancelNotify, Respond, Quiet, Moves, Settled, queueVars, workerVars,
   bodyVars, channelVars

\* The workers never touch the state of the coordinator.
LEMMA RunningIsQuiet ==
  ASSUME IInv, NEW w \in Workers, WorkerStep(w) \/ Wakeup(w)
  PROVE  Quiet
BY RunningMoves, RunningKeeps DEF WorkerStep, Wakeup, Running, Quiet

\* The parts of the invariant that no quiet step disturbs.
LEMMA QuietKeeps ==
  ASSUME CInv, IInv', Quiet
  PROVE  Listed' /\ Answered' /\ Polled' /\ UndoKept' /\ ActiveKeepsPolling'
<1>1. /\ UNCHANGED <<order, snap, undoStack, undoes, reserved, polling, todo, finished, ui, announced>>
      /\ Records' = Records
  BY DEF Quiet, coordinatorVars, recordVars, undoVars, pollVars, Records
<1>2. \A j \in Jobs : \/ task'[j] = task[j]
                      \/ task[j] = "queued" /\ task'[j] = "claimed"
  BY DEF Quiet, Moves
<1>3. \A j \in Jobs : \/ completion'[j] = completion[j]
                      \/ completion[j] = "none" /\ completion'[j] = "sent"
                         /\ result'[j] = result[j] /\ result[j] \in Results
  BY DEF Quiet, Moves
<1>4. \A j \in Jobs : completion[j] # "none" => result'[j] = result[j] /\ yields'[j] = yields[j]
  BY DEF Quiet, Settled
<1>5. Listed'
  BY <1>1, <1>2 DEF CInv, Listed, Submitted
<1>6. Answered'
  BY <1>3, <1>4, ConstantsAssumption DEF CInv, Answered, Quiet, Settled
<1>7. Polled'
  <2>1. \A j \in Jobs : completion'[j] = "received" <=> completion[j] = "received"
    BY <1>3
  <2>2. Records \subseteq Jobs /\ announced \subseteq Jobs
    BY DEF CInv, Records, Typed
  <2> QED BY <1>1, <2>1, <2>2 DEF CInv, Polled
<1>8. \A j \in announced : j \in Jobs /\ result'[j] = result[j] /\ yields'[j] = yields[j]
  BY <1>4 DEF CInv, Polled, Typed
<1>9. \A k \in UndoJobs : Pending(k)' = Pending(k)
  BY <1>1, <1>8 DEF Pending
<1>10. UndoKept'
  BY <1>1, <1>2, <1>8, <1>9, ConstantsAssumption DEF CInv, UndoKept
<1>11. ActiveKeepsPolling'
  BY <1>1 DEF CInv, ActiveKeepsPolling, Active, terminal
<1> QED BY <1>5, <1>6, <1>7, <1>10, <1>11

\* A worker sends nothing that stays when the channels are emptied at once.
LEMMA RunningUnseen ==
  ASSUME IInv, Unseen, NEW w \in Workers, Running(w)
  PROVE  Unseen'
<1>1. ~Buffered => events' = events
  BY DEF Running, Worker, SpuriousWakeup, Sleep, Exit, Pop, SkipCancelled, Accept, Start,
     SendState, Terminate, Complete, Report, CallCheckpoint, Checkpoint, CallRequest, SendPrompt,
     AnswerCancelled, TakeDecision, AwaitDecision, Resumed, Wait, Return, Send, channelVars
<1> QED BY <1>1 DEF Unseen

\* The types of the coordinator's own variables, when those are unchanged.
LEMMA TypeKept ==
  ASSUME CInv, IInv', UNCHANGED coordinatorVars
  PROVE  Typed'
BY DEF CInv, Typed, IInv, coordinatorVars, recordVars, undoVars, pollVars

\* The workers touch no channel of a job that was announced.
LEMMA RunningTold ==
  ASSUME CInv, NEW w \in Workers, WorkerStep(w) \/ Wakeup(w)
  PROVE  Told'
<1>1. /\ UNCHANGED <<order, snap, todo, ui, announced>>
      /\ Records' = Records
  BY DEF WorkerStep, Wakeup, coordinatorVars, recordVars, undoVars, pollVars, Records
<1>2. Running(w)
  BY DEF WorkerStep, Wakeup, Running
<1>3. Settled /\ SettledEvents /\ Moves
  BY <1>2, RunningKeeps, RunningMoves DEF CInv
<1>4. Unseen'
  BY <1>2, RunningUnseen DEF CInv, Told
<1>5. \A j \in Jobs : completion'[j] = "received" => EndsWithResult(j)'
  <2> SUFFICES ASSUME NEW j \in Jobs, completion'[j] = "received" PROVE EndsWithResult(j)'
    OBVIOUS
  <2>1. completion[j] = "received"
    BY <1>3 DEF Moves
  <2> QED BY <2>1, <1>2, RunningEnds DEF CInv, Told
<1>6. ui' = "receive" => EndsWithResult(Head(todo))'
  <2> SUFFICES ASSUME ui = "receive" PROVE EndsWithResult(Head(todo))'
    BY <1>1
  <2>1. Head(todo) \in Jobs
    BY DEF CInv, Polled, Typed
  <2>2. PICK j \in Jobs : j = Head(todo)
    BY <2>1
  <2>3. EndsWithResult(j)'
    BY <2>2, <1>2, RunningEnds DEF CInv, Told
  <2> QED BY <2>2, <2>3, <1>1
<1>7. \A j \in announced : /\ events'[j] = events[j] /\ result'[j] = result[j]
  BY <1>3 DEF Settled, SettledEvents, CInv, Polled, Typed
<1>8. \A j \in announced' \cap Records' :
          snap'[j] = result'[j] \/ (events'[j] # << >> /\ ui' = "drain" /\ j = Head(todo'))
  BY <1>1, <1>7 DEF CInv, Told
<1> QED BY <1>4, <1>5, <1>6, <1>8 DEF Told

\* A click touches no channel of a job whose completion was received.
LEMMA ClickedTold ==
  ASSUME CInv, Clicked
  PROVE  Told'
<1>1. /\ UNCHANGED <<order, snap, todo, ui, announced, completion, result>>
      /\ Records' = Records
  BY ClickedIsQuiet DEF CInv, Quiet, coordinatorVars, recordVars, undoVars, pollVars, Records
<1>2. ~Buffered => events' = events
  BY DEF Clicked, PauseClicked, ResumeClicked, CancelClicked, CancelReturns, DecisionClicked,
     Pause, Resume, Cancel, CancelNotify, Respond, Send, channelVars
<1>3. \/ events' = events
      \/ \E j \in Active, e \in {State("Paused"), State("Running"), State("Queued")} :
            ui = "idle" /\ Send(j, e)
  BY DEF Clicked, PauseClicked, ResumeClicked, CancelClicked, CancelReturns, DecisionClicked,
     Pause, Resume, Cancel, CancelNotify, Respond, channelVars, UIFree
<1>4. \A j \in Active : ui = "idle" => completion[j] # "received"
  BY SMTT(30) DEF CInv, Polled, Told, Answered, Active, terminal, Typed, Results
<1>5. \A j \in Jobs : completion[j] = "received" => events'[j] = events[j]
  BY <1>3, <1>4 DEF Send, CInv, IInv, SchedulerTypeOK
<1>6. ui = "receive" => events' = events
  BY DEF Clicked, PauseClicked, ResumeClicked, CancelClicked, CancelReturns, DecisionClicked,
     Cancel, CancelNotify, channelVars, UIFree
<1>7. job' = job /\ \A w \in Workers : pc'[w] = "complete" => pc[w] = "complete"
  <2>1. job' = job
    BY ClickedIsQuiet DEF CInv
  <2>2. (\E j \in Jobs : Wake(j)) \/ UNCHANGED pc
    BY DEF Clicked, PauseClicked, ResumeClicked, CancelClicked, CancelReturns, DecisionClicked,
       Pause, Resume, Cancel, CancelNotify, Respond, workerVars
  <2> QED BY <2>1, <2>2 DEF Wake
<1>8. Unseen'
  BY <1>2 DEF CInv, Told, Unseen
<1>9. \A j \in Jobs : completion'[j] = "received" => EndsWithResult(j)'
  BY <1>1, <1>5 DEF CInv, Told, EndsWithResult
<1>10. ui' = "receive" => EndsWithResult(Head(todo))'
  BY <1>1, <1>6, <1>7 DEF CInv, Told, EndsWithResult
<1>11. \A j \in announced : events'[j] = events[j]
  BY <1>5 DEF CInv, Polled, Typed
<1>12. \A j \in announced' \cap Records' :
          snap'[j] = result'[j] \/ (events'[j] # << >> /\ ui' = "drain" /\ j = Head(todo'))
  BY <1>1, <1>11 DEF CInv, Told
<1> QED BY <1>8, <1>9, <1>10, <1>12 DEF Told

-----------------------------------------------------------------------------
(* The scheduler's own invariants also hold under the coordinator.         *)
LEMMA SchedulerStep ==
  ASSUME CInv, [SchedulerNext]_schedulerVars
  PROVE  IInv' /\ Owned'
BY NextIInv, NextOwns DEF CInv

\* A step on the channels: messages are read, or go with their record.
LEMMA ChannelStep ==
  ASSUME CInv, UNCHANGED <<queueVars, controlVars, workerVars, bodyVars, drop>>,
         events' \in [Jobs -> Seq(EventType)],
         completion' \in [Jobs -> {"none", "sent", "received"}],
         \A j \in Jobs : completion'[j] = "none" <=> completion[j] = "none"
  PROVE  IInv' /\ Owned'
<1> USE DEF queueVars, controlVars, workerVars, bodyVars
<1>1. SchedulerTypeOK'
  BY DEF CInv, IInv, SchedulerTypeOK
<1>2. Holding' /\ Owned'
  BY ConstantsAssumption DEF CInv, IInv, SchedulerTypeOK, Holding, Owned
<1>3. Progressing' /\ Waiting'
  BY DEF CInv, IInv, Progressing, Waiting
<1>4. Starting' /\ Closing'
  BY DEF CInv, IInv, Starting, Closing, Submitted
<1> QED BY <1>1, <1>2, <1>3, <1>4 DEF IInv

-----------------------------------------------------------------------------
(* Submitting.                                                             *)

\* What both ways of submitting have in common.
LEMMA TicketStep ==
  ASSUME CInv, NEW j \in Jobs, UIFree, SubmitTicket(j), ui' = "submit",
         UNCHANGED <<recordVars, pollVars, announced, expiring>>
  PROVE  IInv' /\ Owned' /\ Listed' /\ Answered' /\ Polled' /\ Told' /\ ActiveKeepsPolling'
<1>1. IInv' /\ Owned'
  BY SchedulerStep DEF SchedulerNext, Client
<1>2. /\ UNCHANGED <<order, snap, polling, todo, finished, announced, completion, result>>
      /\ Records' = Records
  BY DEF SubmitTicket, recordVars, pollVars, bodyVars, Records
<1>3. /\ ui = "idle" /\ task[j] = "new" /\ completion[j] = "none"
      /\ task' = [task EXCEPT ![j] = "submitting"]
  BY DEF UIFree, SubmitTicket, CInv, IInv, Starting
<1>4. Listed'
  BY <1>2, <1>3 DEF CInv, Listed, Submitted, IInv, SchedulerTypeOK
<1>5. Answered'
  BY <1>2 DEF CInv, Answered
<1>6. Polled'
  BY <1>2, <1>3 DEF CInv, Polled
<1>7. \A k \in Jobs : k # j => events'[k] = events[k]
  BY DEF SubmitTicket, Send, CInv, IInv, SchedulerTypeOK
<1>8. Told'
  <2>1. Unseen'
    BY DEF SubmitTicket, Send, CInv, Told, Unseen
  <2>2. \A k \in Jobs : completion'[k] = "received" => EndsWithResult(k)'
    BY <1>2, <1>3, <1>7 DEF CInv, Told, EndsWithResult
  <2>3. \A k \in announced : k # j /\ k \in Jobs
    BY <1>3 DEF CInv, Polled, Typed
  <2>4. \A k \in announced' \cap Records' : snap'[k] = result'[k]
    BY <1>2, <1>3 DEF CInv, Told
  <2> QED BY <2>1, <2>2, <2>4 DEF Told
<1>9. ActiveKeepsPolling'
  BY DEF ActiveKeepsPolling
<1> QED BY <1>1, <1>4, <1>5, <1>6, <1>8, <1>9

\* Enqueue: an operation is no undo job.
LEMMA EnqueueStep ==
  ASSUME CInv, NEW j \in Jobs, Enqueue(j)
  PROVE  CInv'
<1>1. IInv' /\ Owned' /\ Listed' /\ Answered' /\ Polled' /\ Told' /\ ActiveKeepsPolling'
  BY TicketStep DEF Enqueue
<1>2. /\ UNCHANGED <<order, undoStack, undoes, reserved, announced, result, yields>>
      /\ Records' = Records
      /\ task' = [task EXCEPT ![j] = "submitting"]
      /\ j \notin UndoJobs
  BY DEF Enqueue, Operations, SubmitTicket, recordVars, undoVars, bodyVars, Records
<1>3. UndoKept'
  <2>1. \A k \in UndoJobs : task'[k] = task[k]
    BY <1>2, ConstantsAssumption DEF CInv, IInv, SchedulerTypeOK
  <2> QED BY <1>2, <2>1 DEF CInv, UndoKept, Pending
<1>4. Typed'
  BY <1>1 DEF CInv, Typed, IInv, Enqueue, recordVars, undoVars, pollVars
<1> QED BY <1>1, <1>3, <1>4 DEF CInv

\* EnqueueUndo: the top of the stack becomes the record of a pending undo job.
LEMMA EnqueueUndoStep ==
  ASSUME CInv, NEW j \in Jobs, EnqueueUndo(j)
  PROVE  CInv'
<1>1. IInv' /\ Owned' /\ Listed' /\ Answered' /\ Polled' /\ Told' /\ ActiveKeepsPolling'
  BY TicketStep DEF EnqueueUndo
<1> DEFINE n == Len(undoStack)
           e == undoStack[n]
<1>2. /\ UNCHANGED <<order, announced, result, yields>>
      /\ Records' = Records
      /\ task' = [task EXCEPT ![j] = "submitting"]
      /\ undoes' = [undoes EXCEPT ![j] = e]
      /\ reserved' = reserved \cup {j}
      /\ j \in UndoJobs
  BY DEF EnqueueUndo, SubmitTicket, recordVars, bodyVars, Records
<1>3. undoStack \in Seq(Jobs) /\ n \in Nat /\ n > 0 /\ n \in DOMAIN undoStack /\ e \in announced
  BY DEF EnqueueUndo, CInv, Typed, UndoKept
<1>4. /\ undoStack' \in Seq(Jobs) /\ DOMAIN undoStack' = 1..(n - 1)
      /\ \A i \in 1..(n - 1) : undoStack'[i] = undoStack[i]
  BY <1>3 DEF EnqueueUndo
<1>5. j \notin announced
  BY DEF EnqueueUndo, SubmitTicket, CInv, Polled, IInv, Starting, Typed
<1>6. /\ undoes'[j] = e /\ task'[j] = "submitting"
      /\ \A k \in UndoJobs \ {j} : undoes'[k] = undoes[k] /\ task'[k] = task[k]
      /\ \A k \in UndoJobs : Pending(k)' = Pending(k)
  BY <1>2, ConstantsAssumption DEF CInv, Typed, SchedulerTypeOK, Pending
<1>7. UndoKept'
  <2>1. \A k \in UndoJobs \ announced' : (k \in Records' \/ task'[k] = "submitting") => k \in reserved'
    BY <1>2, <1>6 DEF CInv, UndoKept
  <2>2. \A k \in UndoJobs : /\ undoes'[k] \in announced' \cup {NoJob}
                            /\ task'[k] # "new" <=> undoes'[k] # NoJob
    BY <1>2, <1>3, <1>6, ConstantsAssumption DEF CInv, UndoKept, Typed
  <2>3. \A i \in DOMAIN undoStack' :
          /\ undoStack'[i] \in announced'
          /\ \A k \in UndoJobs : undoes'[k] = undoStack'[i] => ~Pending(k)'
    <3> SUFFICES ASSUME NEW i \in 1..(n - 1)
                 PROVE /\ undoStack[i] \in announced
                       /\ \A k \in UndoJobs : undoes'[k] = undoStack[i] => ~Pending(k)
      BY <1>2, <1>4, <1>6
    <3>1. i \in DOMAIN undoStack /\ undoStack[i] # e
      BY <1>3 DEF CInv, UndoKept
    <3> QED BY <1>6, <3>1 DEF CInv, UndoKept
  <2>4. \A i, k \in DOMAIN undoStack' : undoStack'[i] = undoStack'[k] => i = k
    BY <1>3, <1>4 DEF CInv, UndoKept
  <2>5. \A k, l \in UndoJobs : k # l /\ undoes'[k] = undoes'[l] /\ undoes'[k] # NoJob /\ Pending(k)
          => ~Pending(l)
    BY <1>3, <1>6 DEF CInv, UndoKept
  <2>6. \A a \in announced : yields[a] =>
          \/ \E i \in DOMAIN undoStack' : undoStack'[i] = a
          \/ \E k \in UndoJobs : undoes'[k] = a /\ Pending(k)
    <3> SUFFICES ASSUME NEW a \in announced, yields[a]
                 PROVE \/ \E i \in DOMAIN undoStack' : undoStack'[i] = a
                       \/ \E k \in UndoJobs : undoes'[k] = a /\ Pending(k)
      OBVIOUS
    <3>1. CASE \E i \in DOMAIN undoStack : undoStack[i] = a
      <4>1. PICK i \in 1..n : undoStack[i] = a
        BY <1>3, <3>1
      <4>2. CASE i = n
        BY <4>1, <4>2, <1>2, <1>5, <1>6 DEF Pending
      <4>3. CASE i # n
        BY <4>1, <4>3, <1>3, <1>4
      <4> QED BY <4>2, <4>3
    <3>2. CASE \E k \in UndoJobs : undoes[k] = a /\ Pending(k)
      <4>1. PICK k \in UndoJobs : undoes[k] = a /\ Pending(k)
        BY <3>2
      <4>2. a # NoJob
        BY ConstantsAssumption DEF CInv, Typed
      <4>3. undoes[j] = NoJob
        BY <1>2 DEF EnqueueUndo, SubmitTicket, CInv, UndoKept
      <4> QED BY <4>1, <4>2, <4>3, <1>6
    <3> QED BY <3>1, <3>2 DEF CInv, UndoKept
  <2> QED BY <2>1, <2>2, <2>3, <2>4, <2>5, <2>6, <1>2, <1>6 DEF UndoKept
<1>8. Typed'
  BY <1>1, <1>2, <1>3, <1>4 DEF CInv, Typed, IInv, EnqueueUndo, recordVars, pollVars
<1> QED BY <1>1, <1>7, <1>8 DEF CInv

\* Enqueued: the record is appended, and a poll begins or goes on.
LEMMA EnqueuedStep ==
  ASSUME CInv, NEW j \in Jobs, Enqueued(j)
  PROVE  CInv'
<1>1. IInv' /\ Owned'
  BY SchedulerStep DEF Enqueued, SchedulerNext, Client
<1>2. /\ UNCHANGED <<undoStack, undoes, reserved, finished, announced, result, yields, completion, events>>
      /\ task[j] = "submitting" /\ ui = "submit"
      /\ task' = [task EXCEPT ![j] = "queued"]
      /\ order' = Append(order, j) /\ snap' = [snap EXCEPT ![j] = "Queued"]
      /\ polling' = TRUE
  BY DEF Enqueued, SubmitPush, undoVars, bodyVars, channelVars
<1>3. /\ order' \in Seq(Jobs) /\ Len(order') = Len(order) + 1
      /\ order'[Len(order) + 1] = j /\ \A i \in 1..Len(order) : order'[i] = order[i]
      /\ order' # << >> /\ DOMAIN order' = 1..(Len(order) + 1)
      /\ order \in Seq(Jobs) /\ Len(order) \in Nat /\ DOMAIN order = 1..Len(order)
  <2>1. order \in Seq(Jobs)
    BY DEF CInv, Typed
  <2>2. order' = Append(order, j)
    BY <1>2
  <2> QED BY <2>1, <2>2, AppendProperties
<1>4. Records' = Records \cup {j}
  <2>1. \A i \in DOMAIN order' : order'[i] \in Records \cup {j}
    BY <1>3 DEF Records
  <2>2. \A i \in DOMAIN order : i \in DOMAIN order' /\ order'[i] = order[i]
    BY <1>3
  <2>3. Len(order) + 1 \in DOMAIN order'
    BY <1>3
  <2> QED BY <1>3, <2>1, <2>2, <2>3 DEF Records
<1>5. j \notin Records /\ completion[j] = "none" /\ j \notin announced
  BY <1>2 DEF CInv, Listed, Submitted, IInv, Starting, Polled
<1>6. \A k \in Jobs \ {j} : task'[k] = task[k]
  BY <1>2 DEF CInv, IInv, SchedulerTypeOK
<1>7. task'[j] = "queued"
  BY <1>2 DEF CInv, IInv, SchedulerTypeOK
<1>8. \/ ui' = "idle" /\ todo' = todo
      \/ ui' = "drain" /\ todo' = order'
  BY <1>2, <1>3 DEF Enqueued, StartPoll
<1>9. Listed'
  <2>1. \A i, k \in DOMAIN order' : order'[i] = order'[k] => i = k
    BY <1>3, <1>5 DEF CInv, Listed, Records
  <2>2. Records' \subseteq Submitted'
    BY <1>4, <1>6, <1>7 DEF CInv, Listed, Submitted
  <2>3. \A k \in Jobs : task'[k] # "submitting"
    BY <1>2, <1>6, <1>7 DEF CInv, Listed
  <2> QED BY <2>1, <2>2, <2>3 DEF Listed
<1>10. Answered'
  BY <1>2 DEF CInv, Answered
<1>11. Polled'
  <2>1. finished = << >> /\ todo = << >>
    BY <1>2 DEF CInv, Polled
  <2>2. \A i \in DOMAIN todo' : todo'[i] \in Records'
    BY <1>8, <2>1 DEF CInv, Polled, Records
  <2>3. ui' \in {"drain", "receive"} <=> todo' # << >>
    BY <1>3, <1>8, <2>1
  <2>4. finished' = << >> /\ \A i \in DOMAIN finished' : FALSE
    BY <1>2, <2>1
  <2>5. \A k \in Records' : completion'[k] = "received" <=>
          (k \in announced' \/ \E i \in DOMAIN finished' : finished'[i] = k)
    BY <1>2, <1>4, <1>5, <2>1 DEF CInv, Polled
  <2> QED BY <1>2, <2>2, <2>3, <2>4, <2>5 DEF CInv, Polled
<1>12. UndoKept'
  <2>1. \A k \in UndoJobs : /\ (k \in Records' \/ task'[k] = "submitting") => (k \in Records \/ task[k] = "submitting")
                            /\ task'[k] # "new" <=> task[k] # "new"
    BY <1>2, <1>4, <1>6, <1>7, ConstantsAssumption
  <2>2. \A k \in UndoJobs : Pending(k)' = Pending(k)
    BY <1>2 DEF Pending
  <2> QED BY <1>2, <2>1, <2>2 DEF CInv, UndoKept
<1>13. Told'
  <2>1. \A k \in Records' \cap announced' : k \in Records /\ snap'[k] = snap[k]
    BY <1>2, <1>4, <1>5 DEF CInv, Typed
  <2>2. \A k \in Jobs : completion'[k] = "received" => EndsWithResult(k)'
    BY <1>2 DEF CInv, Told, EndsWithResult
  <2>3. Unseen'
    BY <1>2 DEF CInv, Told, Unseen
  <2> QED BY <1>2, <1>8, <2>1, <2>2, <2>3 DEF CInv, Told
<1>14. ActiveKeepsPolling'
  BY <1>2 DEF ActiveKeepsPolling
<1>15. Typed'
  <2>1. todo' \in Seq(Jobs) /\ ui' \in {"idle", "drain"}
    BY <1>3, <1>8 DEF CInv, Typed
  <2>2. snap' \in [Jobs -> JobStates] /\ prompt' \in [Jobs -> 0..MaxPrompts]
    BY ConstantsAssumption DEF CInv, Typed, Enqueued, JobStates
  <2> QED BY <1>1, <1>2, <1>3, <2>1, <2>2 DEF CInv, Typed, IInv, Enqueued
<1> QED BY <1>1, <1>9, <1>10, <1>11, <1>12, <1>13, <1>14, <1>15 DEF CInv

-----------------------------------------------------------------------------
(* Dismissing.                                                             *)

\* Without keeps all other elements in their order.
LEMMA WithoutProperties ==
  ASSUME NEW s \in Seq(Jobs), \A i, k \in DOMAIN s : s[i] = s[k] => i = k,
         NEW p \in DOMAIN s
  PROVE  /\ Without(s, s[p]) \in Seq(Jobs)
         /\ DOMAIN Without(s, s[p]) = 1..(Len(s) - 1)
         /\ \A i \in 1..(Len(s) - 1) : Without(s, s[p])[i] = s[IF i < p THEN i ELSE i + 1]
<1>1. (CHOOSE i \in DOMAIN s : s[i] = s[p]) = p
  OBVIOUS
<1>2. Without(s, s[p]) = [i \in 1..(Len(s) - 1) |-> s[IF i < p THEN i ELSE i + 1]]
  BY <1>1 DEF Without
<1>3. Len(s) \in Nat /\ DOMAIN s = 1..Len(s) /\ Len(s) - 1 \in Nat
  OBVIOUS
<1>4. \A i \in 1..(Len(s) - 1) : s[IF i < p THEN i ELSE i + 1] \in Jobs
  BY <1>3
<1>5. Without(s, s[p]) \in Seq(Jobs)
  BY <1>2, <1>3, <1>4, IsASeq
<1> QED BY <1>2, <1>5

\* RemoveRecord: nothing else refers to a record that goes.
LEMMA RemovalStep ==
  ASSUME CInv, UIFree, NEW j \in Records, RemoveRecord(j),
         UNCHANGED <<queueVars, controlVars, workerVars, bodyVars, completion, drop,
                     undoStack, undoes, pollVars, ui, announced>>,
         expiring' \subseteq Jobs
  PROVE  CInv'
<1>1. /\ UNCHANGED <<task, undoStack, undoes, finished, todo, announced, result, yields, completion, ui, polling>>
      /\ reserved' = reserved \ {j} /\ snap' = [snap EXCEPT ![j] = "Queued"]
      /\ prompt' = [prompt EXCEPT ![j] = 0]
      /\ events' = [events EXCEPT ![j] = << >>] /\ order' = Without(order, j)
      /\ ui = "idle"
  BY DEF RemoveRecord, UIFree, queueVars, pollVars, bodyVars
<1>2. j \in Jobs /\ order \in Seq(Jobs) /\ \A i, k \in DOMAIN order : order[i] = order[k] => i = k
  BY DEF CInv, Typed, Records, Listed
<1>3. PICK p \in DOMAIN order : order[p] = j
  BY DEF Records
<1>4. /\ order' \in Seq(Jobs)
      /\ DOMAIN order' = 1..(Len(order) - 1)
      /\ \A i \in 1..(Len(order) - 1) : order'[i] = order[IF i < p THEN i ELSE i + 1]
  BY <1>1, <1>2, <1>3, WithoutProperties
<1>5. Len(order) \in Nat /\ DOMAIN order = 1..Len(order)
  BY <1>2
<1>6. \A i \in DOMAIN order' : \E k \in DOMAIN order \ {p} : order'[i] = order[k]
  BY SMTT(30), <1>3, <1>4, <1>5
<1>7. Records' \subseteq Records \ {j}
  BY <1>2, <1>3, <1>6 DEF Records
<1>8. IInv' /\ Owned'
  <2>1. events' \in [Jobs -> Seq(EventType)]
    <3>1. events \in [Jobs -> Seq(EventType)] /\ << >> \in Seq(EventType)
      BY DEF CInv, IInv, SchedulerTypeOK
    <3>2. events' = [events EXCEPT ![j] = << >>]
      BY <1>1
    <3> HIDE DEF EventType
    <3> QED BY <3>1, <3>2
  <2> QED BY <2>1, <1>1, ChannelStep DEF CInv, IInv, SchedulerTypeOK
<1>9. Listed'
  <2>1. ASSUME NEW i \in DOMAIN order', NEW k \in DOMAIN order', order'[i] = order'[k] PROVE i = k
    <3> DEFINE at(n) == IF n < p THEN n ELSE n + 1
    <3>1. i \in 1..(Len(order) - 1) /\ k \in 1..(Len(order) - 1) /\ p \in 1..Len(order)
      BY <1>4, <1>5
    <3>2. order[at(i)] = order[at(k)]
      BY <2>1, <1>4, <3>1
    <3>3. at(i) \in DOMAIN order /\ at(k) \in DOMAIN order
      BY <1>5, <3>1
    <3>4. at(i) = at(k)
      BY <1>2, <3>2, <3>3
    <3> QED BY <1>5, <3>1, <3>4
  <2> QED BY <1>1, <1>7, <2>1 DEF CInv, Listed, Submitted
<1>10. Answered'
  BY <1>1 DEF CInv, Answered
<1>11. Polled'
  <2>1. finished = << >> /\ todo = << >>
    BY <1>1 DEF CInv, Polled
  <2>2. \A i \in DOMAIN todo' : todo'[i] \in Records'
    BY <1>1, <2>1
  <2>3. \A i \in DOMAIN finished' : FALSE
    BY <1>1, <2>1
  <2> QED BY <1>1, <1>7, <2>1, <2>2, <2>3 DEF CInv, Polled
<1>12. UndoKept'
  <2>1. j \notin Records' /\ task[j] # "submitting"
    BY <1>7 DEF CInv, Listed, Submitted
  <2>2. \A k \in UndoJobs : Pending(k)' = Pending(k)
    BY <1>1 DEF Pending
  <2> QED BY <1>1, <1>7, <2>1, <2>2 DEF CInv, UndoKept
<1>13. \A k \in Jobs \ {j} : snap'[k] = snap[k] /\ events'[k] = events[k]
  BY <1>1 DEF CInv, Typed, IInv, SchedulerTypeOK
<1>14. events'[j] = << >>
  BY <1>1, <1>2 DEF CInv, IInv, SchedulerTypeOK
<1>15. Told'
  <2>1. \A k \in Jobs : completion'[k] = "received" => EndsWithResult(k)'
    BY <1>1, <1>13, <1>14 DEF CInv, Told, EndsWithResult
  <2>2. Unseen'
    BY <1>13, <1>14 DEF CInv, Told, Unseen
  <2>3. \A k \in announced' \cap Records' : snap'[k] = result'[k]
    BY <1>1, <1>7, <1>13 DEF CInv, Told, Typed
  <2> QED BY <1>1, <2>1, <2>2, <2>3 DEF Told
<1>16. ActiveKeepsPolling'
  <2>1. Records \subseteq Jobs
    BY <1>2 DEF Records
  <2> QED BY <1>1, <1>7, <1>13, <2>1 DEF CInv, ActiveKeepsPolling, Active, terminal
<1>17. Typed'
  <2>1. reserved' \subseteq UndoJobs
    BY <1>1 DEF CInv, Typed
  <2>3. prompt' \in [Jobs -> 0..MaxPrompts]
    <3>1. prompt \in [Jobs -> 0..MaxPrompts] /\ 0 \in 0..MaxPrompts
      BY ConstantsAssumption DEF CInv, Typed
    <3> QED BY <1>1, <3>1
  <2>2. snap' \in [Jobs -> JobStates]
    BY <1>1 DEF CInv, Typed, JobStates
  <2> QED BY <1>1, <1>4, <1>8, <2>1, <2>2, <2>3 DEF CInv, Typed, IInv
<1> QED BY <1>8, <1>9, <1>10, <1>11, <1>12, <1>15, <1>16, <1>17 DEF CInv

\* Dismiss removes a record.
LEMMA DismissStep ==
  ASSUME CInv, NEW j \in Jobs, Dismiss(j)
  PROVE  CInv'
<1>1. expiring' \subseteq Jobs
  BY DEF Dismiss, CInv, Typed
<1> QED BY <1>1, RemovalStep DEF Dismiss

\* DismissExpired removes a record, or nothing.
LEMMA DismissExpiredStep ==
  ASSUME CInv, NEW j \in Jobs, DismissExpired(j)
  PROVE  CInv'
<1>1. expiring' \subseteq Jobs
  BY DEF DismissExpired, CInv, Typed
<1>2. CASE j \in Records /\ terminal(j)
  BY <1>1, <1>2, RemovalStep DEF DismissExpired
<1>3. CASE ~(j \in Records /\ terminal(j))
  <2>1. UNCHANGED <<schedulerVars, recordVars, undoVars, pollVars, ui, announced>>
    BY <1>3 DEF DismissExpired, schedulerVars, undoVars, channelVars
  <2>2. IInv' /\ Owned'
    BY <2>1, SchedulerStep
  <2> USE <2>1 DEF schedulerVars, recordVars, undoVars, pollVars, queueVars, workerVars, bodyVars,
                   channelVars
  <2>3. Listed' /\ Answered' /\ Polled' /\ ActiveKeepsPolling'
    BY DEF CInv, Listed, Answered, Polled, ActiveKeepsPolling, Records, Submitted, Active, terminal
  <2>4. UndoKept'
    BY DEF CInv, UndoKept, Records, Pending
  <2>5. Told'
    BY DEF CInv, Told, Unseen, EndsWithResult, Records
  <2>6. Typed'
    BY <1>1, <2>2 DEF CInv, Typed, IInv
  <2> QED BY <2>2, <2>3, <2>4, <2>5, <2>6 DEF CInv
<1> QED BY <1>2, <1>3

-----------------------------------------------------------------------------
(* Polling.                                                                *)

\* PollTimer: the poll will visit every record.
LEMMA PollTimerStep == ASSUME CInv, PollTimer PROVE CInv'
<1>1. /\ UNCHANGED <<schedulerVars, recordVars, undoVars, polling, finished, announced, expiring>>
      /\ ui = "idle" /\ todo' = order
      /\ \/ ui' = "finish" /\ order = << >>
         \/ ui' = "drain" /\ order # << >>
  BY DEF PollTimer, StartPoll, UIFree
<1>2. IInv' /\ Owned'
  BY <1>1, SchedulerStep
<1> USE <1>1 DEF schedulerVars, recordVars, undoVars, queueVars, workerVars, bodyVars, channelVars
<1>3. Listed' /\ Answered' /\ ActiveKeepsPolling'
  BY DEF CInv, Listed, Answered, ActiveKeepsPolling, Records, Submitted
<1>4. Polled'
  BY DEF CInv, Polled, Records
<1>5. UndoKept'
  BY DEF CInv, UndoKept, Records, Pending
<1>6. Told'
  BY DEF CInv, Told, Unseen, EndsWithResult, Records
<1>7. Typed'
  BY <1>2 DEF CInv, Typed, IInv
<1> QED BY <1>2, <1>3, <1>4, <1>5, <1>6, <1>7 DEF CInv

\* EndPoll: polling goes on exactly while a snapshot is active.
LEMMA EndPollStep == ASSUME CInv, EndPoll PROVE CInv'
<1>1. /\ UNCHANGED <<schedulerVars, recordVars, undoVars, todo, finished, announced, expiring>>
      /\ ui = "finish" /\ ui' = "idle" /\ finished = << >>
      /\ polling' = (Active # {})
  BY DEF EndPoll
<1>2. IInv' /\ Owned'
  BY <1>1, SchedulerStep
<1> USE <1>1 DEF schedulerVars, recordVars, undoVars, queueVars, workerVars, bodyVars, channelVars
<1>3. Listed' /\ Answered'
  BY DEF CInv, Listed, Answered, Records, Submitted
<1>8. ActiveKeepsPolling'
  BY DEF ActiveKeepsPolling, Active, terminal, Records
<1>4. Polled'
  BY DEF CInv, Polled, Records
<1>5. UndoKept'
  BY DEF CInv, UndoKept, Records, Pending
<1>6. Told'
  BY DEF CInv, Told, Unseen, EndsWithResult, Records
<1>7. Typed'
  BY <1>2 DEF CInv, Typed, IInv
<1> QED BY <1>2, <1>3, <1>4, <1>5, <1>6, <1>7, <1>8 DEF CInv

\* Drained: no event of the job is left when its completion is looked for.
LEMMA DrainedStep == ASSUME CInv, NEW j \in Jobs, Drained(j) PROVE CInv'
<1>1. /\ UNCHANGED <<schedulerVars, recordVars, undoVars, pollVars, announced, expiring>>
      /\ ui = "drain" /\ ui' = "receive" /\ events[j] = << >> /\ j = Head(todo)
  BY DEF Drained
<1>2. IInv' /\ Owned'
  BY <1>1, SchedulerStep
<1> USE <1>1 DEF schedulerVars, recordVars, undoVars, pollVars, queueVars, workerVars, bodyVars, channelVars
<1>3. Listed' /\ Answered' /\ ActiveKeepsPolling'
  BY DEF CInv, Listed, Answered, ActiveKeepsPolling, Records, Submitted
<1>4. Polled'
  BY DEF CInv, Polled, Records
<1>5. UndoKept'
  BY DEF CInv, UndoKept, Records, Pending
<1>6. Told'
  BY DEF CInv, Told, Unseen, EndsWithResult, Records
<1>7. Typed'
  BY <1>2 DEF CInv, Typed, IInv
<1> QED BY <1>2, <1>3, <1>4, <1>5, <1>6, <1>7 DEF CInv

\* ApplyEvent: the last event of an announced job shows its result again.
LEMMA ApplyEventStep == ASSUME CInv, NEW j \in Jobs, ApplyEvent(j) PROVE CInv'
<1> DEFINE e == Head(events[j])
<1>1. /\ UNCHANGED <<queueVars, controlVars, workerVars, bodyVars, completion, drop,
                     order, undoVars, pollVars, ui, announced, expiring>>
      /\ ui = "drain" /\ j = Head(todo) /\ events[j] # << >>
      /\ events' = [events EXCEPT ![j] = Tail(@)]
  BY DEF ApplyEvent
<1>2. events \in [Jobs -> Seq(EventType)] /\ events[j] \in Seq(EventType)
  BY DEF CInv, IInv, SchedulerTypeOK
<1>3. events' \in [Jobs -> Seq(EventType)] /\ events'[j] = Tail(events[j])
      /\ \A k \in Jobs \ {j} : events'[k] = events[k]
  <2>1. Tail(events[j]) \in Seq(EventType)
    BY <1>1, <1>2, HeadTailProperties
  <2> HIDE DEF EventType
  <2> QED BY <1>1, <1>2, <2>1
<1>4. IInv' /\ Owned'
  <2>1. completion' \in [Jobs -> {"none", "sent", "received"}]
    BY <1>1 DEF CInv, IInv, SchedulerTypeOK
  <2> QED BY <1>1, <1>3, <2>1, ChannelStep
<1>5. /\ e \in EventType
      /\ \/ e.tag = "Prompt" /\ snap' = snap /\ prompt' = [prompt EXCEPT ![j] = e.prompt]
         \/ e.tag # "Prompt" /\ snap' = [snap EXCEPT ![j] = e.tag]
            /\ prompt' = [prompt EXCEPT ![j] = IF e.tag = "Waiting" THEN @ ELSE 0]
  <2>1. e \in EventType
    BY <1>1, <1>2, HeadTailProperties
  <2> QED BY <2>1 DEF ApplyEvent
<1>6. /\ UNCHANGED <<task, result, yields, order, undoStack, undoes, reserved, polling, todo, finished>>
  BY <1>1 DEF queueVars, bodyVars, undoVars, pollVars
<1>7. Listed' /\ Answered' /\ ActiveKeepsPolling'
  BY <1>1, <1>6 DEF CInv, Listed, Answered, ActiveKeepsPolling, Records, Submitted
<1>8. Polled'
  BY <1>1, <1>6 DEF CInv, Polled, Records
<1>9. UndoKept'
  BY <1>1, <1>6 DEF CInv, UndoKept, Records, Pending
<1>10. completion[j] = "received" => EndsWithResult(j)' /\ (events'[j] = << >> => snap'[j] = result[j])
  <2> SUFFICES ASSUME completion[j] = "received"
               PROVE EndsWithResult(j)' /\ (events'[j] = << >> => snap'[j] = result[j])
    OBVIOUS
  <2>1. events[j][Len(events[j])] = State(result[j])
    BY <1>1 DEF CInv, Told, EndsWithResult
  <2>2. CASE events'[j] # << >>
    <3>1. events'[j][Len(events'[j])] = events[j][Len(events[j])]
      BY <1>1, <1>2, <1>3, <2>2, HeadTailProperties
    <3> QED BY <2>1, <2>2, <3>1, <1>6 DEF EndsWithResult
  <2>3. CASE events'[j] = << >>
    <3>1. Len(events[j]) = 1 /\ e = events[j][1]
      <4>1. Len(events'[j]) = 0
        BY <2>3
      <4>2. Len(events'[j]) = Len(events[j]) - 1
        BY <1>1, <1>2, <1>3, HeadTailProperties
      <4>3. Len(events[j]) \in Nat
        BY <1>2
      <4>6. Len(events[j]) - 1 = 0
        BY <4>1, <4>2
      <4>4. Len(events[j]) = 1
        BY <4>3, <4>6
      <4>5. Head(events[j]) = events[j][1]
        BY <1>1, <1>2, HeadTailProperties
      <4> QED BY <4>4, <4>5
    <3>2. e.tag = result[j] /\ result[j] \in Results
      BY <2>1, <3>1 DEF State, CInv, Answered
    <3>3. snap'[j] = result[j]
      BY <1>5, <3>2 DEF CInv, Typed, Results
    <3> QED BY <2>3, <3>3 DEF EndsWithResult
  <2> QED BY <2>2, <2>3
<1>11. Told'
  <2>1. Unseen'
    BY <1>1 DEF CInv, Told, Unseen
  <2>2. \A k \in Jobs : completion'[k] = "received" => EndsWithResult(k)'
    BY <1>1, <1>3, <1>6, <1>10 DEF CInv, Told, EndsWithResult
  <2>3. \A k \in Jobs \ {j} : snap'[k] = snap[k]
    BY <1>5 DEF CInv, Typed
  <2>4. \A k \in announced' \cap Records' :
          snap'[k] = result'[k] \/ (events'[k] # << >> /\ ui' = "drain" /\ k = Head(todo'))
    <3> SUFFICES ASSUME NEW k \in announced, k \in Records
                 PROVE snap'[k] = result[k] \/ (events'[k] # << >> /\ k = j)
      BY <1>1, <1>6 DEF Records
    <3>1. k \in Jobs /\ completion[k] = "received"
      BY DEF CInv, Polled, Typed
    <3>2. CASE k = j
      BY <3>1, <3>2, <1>10
    <3>3. CASE k # j
      BY <3>1, <3>3, <2>3, <1>1 DEF CInv, Told
    <3> QED BY <3>2, <3>3
  <2> QED BY <1>1, <2>1, <2>2, <2>4 DEF Told
<1>12. Typed'
  <2>1. e.prompt \in 0..MaxPrompts /\ 0 \in 0..MaxPrompts /\ e.tag \in JobStates \cup {"Prompt"}
    BY <1>5, ConstantsAssumption DEF EventType
  <2>2. snap' \in [Jobs -> JobStates]
    BY <1>5, <2>1 DEF CInv, Typed
  <2>3. prompt' \in [Jobs -> 0..MaxPrompts]
    BY <1>5, <2>1 DEF CInv, Typed
  <2> QED BY <1>1, <1>4, <1>6, <2>2, <2>3 DEF CInv, Typed, IInv
<1> QED BY <1>4, <1>7, <1>8, <1>9, <1>11, <1>12 DEF CInv

\* Receive: a completion is received once.
LEMMA ReceiveStep == ASSUME CInv, NEW j \in Jobs, Receive(j) PROVE CInv'
<1>1. /\ UNCHANGED <<queueVars, controlVars, workerVars, bodyVars, events, drop,
                     recordVars, undoVars, polling, announced, expiring>>
      /\ ui = "receive" /\ j = Head(todo) /\ todo' = Tail(todo)
      /\ \/ ui' = "finish" /\ todo' = << >>
         \/ ui' = "drain" /\ todo' # << >>
      /\ \/ /\ completion[j] = "sent" /\ completion' = [completion EXCEPT ![j] = "received"]
            /\ finished' = Append(finished, j)
         \/ completion[j] # "sent" /\ UNCHANGED <<completion, finished>>
  BY DEF Receive
<1>2. /\ todo # << >> /\ todo \in Seq(Jobs) /\ finished \in Seq(Jobs)
      /\ completion \in [Jobs -> {"none", "sent", "received"}]
      /\ DOMAIN finished = 1..Len(finished) /\ Len(finished) \in Nat
  <2>1. /\ todo # << >> /\ todo \in Seq(Jobs) /\ finished \in Seq(Jobs)
    BY <1>1 DEF CInv, Polled, Typed
  <2>2. completion \in [Jobs -> {"none", "sent", "received"}]
    BY DEF CInv, IInv, SchedulerTypeOK
  <2> QED BY <2>1, <2>2
<1>3. /\ j \in Records /\ todo' \in Seq(Jobs)
      /\ \A i \in DOMAIN todo' : todo'[i] \in Records
  <2>1. j \in Records
    BY <1>1, <1>2 DEF CInv, Polled
  <2>2. Tail(todo) \in Seq(Jobs) /\ Len(Tail(todo)) = Len(todo) - 1 /\ Len(todo) \in Nat
    BY <1>2, HeadTailProperties
  <2>3. \A i \in 1..Len(Tail(todo)) : Tail(todo)[i] = todo[i + 1] /\ i + 1 \in DOMAIN todo
    BY <1>2, <2>2, HeadTailProperties
  <2>4. DOMAIN Tail(todo) = 1..Len(Tail(todo))
    BY <2>2
  <2>5. \A i \in DOMAIN Tail(todo) : Tail(todo)[i] \in Records
    BY <2>3, <2>4 DEF CInv, Polled
  <2> QED BY <1>1, <2>1, <2>2, <2>5
<1>4. /\ completion' \in [Jobs -> {"none", "sent", "received"}]
      /\ \A k \in Jobs \ {j} : completion'[k] = completion[k]
      /\ \A k \in Jobs : completion'[k] = "none" <=> completion[k] = "none"
  BY <1>1, <1>2
<1>5. IInv' /\ Owned'
  <2>1. events' \in [Jobs -> Seq(EventType)]
    BY <1>1 DEF CInv, IInv, SchedulerTypeOK
  <2> QED BY <1>1, <1>4, <2>1, ChannelStep
<1>6. /\ UNCHANGED <<task, result, yields, order, snap, undoStack, undoes, reserved>>
      /\ Records' = Records
  BY <1>1 DEF queueVars, bodyVars, undoVars, recordVars, Records
<1>7. Listed' /\ ActiveKeepsPolling'
  BY <1>1, <1>6 DEF CInv, Listed, ActiveKeepsPolling, Submitted
<1>8. Answered'
  BY <1>4, <1>6 DEF CInv, Answered
<1>9. UndoKept'
  BY <1>1, <1>6 DEF CInv, UndoKept, Pending
<1>10. Polled'
  <2>1. CASE completion[j] = "sent"
    <3>1. j \notin announced /\ \A i \in DOMAIN finished : finished[i] # j
      BY <2>1, <1>3 DEF CInv, Polled
    <3>2. /\ DOMAIN finished' = 1..(Len(finished) + 1) /\ finished'[Len(finished) + 1] = j
          /\ \A i \in 1..Len(finished) : finished'[i] = finished[i]
      <4>1. finished' = Append(finished, j)
        BY <1>1, <2>1
      <4> QED BY <4>1, <1>2, AppendProperties
    <3>3. completion'[j] = "received"
      BY <1>1, <1>2, <2>1
    <3>4. \A i \in DOMAIN finished' : finished'[i] \in Records \ announced
      BY <1>2, <1>3, <3>1, <3>2 DEF CInv, Polled
    <3>5. \A i, k \in DOMAIN finished' : finished'[i] = finished'[k] => i = k
      BY <1>2, <3>1, <3>2 DEF CInv, Polled
    <3>6. \A k \in Jobs : (\E i \in DOMAIN finished' : finished'[i] = k)
                            <=> (k = j \/ \E i \in DOMAIN finished : finished[i] = k)
      <4>1. \A i \in DOMAIN finished : i \in DOMAIN finished' /\ finished'[i] = finished[i]
        BY <1>2, <3>2
      <4>2. \A i \in DOMAIN finished' : i \in DOMAIN finished \/ finished'[i] = j
        BY <1>2, <3>2
      <4>3. Len(finished) + 1 \in DOMAIN finished'
        BY <1>2, <3>2
      <4> QED BY <3>2, <4>1, <4>2, <4>3
    <3>7. \A k \in Records : completion'[k] = "received" <=>
            (k \in announced \/ \E i \in DOMAIN finished' : finished'[i] = k)
      <4>1. Records \subseteq Jobs
        BY DEF Records, CInv, Typed
      <4> QED BY <4>1, <1>4, <3>3, <3>6 DEF CInv, Polled
    <3>8. \A k \in announced : completion'[k] = "received"
      BY <1>4, <3>3 DEF CInv, Polled, Typed
    <3> QED BY <1>1, <1>3, <1>6, <3>4, <3>5, <3>7, <3>8 DEF Polled
  <2>2. CASE completion[j] # "sent"
    BY <2>2, <1>1, <1>3, <1>6 DEF CInv, Polled
  <2> QED BY <2>1, <2>2
<1>11. Told'
  <2>1. Unseen'
    BY <1>1 DEF CInv, Told, Unseen
  <2>2. \A k \in Jobs : completion'[k] = "received" => EndsWithResult(k)'
    <3>1. EndsWithResult(j)
      BY <1>1 DEF CInv, Told
    <3>2. \A k \in Jobs : completion'[k] = "received" => EndsWithResult(k)
      BY <1>4, <3>1 DEF CInv, Told
    <3> QED BY <1>1, <1>4, <1>6, <3>2 DEF EndsWithResult
  <2>3. \A k \in announced' \cap Records' : snap'[k] = result'[k]
    BY <1>1, <1>6 DEF CInv, Told
  <2> QED BY <1>1, <2>1, <2>2, <2>3 DEF Told
<1>12. Typed'
  <2>1. finished' \in Seq(Jobs)
    <3>1. finished' = finished \/ finished' = Append(finished, j)
      BY <1>1
    <3>2. finished \in Seq(Jobs)
      BY <1>2
    <3>3. Append(finished, j) \in Seq(Jobs)
      BY <3>2
    <3> QED BY <3>1, <3>2, <3>3
  <2> QED BY <1>1, <1>3, <1>5, <2>1 DEF CInv, Typed, IInv, recordVars, undoVars
<1> QED BY <1>5, <1>7, <1>8, <1>9, <1>10, <1>11, <1>12 DEF CInv

Elements(s) == {s[i] : i \in DOMAIN s}
Distinct(s) == \A i, k \in DOMAIN s : s[i] = s[k] => i = k

\* A new element is appended to a sequence of different ones.
LEMMA Push ==
  ASSUME NEW s \in Seq(Jobs), Distinct(s), NEW a \in Jobs \ Elements(s)
  PROVE  s \o <<a>> \in Seq(Jobs) /\ Distinct(s \o <<a>>) /\ Elements(s \o <<a>>) = Elements(s) \cup {a}
<1> DEFINE t == s \o <<a>>
<1>1. /\ t \in Seq(Jobs) /\ Len(s) \in Nat /\ DOMAIN s = 1..Len(s)
      /\ Len(t) = Len(s) + 1
      /\ \A i \in 1..Len(s) : t[i] = s[i]
      /\ t[Len(s) + 1] = a
  <2>1. <<a>> \in Seq(Jobs) /\ Len(<<a>>) = 1 /\ <<a>>[1] = a /\ Len(s) \in Nat /\ DOMAIN s = 1..Len(s)
    OBVIOUS
  <2>2. /\ t \in Seq(Jobs) /\ Len(t) = Len(s) + 1
        /\ \A i \in 1..(Len(s) + 1) : t[i] = IF i <= Len(s) THEN s[i] ELSE <<a>>[i - Len(s)]
    BY <2>1, ConcatProperties
  <2>3. t[Len(s) + 1] = a
    BY <2>1, <2>2
  <2>4. \A i \in 1..Len(s) : t[i] = s[i]
    BY <2>1, <2>2
  <2> QED BY <2>1, <2>2, <2>3, <2>4
<1>2. DOMAIN t = 1..(Len(s) + 1)
  BY <1>1
<1> HIDE DEF t
<1>3. \A i \in DOMAIN t : t[i] \in Elements(s) \cup {a}
  BY <1>1, <1>2 DEF Elements
<1>4. \A i \in DOMAIN s : i \in DOMAIN t /\ t[i] = s[i]
  BY <1>1, <1>2
<1>5. Len(s) + 1 \in DOMAIN t
  BY <1>1, <1>2
<1>6. Elements(t) = Elements(s) \cup {a}
  BY <1>1, <1>3, <1>4, <1>5 DEF Elements
<1>7. Distinct(t)
  BY <1>1, <1>2 DEF Distinct, Elements
<1> QED BY <1>1, <1>6, <1>7 DEF t

\* Finish: the undo record of an undo job that failed comes back, after the one the
\* job itself yielded.
LEMMA FinishUndo ==
  ASSUME CInv, NEW j \in Jobs, Finish(j)
  PROVE  /\ UndoKept' /\ undoStack' \in Seq(Jobs)
         /\ \A i \in DOMAIN undoStack' :
               \/ undoStack'[i] \in {undoStack[n] : n \in DOMAIN undoStack}
               \/ yields[j] /\ undoStack'[i] = j
               \/ undoStack'[i] = undoes[j] /\ undoes[j] \in announced
<1> DEFINE own  == IF yields[j] THEN <<j>> ELSE << >>
           restored == j \in reserved /\ result[j] \in {"Cancelled", "Failed"}
           back == IF restored THEN <<undoes[j]>> ELSE << >>
           New == (IF yields[j] THEN {j} ELSE {}) \cup (IF restored THEN {undoes[j]} ELSE {})
           Stack == {undoStack[i] : i \in DOMAIN undoStack}
<1>1. /\ UNCHANGED <<task, order, undoes, result, yields>>
      /\ Records' = Records
      /\ announced' = announced \cup {j}
      /\ reserved' = IF restored THEN reserved \ {j} ELSE reserved
      /\ undoStack' = undoStack \o own \o back
      /\ finished # << >> /\ j = Head(finished)
  BY DEF Finish, schedulerVars, queueVars, bodyVars, Records
<1>2. j \in Records /\ j \notin announced /\ result[j] \in Results
  <2>1. 1 \in DOMAIN finished /\ finished[1] = j
    BY <1>1 DEF CInv, Typed
  <2>2. j \in Records \ announced
    BY <2>1 DEF CInv, Polled
  <2>3. completion[j] = "received"
    BY <2>1, <2>2 DEF CInv, Polled
  <2> QED BY <2>2, <2>3 DEF CInv, Answered
<1>3. undoStack \in Seq(Jobs) /\ Stack \subseteq announced /\ announced \subseteq Jobs
  BY DEF CInv, Typed, UndoKept
<1>4. restored => j \in UndoJobs /\ undoes[j] \in announced
  <2> SUFFICES ASSUME restored PROVE j \in UndoJobs /\ undoes[j] \in announced
    OBVIOUS
  <2>1. j \in UndoJobs
    BY DEF CInv, Typed
  <2>2. task[j] # "new"
    BY <1>2 DEF CInv, Listed, Submitted
  <2> QED BY <2>1, <2>2 DEF CInv, UndoKept
<1>5. j \notin Stack /\ (restored => undoes[j] \notin Stack /\ undoes[j] # j)
  BY <1>2, <1>3, <1>4 DEF CInv, UndoKept, Pending
<1>6. j \in Jobs /\ Distinct(undoStack) /\ Stack = Elements(undoStack)
  BY <1>2 DEF CInv, Typed, Records, UndoKept, Distinct, Elements
<1>7. /\ undoStack \o own \in Seq(Jobs) /\ Distinct(undoStack \o own)
      /\ Elements(undoStack \o own) = Stack \cup (IF yields[j] THEN {j} ELSE {})
  <2>1. CASE yields[j]
    BY <2>1, <1>3, <1>5, <1>6, Push
  <2>2. CASE ~yields[j]
    <3>1. undoStack \o own = undoStack
      BY <2>2, <1>3
    <3> QED BY <2>2, <3>1, <1>3, <1>6
  <2> QED BY <2>1, <2>2
<1>8. /\ undoStack' \in Seq(Jobs) /\ Distinct(undoStack')
      /\ Elements(undoStack') = Stack \cup New
  <2> DEFINE s == undoStack \o own
  <2> HIDE DEF own
  <2>1. CASE restored
    <3>1. undoes[j] \in Jobs \ Elements(s)
      BY <2>1, <1>3, <1>4, <1>5, <1>7
    <3>2. undoStack' = s \o <<undoes[j]>>
      BY <2>1, <1>1
    <3>3. /\ s \in Seq(Jobs) /\ Distinct(s)
          /\ Elements(s) = Stack \cup (IF yields[j] THEN {j} ELSE {})
      BY <1>7
    <3>4. New = (IF yields[j] THEN {j} ELSE {}) \cup {undoes[j]}
      BY <2>1
    <3> HIDE DEF s, New, Stack
    <3>5. /\ undoStack' \in Seq(Jobs) /\ Distinct(undoStack')
          /\ Elements(undoStack') = Elements(s) \cup {undoes[j]}
      BY <3>1, <3>2, <3>3, Push
    <3> QED BY <3>3, <3>4, <3>5
  <2>2. CASE ~restored
    <3>1. undoStack' = s
      BY <2>2, <1>1, <1>7
    <3> QED BY <2>2, <3>1, <1>7
  <2> QED BY <2>1, <2>2
<1>9. \A k \in UndoJobs \ {j} : Pending(k)' = Pending(k)
  BY <1>1 DEF Pending
<1>10. /\ j \in UndoJobs => Pending(j)
       /\ Pending(j)' <=> result[j] = "Completed"
  BY <1>1, <1>2 DEF Pending
<1>11. j \in UndoJobs => IF restored THEN ~Pending(j)' ELSE Pending(j)'
  <2> SUFFICES ASSUME j \in UndoJobs
               PROVE IF restored THEN ~Pending(j)' ELSE Pending(j)'
    OBVIOUS
  <2>1. j \in reserved
    BY <1>2 DEF CInv, UndoKept
  <2>2. result[j] \in {"Completed", "Cancelled", "Failed"}
    BY <1>2 DEF CInv, Answered, Results
  <2> QED BY <2>1, <2>2, <1>10
<1>12. \A k \in UndoJobs : undoes[k] # j
  BY <1>2, <1>6, ConstantsAssumption DEF CInv, UndoKept
<1>13. UndoKept'
  <2>1. \A k \in UndoJobs \ announced' : (k \in Records' \/ task'[k] = "submitting") => k \in reserved'
    BY <1>1 DEF CInv, UndoKept
  <2>2. \A k \in UndoJobs : /\ undoes'[k] \in announced' \cup {NoJob}
                            /\ task'[k] # "new" <=> undoes'[k] # NoJob
    BY <1>1 DEF CInv, UndoKept
  <2>3. \A e \in Elements(undoStack') :
          /\ e \in announced'
          /\ \A k \in UndoJobs : undoes'[k] = e => ~Pending(k)'
    <3>1. ASSUME NEW e \in Stack
          PROVE e \in announced' /\ \A k \in UndoJobs : undoes'[k] = e => ~Pending(k)'
      BY <3>1, <1>1, <1>3, <1>9, <1>10 DEF CInv, UndoKept
    <3>2. j \in announced' /\ \A k \in UndoJobs : undoes'[k] # j
      BY <1>1, <1>12
    <3>3. restored => undoes[j] \in announced' /\ \A k \in UndoJobs : undoes'[k] = undoes[j] => ~Pending(k)'
      <4> SUFFICES ASSUME restored, NEW k \in UndoJobs, undoes[k] = undoes[j]
                   PROVE ~Pending(k)'
        BY <1>1, <1>4
      <4>1. CASE k = j
        BY <4>1, <1>4, <1>11
      <4>2. CASE k # j
        <5>1. undoes[j] # NoJob
          BY <1>3, <1>4, ConstantsAssumption
        <5>2. ~Pending(k)
          BY <4>2, <5>1, <1>4, <1>10 DEF CInv, UndoKept
        <5> QED BY <4>2, <5>2, <1>9
      <4> QED BY <4>1, <4>2
    <3> QED BY <3>1, <3>2, <3>3, <1>8
  <2>4. \A k, l \in UndoJobs : k # l /\ undoes'[k] = undoes'[l] /\ undoes'[k] # NoJob /\ Pending(k)'
          => ~Pending(l)'
    BY <1>1, <1>9, <1>10 DEF CInv, UndoKept
  <2>5. \A a \in announced' : yields'[a] =>
          \/ a \in Elements(undoStack')
          \/ \E k \in UndoJobs : undoes'[k] = a /\ Pending(k)'
    <3> SUFFICES ASSUME NEW a \in announced \cup {j}, yields[a]
                 PROVE \/ a \in Elements(undoStack')
                       \/ \E k \in UndoJobs : undoes[k] = a /\ Pending(k)'
      BY <1>1
    <3>1. CASE a = j
      BY <3>1, <1>8
    <3>2. CASE a \in Stack
      BY <3>2, <1>8
    <3>3. CASE \E k \in UndoJobs : undoes[k] = a /\ Pending(k)
      <4>1. PICK k \in UndoJobs : undoes[k] = a /\ Pending(k)
        BY <3>3
      <4>2. CASE k = j
        BY <4>1, <4>2, <1>8, <1>11
      <4>3. CASE k # j
        BY <4>1, <4>3, <1>9
      <4> QED BY <4>2, <4>3
    <3> QED BY <3>1, <3>2, <3>3 DEF CInv, UndoKept
  <2> QED BY <2>1, <2>2, <2>3, <2>4, <2>5, <1>8 DEF UndoKept, Elements, Distinct
<1>14. \A i \in DOMAIN undoStack' : undoStack'[i] \in Stack \cup New
  BY <1>8 DEF Elements
<1> QED BY <1>4, <1>8, <1>13, <1>14

\* Finish: the job is announced and its snapshot shows its result.
LEMMA FinishStep == ASSUME CInv, NEW j \in Jobs, Finish(j) PROVE CInv'
<1>1. /\ UNCHANGED <<schedulerVars, order, undoes, polling, todo, ui>>
      /\ ui = "finish" /\ finished # << >> /\ j = Head(finished)
      /\ finished' = Tail(finished)
      /\ snap' = [snap EXCEPT ![j] = result[j]] /\ prompt' = [prompt EXCEPT ![j] = 0]
      /\ announced' = announced \cup {j}
      /\ expiring' \in {expiring, expiring \cup {j}}
      /\ reserved' \in {reserved, reserved \ {j}}
  BY DEF Finish
<1>2. IInv' /\ Owned'
  BY <1>1, SchedulerStep
<1>3. UndoKept' /\ undoStack' \in Seq(Jobs)
  BY FinishUndo
<1>4. /\ UNCHANGED <<task, result, completion, events, pc, job>>
      /\ Records' = Records
  BY <1>1 DEF schedulerVars, queueVars, workerVars, bodyVars, channelVars, Records
<1>5. /\ finished \in Seq(Jobs) /\ Len(finished) \in Nat /\ DOMAIN finished = 1..Len(finished)
      /\ 1 \in DOMAIN finished /\ finished[1] = j
  BY <1>1 DEF CInv, Typed
<1>6. /\ finished' \in Seq(Jobs) /\ DOMAIN finished' = 1..(Len(finished) - 1)
      /\ \A i \in 1..(Len(finished) - 1) : finished'[i] = finished[i + 1]
  <2>1. Tail(finished) \in Seq(Jobs) /\ Len(Tail(finished)) = Len(finished) - 1
    BY <1>1, <1>5, HeadTailProperties
  <2>2. \A i \in 1..Len(Tail(finished)) : Tail(finished)[i] = finished[i + 1]
    BY <1>1, <1>5, HeadTailProperties
  <2> QED BY <1>1, <2>1, <2>2
<1>7. j \in Records /\ j \notin announced /\ completion[j] = "received"
  BY <1>5 DEF CInv, Polled
<1>8. Listed' /\ Answered' /\ ActiveKeepsPolling'
  BY <1>1, <1>4 DEF CInv, Listed, Answered, ActiveKeepsPolling, Submitted
<1>9. Polled'
  <2>1. \A i \in DOMAIN finished' : i + 1 \in DOMAIN finished /\ finished'[i] = finished[i + 1] /\ i + 1 # 1
    BY <1>5, <1>6
  <2>2. \A i \in DOMAIN finished' : finished'[i] \in Records /\ finished'[i] \notin announced /\ finished'[i] # j
    BY <1>5, <2>1 DEF CInv, Polled
  <2>3. \A i, k \in DOMAIN finished' : finished'[i] = finished'[k] => i = k
    <3> SUFFICES ASSUME NEW i \in DOMAIN finished', NEW k \in DOMAIN finished', finished'[i] = finished'[k]
                 PROVE i = k
      OBVIOUS
    <3>1. i + 1 = k + 1
      BY <2>1 DEF CInv, Polled
    <3> QED BY <3>1, <1>5, <1>6
  <2>4. \A k \in Jobs \ {j} : (\E i \in DOMAIN finished : finished[i] = k)
                              => \E i \in DOMAIN finished' : finished'[i] = k
    <3> SUFFICES ASSUME NEW i \in DOMAIN finished, finished[i] # j
                 PROVE \E n \in DOMAIN finished' : finished'[n] = finished[i]
      OBVIOUS
    <3>1. i \in 1..Len(finished) /\ i # 1
      BY <1>5
    <3>2. i - 1 \in 1..(Len(finished) - 1) /\ (i - 1) + 1 = i
      BY <1>5, <3>1
    <3> QED BY <1>6, <3>2
  <2>5. \A k \in Records : completion[k] = "received" <=>
          (k \in announced' \/ \E i \in DOMAIN finished' : finished'[i] = k)
    <3> SUFFICES ASSUME NEW k \in Records
                 PROVE completion[k] = "received" <=>
                        (k \in announced' \/ \E i \in DOMAIN finished' : finished'[i] = k)
      OBVIOUS
    <3>1. k \in Jobs
      BY DEF Records, CInv, Typed
    <3>2. (\E i \in DOMAIN finished' : finished'[i] = k) => \E i \in DOMAIN finished : finished[i] = k
      BY <2>1
    <3>3. completion[k] = "received" <=> (k \in announced \/ \E i \in DOMAIN finished : finished[i] = k)
      BY DEF CInv, Polled
    <3> QED BY <1>1, <1>7, <2>4, <3>1, <3>2, <3>3
  <2>6. \A k \in announced' : completion[k] = "received"
    BY <1>1, <1>7 DEF CInv, Polled
  <2>7. /\ ui' \in {"drain", "receive"} <=> todo' # << >>
        /\ ui' \notin {"idle", "submit"}
        /\ \A i \in DOMAIN todo' : todo'[i] \in Records
    BY <1>1 DEF CInv, Polled
  <2> QED BY <1>1, <1>4, <2>2, <2>3, <2>5, <2>6, <2>7 DEF Polled
<1>10. Told'
  <2>1. Unseen' /\ \A k \in Jobs : completion'[k] = "received" => EndsWithResult(k)'
    BY <1>4 DEF CInv, Told, Unseen, EndsWithResult
  <2>2. snap'[j] = result[j] /\ \A k \in Jobs \ {j} : snap'[k] = snap[k]
    BY <1>1 DEF CInv, Typed
  <2>3. \A k \in announced' \cap Records' : snap'[k] = result'[k]
    <3> SUFFICES ASSUME NEW k \in announced \cup {j}, k \in Records
                 PROVE snap'[k] = result[k]
      BY <1>1, <1>4
    <3>1. CASE k = j
      BY <2>2, <3>1
    <3>2. CASE k # j
      <4>1. k \in announced /\ k \in Jobs
        BY <3>2 DEF CInv, Typed
      <4> QED BY <3>2, <4>1, <2>2, <1>1 DEF CInv, Told
    <3> QED BY <3>1, <3>2
  <2> QED BY <1>1, <2>1, <2>3 DEF Told
<1>11. Typed'
  <2>1. result[j] \in JobStates
    BY <1>7 DEF CInv, Answered, JobStates
  <2>2. snap' \in [Jobs -> JobStates]
    BY <1>1, <2>1 DEF CInv, Typed
  <2>3. prompt' \in [Jobs -> 0..MaxPrompts]
    <3>1. prompt \in [Jobs -> 0..MaxPrompts] /\ 0 \in 0..MaxPrompts
      BY ConstantsAssumption DEF CInv, Typed
    <3> QED BY <1>1, <3>1
  <2>4. reserved' \subseteq UndoJobs /\ expiring' \subseteq Jobs /\ announced' \subseteq Jobs
    BY <1>1 DEF CInv, Typed
  <2> QED BY <1>1, <1>2, <1>3, <1>6, <2>2, <2>3, <2>4 DEF CInv, Typed, IInv
<1> QED BY <1>2, <1>3, <1>8, <1>9, <1>10, <1>11 DEF CInv

-----------------------------------------------------------------------------
(* The invariant holds always.                                             *)

\* The invariant holds at the start.
LEMMA InitCInv == CoordinatorInit => CInv
<1> SUFFICES ASSUME CoordinatorInit PROVE CInv
  OBVIOUS
<1>1. IInv /\ Owned
  BY InitIInv DEF CoordinatorInit, SchedulerInit, Owned
<1>2. Records = {}
  BY DEF CoordinatorInit, Records
<1>3. Typed
  <2>1. prompt \in [Jobs -> 0..MaxPrompts]
    BY ConstantsAssumption DEF CoordinatorInit
  <2>2. << >> \in Seq(Jobs)
    OBVIOUS
  <2> QED BY <1>1, <2>1, <2>2 DEF CoordinatorInit, Typed, IInv, JobStates
<1>4. Listed /\ Answered
  BY <1>2, ConstantsAssumption DEF CoordinatorInit, SchedulerInit, Listed, Answered
<1>5. Polled
  BY <1>2 DEF CoordinatorInit, Polled
<1>6. UndoKept
  BY <1>2, ConstantsAssumption DEF CoordinatorInit, SchedulerInit, UndoKept
<1>7. Told
  BY DEF CoordinatorInit, SchedulerInit, Told, Unseen, EndsWithResult
<1>8. ActiveKeepsPolling
  BY <1>2 DEF ActiveKeepsPolling, Active
<1> QED BY <1>1, <1>3, <1>4, <1>5, <1>6, <1>7, <1>8 DEF CInv

\* What is left to show of a step that leaves the coordinator alone.
LEMMA QuietStep ==
  ASSUME CInv, IInv', Owned', Quiet, Told'
  PROVE  CInv'
<1>1. Typed'
  BY TypeKept DEF Quiet
<1> QED BY <1>1, QuietKeeps DEF CInv

\* The steps of the workers keep the invariant.
LEMMA RunningStep ==
  ASSUME CInv, NEW w \in Workers, WorkerStep(w) \/ Wakeup(w)
  PROVE  CInv'
<1>1. IInv' /\ Owned'
  BY SchedulerStep DEF SchedulerNext, WorkerStep, Wakeup
<1>2. Quiet
  BY RunningIsQuiet DEF CInv
<1> QED BY <1>1, <1>2, RunningTold, QuietStep

\* The clicks keep the invariant.
LEMMA ClickedStep ==
  ASSUME CInv, Clicked
  PROVE  CInv'
<1>1. \E j \in Jobs : \/ Pause(j) \/ Resume(j) \/ Cancel(j) \/ CancelNotify(j)
                      \/ \E a \in Answers, n \in 1..prompts[j] : Respond(j, a, n)
  BY DEF Clicked, PauseClicked, ResumeClicked, CancelClicked, CancelReturns, DecisionClicked, Respond
<1>2. \A j \in Jobs : 1..prompts[j] \subseteq 1..MaxPrompts
  BY ConstantsAssumption DEF CInv, IInv, SchedulerTypeOK
<1>3. \E j \in Jobs : Client(j)
  BY <1>1, <1>2 DEF Client
<1>4. IInv' /\ Owned'
  BY <1>3, SchedulerStep DEF SchedulerNext
<1>5. Quiet
  BY ClickedIsQuiet DEF CInv
<1> QED BY <1>4, <1>5, ClickedTold, QuietStep

\* So does a step that changes nothing.
LEMMA StutterCInv == CInv /\ UNCHANGED vars => CInv'
<1> SUFFICES ASSUME CInv, UNCHANGED vars PROVE CInv'
  OBVIOUS
<1>1. IInv' /\ Owned'
  BY SchedulerStep DEF vars
<1>2. Quiet
  BY DEF Quiet, Moves, Settled, vars, schedulerVars, queueVars, bodyVars, channelVars
<1>3. Told'
  BY DEF CInv, Told, Unseen, EndsWithResult, Records, vars, schedulerVars, workerVars, bodyVars,
     channelVars, coordinatorVars, recordVars, pollVars
<1> QED BY <1>1, <1>2, <1>3, QuietStep

\* Every step keeps the invariant.
LEMMA NextCInv == CInv /\ [CoordinatorNext]_vars => CInv'
<1> SUFFICES ASSUME CInv, [CoordinatorNext]_vars PROVE CInv'
  OBVIOUS
<1>1. ASSUME NEW w \in Workers, WorkerStep(w) \/ Wakeup(w) PROVE CInv'
  BY <1>1, RunningStep
<1>2. ASSUME NEW j \in Jobs, User(j) \/ Enqueued(j) \/ CancelReturns(j) \/ DismissExpired(j)
      PROVE CInv'
  <2>1. CASE Clicked
    BY <2>1, ClickedStep
  <2> QED BY <1>2, <2>1, EnqueueStep, EnqueueUndoStep, EnqueuedStep, DismissStep, DismissExpiredStep
          DEF User, Clicked
<1>3. ASSUME NEW j \in Jobs, Poll(j) PROVE CInv'
  BY <1>3, ApplyEventStep, DrainedStep, ReceiveStep, FinishStep DEF Poll
<1>4. CASE PollTimer \/ EndPoll
  BY <1>4, PollTimerStep, EndPollStep
<1>5. CASE UNCHANGED vars
  BY <1>5, StutterCInv
<1> QED BY <1>1, <1>2, <1>3, <1>4, <1>5 DEF CoordinatorNext

\* The invariant holds in every reachable state.
LEMMA CoordinatorInvariance == CoordinatorSpec => []CInv
<1>1. CoordinatorInit => CInv
  BY InitCInv
<1>2. CInv /\ [CoordinatorNext]_vars => CInv'
  BY NextCInv
<1> QED BY <1>1, <1>2, PTL DEF CoordinatorSpec

\* While a snapshot is active, a poll is due.
THEOREM PollingGoesOn == CoordinatorSpec => []ActiveKeepsPolling
<1>1. CInv => ActiveKeepsPolling
  BY DEF CInv
<1> QED BY <1>1, CoordinatorInvariance, PTL

\* The result of a job that was announced is never overwritten by a late event.
THEOREM ResultStaysShown == CoordinatorSpec => []FinishedShowsResult
<1>1. CInv => FinishedShowsResult
  BY DEF CInv, Told, FinishedShowsResult
<1> QED BY <1>1, CoordinatorInvariance, PTL

-----------------------------------------------------------------------------
(* Undo records and results.  Reports relates what a window may show, or   *)
(* has shown when its record went, to what the body of the job returned.   *)

\* The body of an undo job calls nothing and yields no record.
Yielding ==
    /\ \A w \in Workers : stage[w] # "launch" => job[w] \in Operations
    /\ \A j \in UndoJobs : ~yields[j]

\* A result is only told, and a record only removed, once the body has returned.
Reporting ==
    /\ \A w \in Workers : msg[w] \notin Results
    /\ \A j \in Jobs : \A i \in DOMAIN events[j] :
          events[j][i].tag \in Results => result[j] # "none"
    /\ \A j \in Jobs : snap[j] \in Results => result[j] # "none"
    /\ \A j \in Submitted \ Records : result[j] # "none"

Recorded ==
    /\ \A i \in DOMAIN undoStack : undoStack[i] \in Operations
    /\ \A k \in Jobs : undoes[k] \in Operations \cup {NoJob}

Reports == Yielding /\ Reporting /\ Recorded

\* Only an operation gets past the start of the body and yields a record.
LEMMA RunningYields ==
  ASSUME IInv, Yielding, NEW w \in Workers, Running(w)
  PROVE  Yielding'
<1>1. CASE Report(w)
  <2>1. job' = job /\ yields' = yields /\ job[w] \notin UndoJobs /\ pc[w] = "body"
    BY <1>1 DEF Report, Operating, bodyVars
  <2>2. job[w] \in Operations
    BY <2>1, HoldsJob DEF Operations
  <2>3. \A v \in Workers \ {w} : stage'[v] = stage[v]
    BY <1>1 DEF Report, IInv, SchedulerTypeOK
  <2> QED BY <2>1, <2>2, <2>3 DEF Yielding
<1>2. CASE Pop(w)
  <2>1. stage' = stage /\ yields' = yields /\ pc[w] = "idle"
    BY <1>2 DEF Pop, bodyVars
  <2>2. job[w] = NoJob
    BY <2>1 DEF IInv, Holding
  <2>3. stage[w] = "launch"
    BY <2>2, ConstantsAssumption DEF Yielding, Operations
  <2>4. \A v \in Workers \ {w} : job'[v] = job[v]
    BY <1>2 DEF Pop, IInv, SchedulerTypeOK
  <2> QED BY <2>1, <2>3, <2>4 DEF Yielding
<1>3. CASE Complete(w)
  <2>1. yields' = yields /\ stage'[w] = "launch"
        /\ \A v \in Workers \ {w} : job'[v] = job[v] /\ stage'[v] = stage[v]
    BY <1>3 DEF Complete, bodyVars, IInv, SchedulerTypeOK
  <2> QED BY <2>1 DEF Yielding
<1>4. CASE Return(w)
  <2>1. job' = job /\ stage' = stage
    BY <1>4 DEF Return
  <2>2. PICK u \in BOOLEAN : (u => stage[w] = "work") /\ yields' = [yields EXCEPT ![job[w]] = u]
    BY <1>4 DEF Return
  <2>3. job[w] \in UndoJobs => ~u
    BY <2>2 DEF Yielding, Operations
  <2>4. \A j \in UndoJobs : ~yields'[j]
    BY <2>2, <2>3, ConstantsAssumption DEF Yielding, IInv, SchedulerTypeOK
  <2> QED BY <2>1, <2>4 DEF Yielding
<1>5. CASE ~Report(w) /\ ~Pop(w) /\ ~Complete(w) /\ ~Return(w)
  <2>1. UNCHANGED <<job, stage, yields>>
    BY <1>5 DEF Running, Worker, SpuriousWakeup, Sleep, Exit, SkipCancelled, Accept, Start,
       SendState, Terminate, CallCheckpoint, Checkpoint, CallRequest, SendPrompt,
       AnswerCancelled, TakeDecision, AwaitDecision, Resumed, Wait, bodyVars
  <2> QED BY <2>1 DEF Yielding
<1> QED BY <1>1, <1>2, <1>3, <1>4, <1>5

\* One event more does not break what the channel tells.
LEMMA EventTold ==
  ASSUME IInv, Reporting, NEW j \in Jobs, NEW e \in EventType, Send(j, e),
         e.tag \in Results => result'[j] # "none",
         \A k \in Jobs : result[k] # "none" => result'[k] # "none"
  PROVE  \A k \in Jobs : \A i \in DOMAIN events'[k] :
            events'[k][i].tag \in Results => result'[k] # "none"
<1>1. CASE ~Buffered
  BY <1>1 DEF Send, Reporting
<1>2. CASE Buffered
  <2>1. events[j] \in Seq(EventType) /\ events'[j] = Append(events[j], e)
        /\ \A k \in Jobs \ {j} : events'[k] = events[k]
    BY <1>2 DEF Send, IInv, SchedulerTypeOK
  <2>2. /\ DOMAIN events[j] = 1..Len(events[j]) /\ Len(events[j]) \in Nat
        /\ DOMAIN events'[j] = 1..(Len(events[j]) + 1)
        /\ events'[j][Len(events[j]) + 1] = e
        /\ \A i \in 1..Len(events[j]) : events'[j][i] = events[j][i]
    BY <2>1, AppendProperties
  <2>3. \A i \in DOMAIN events'[j] :
          (events'[j][i] = e) \/ (i \in DOMAIN events[j] /\ events'[j][i] = events[j][i])
    BY <2>2
  <2>4. \A i \in DOMAIN events'[j] : events'[j][i].tag \in Results => result'[j] # "none"
    BY <2>3 DEF Reporting
  <2> QED BY <2>1, <2>4 DEF Reporting
<1> QED BY <1>1, <1>2

\* Only Terminate and SkipCancelled tell a result, when it is there.
LEMMA RunningReports ==
  ASSUME CInv, Reporting, NEW w \in Workers, WorkerStep(w) \/ Wakeup(w)
  PROVE  Reporting'
<1>1. Running(w) /\ UNCHANGED <<order, snap>> /\ Records' = Records
  BY DEF WorkerStep, Wakeup, Running, coordinatorVars, recordVars, Records
<1>2. \A v \in Workers : msg'[v] \notin Results
  <2>1. \/ msg' = msg
        \/ \E st \in {"none", "Waiting", "Paused", "Running", "Preparing"} : msg' = [msg EXCEPT ![w] = st]
    BY <1>1 DEF Running, Worker, SpuriousWakeup, Sleep, Exit, Pop, SkipCancelled, Accept, Start,
       SendState, Terminate, Complete, Report, CallCheckpoint, Checkpoint, CallRequest, SendPrompt,
       AnswerCancelled, TakeDecision, AwaitDecision, Resumed, Wait, Return, Shown
  <2> QED BY <2>1 DEF Reporting, Results, CInv, IInv, SchedulerTypeOK
<1>3. \A k \in Jobs : result[k] # "none" => result'[k] # "none"
  <2>1. CASE SkipCancelled(w) \/ Return(w)
    <3>1. \E r \in Results : result' = [result EXCEPT ![job[w]] = r]
      BY <2>1, OutcomesType DEF SkipCancelled, Return, Results, CInv
    <3> QED BY <3>1 DEF CInv, IInv, SchedulerTypeOK, Results
  <2>2. CASE ~SkipCancelled(w) /\ ~Return(w)
    <3>1. result' = result
      BY <1>1, <2>2 DEF Running, Worker, SpuriousWakeup, Sleep, Exit, Pop, Accept, Start,
         SendState, Terminate, Complete, Report, CallCheckpoint, Checkpoint, CallRequest, SendPrompt,
         AnswerCancelled, TakeDecision, AwaitDecision, Resumed, Wait, bodyVars
    <3> QED BY <3>1
  <2> QED BY <2>1, <2>2
<1>4. \A k \in Jobs : \A i \in DOMAIN events'[k] :
         events'[k][i].tag \in Results => result'[k] # "none"
  <2>1. CASE SendState(w) \/ Terminate(w) \/ SkipCancelled(w) \/ SendPrompt(w)
    <3>1. job[w] \in Jobs
      BY <2>1, HoldsJob DEF SendState, Terminate, SkipCancelled, SendPrompt, CInv
    <3>2. CASE SendState(w)
      <4>1. Send(job[w], State(msg[w])) /\ msg[w] \in JobStates /\ msg[w] \notin Results
        BY <3>2 DEF SendState, Reporting, CInv, IInv, Progressing
      <4>2. State(msg[w]) \in EventType /\ State(msg[w]).tag = msg[w]
        BY <4>1, ConstantsAssumption DEF State, EventType
      <4> QED BY <1>3, <3>1, <4>1, <4>2, EventTold DEF CInv
    <3>3. CASE Terminate(w)
      <4>1. Send(job[w], State(result[job[w]])) /\ result[job[w]] \in Results
        BY <3>3 DEF Terminate, CInv, IInv, Progressing
      <4>2. State(result[job[w]]) \in EventType /\ result[job[w]] # "none"
        BY <4>1, ConstantsAssumption DEF State, EventType, Results, JobStates
      <4>3. result'[job[w]] # "none"
        BY <1>3, <3>1, <4>2
      <4> QED BY <1>3, <3>1, <4>1, <4>2, <4>3, EventTold DEF CInv
    <3>4. CASE SkipCancelled(w)
      <4>1. Send(job[w], State("Cancelled")) /\ result'[job[w]] = "Cancelled"
        BY <3>1, <3>4 DEF SkipCancelled, CInv, IInv, SchedulerTypeOK
      <4>2. State("Cancelled") \in EventType
        BY ConstantsAssumption DEF State, EventType, JobStates, Results
      <4> QED BY <1>3, <3>1, <4>1, <4>2, EventTold DEF CInv
    <3>5. CASE SendPrompt(w)
      <4>1. /\ Send(job[w], Prompt(prompts'[job[w]]))
            /\ prompts' = [prompts EXCEPT ![job[w]] = @ + 1] /\ prompts[job[w]] < MaxPrompts
        BY <3>5 DEF SendPrompt, CInv, IInv, Progressing
      <4>2. prompts'[job[w]] \in 0..MaxPrompts
        BY <3>1, <4>1, ConstantsAssumption DEF CInv, IInv, SchedulerTypeOK
      <4>3. Prompt(prompts'[job[w]]) \in EventType /\ Prompt(prompts'[job[w]]).tag \notin Results
        BY <4>2 DEF Prompt, EventType, Results
      <4> QED BY <1>3, <3>1, <4>1, <4>3, EventTold DEF CInv
    <3> QED BY <2>1, <3>2, <3>3, <3>4, <3>5
  <2>2. CASE ~SendState(w) /\ ~Terminate(w) /\ ~SkipCancelled(w) /\ ~SendPrompt(w)
    <3>1. events' = events
      BY <1>1, <2>2 DEF Running, Worker, SpuriousWakeup, Sleep, Exit, Pop, Accept, Start,
         Complete, Report, CallCheckpoint, Checkpoint, CallRequest, AnswerCancelled, TakeDecision,
         AwaitDecision, Resumed, Wait, Return, channelVars
    <3> QED BY <3>1, <1>3 DEF Reporting
  <2> QED BY <2>1, <2>2
<1>5. Submitted' = Submitted
  BY <1>1, RunningMoves DEF Moves, Submitted, CInv
<1>6. Submitted \subseteq Jobs
  BY DEF Submitted
<1> QED BY <1>1, <1>2, <1>3, <1>4, <1>5, <1>6 DEF Reporting

\* The events of the clicks and of submit tell no result.
LEMMA ClientReports ==
  ASSUME CInv, Reporting, NEW j \in Jobs, UNCHANGED <<msg, result>>,
         \/ events' = events
         \/ \E st \in {"Queued", "Paused", "Running"} : Send(j, State(st)),
         \A k \in Jobs : snap'[k] = snap[k] \/ snap'[k] \notin Results,
         Submitted' \ Records' \subseteq Submitted \ Records
  PROVE  Reporting'
<1>1. \A k \in Jobs : \A i \in DOMAIN events'[k] :
         events'[k][i].tag \in Results => result'[k] # "none"
  <2>1. CASE events' = events
    BY <2>1 DEF Reporting
  <2>2. ASSUME NEW st \in {"Queued", "Paused", "Running"}, Send(j, State(st))
        PROVE  \A k \in Jobs : \A i \in DOMAIN events'[k] :
                  events'[k][i].tag \in Results => result'[k] # "none"
    <3>1. State(st) \in EventType /\ State(st).tag \notin Results
      BY ConstantsAssumption DEF State, EventType, JobStates, Results
    <3> QED BY <2>2, <3>1, EventTold DEF CInv
  <2> QED BY <2>1, <2>2
<1> QED BY <1>1 DEF Reporting

\* A click tells the job what to do, and its window only what the job did.
LEMMA ClickedReports ==
  ASSUME CInv, Reports, Clicked
  PROVE  Reports'
<1>1. UNCHANGED <<job, stage, yields, msg, result, task, undoStack, undoes, order, snap>>
  BY DEF Clicked, PauseClicked, ResumeClicked, CancelClicked, CancelReturns, DecisionClicked,
     Pause, Resume, Cancel, CancelNotify, Respond, queueVars, workerVars, bodyVars,
     coordinatorVars, recordVars, undoVars
<1>2. PICK j \in Jobs : \/ events' = events
                        \/ \E st \in {"Queued", "Paused", "Running"} : Send(j, State(st))
  BY DEF Clicked, PauseClicked, ResumeClicked, CancelClicked, CancelReturns, DecisionClicked,
     Pause, Resume, Cancel, CancelNotify, Respond, channelVars
<1>3. Submitted' \ Records' \subseteq Submitted \ Records
  BY <1>1 DEF Submitted, Records
<1>4. Reporting'
  BY <1>1, <1>2, <1>3, ClientReports DEF Reports
<1> QED BY <1>1, <1>4 DEF Reports, Yielding, Recorded

\* A submit hands the top of the undo stack, or nothing, to the job.
LEMMA TicketReports ==
  ASSUME CInv, Reports, NEW j \in Jobs, Enqueue(j) \/ EnqueueUndo(j)
  PROVE  Reports'
<1>1. /\ UNCHANGED <<job, stage, yields, msg, result, order, snap>>
      /\ task[j] = "new" /\ task' = [task EXCEPT ![j] = "submitting"]
      /\ Send(j, State("Queued"))
  BY DEF Enqueue, EnqueueUndo, SubmitTicket, workerVars, bodyVars, recordVars
<1>2. Submitted' \ Records' \subseteq Submitted \ Records
  BY <1>1 DEF Submitted, Records, CInv, IInv, SchedulerTypeOK
<1>3. Reporting'
  BY <1>1, <1>2, ClientReports DEF Reports
<1>4. Recorded'
  <2>1. CASE Enqueue(j)
    BY <2>1 DEF Enqueue, undoVars, Reports, Recorded
  <2>2. CASE EnqueueUndo(j)
    <3>1. /\ undoStack \in Seq(Jobs) /\ undoStack # << >>
          /\ Len(undoStack) \in DOMAIN undoStack
          /\ undoes' = [undoes EXCEPT ![j] = undoStack[Len(undoStack)]]
      BY <2>2 DEF EnqueueUndo, CInv, Typed
    <3>2. \A i \in DOMAIN undoStack' : i \in DOMAIN undoStack /\ undoStack'[i] = undoStack[i]
      BY <2>2, <3>1 DEF EnqueueUndo
    <3>3. undoStack[Len(undoStack)] \in Operations
      BY <3>1 DEF Reports, Recorded
    <3> QED BY <3>1, <3>2, <3>3 DEF Reports, Recorded, CInv, Typed
  <2> QED BY <2>1, <2>2
<1> QED BY <1>1, <1>3, <1>4 DEF Reports, Yielding

\* Enqueued lists the job it submits.
LEMMA EnqueuedReports ==
  ASSUME CInv, Reports, NEW j \in Jobs, Enqueued(j)
  PROVE  Reports'
<1>1. /\ UNCHANGED <<job, stage, yields, msg, result, undoStack, undoes, events>>
      /\ task' = [task EXCEPT ![j] = "queued"] /\ order' = Append(order, j)
      /\ snap' = [snap EXCEPT ![j] = "Queued"]
  BY DEF Enqueued, SubmitPush, bodyVars, undoVars, channelVars
<1>2. /\ order \in Seq(Jobs) /\ DOMAIN order = 1..Len(order) /\ Len(order) \in Nat
      /\ DOMAIN order' = 1..(Len(order) + 1) /\ order'[Len(order) + 1] = j
      /\ \A i \in 1..Len(order) : order'[i] = order[i]
  <2>1. order \in Seq(Jobs)
    BY DEF CInv, Typed
  <2> QED BY <1>1, <2>1, AppendProperties
<1>3. Records \cup {j} \subseteq Records'
  <2>1. Len(order) + 1 \in DOMAIN order' /\ \A i \in DOMAIN order : i \in DOMAIN order'
    BY <1>2
  <2> QED BY <1>2, <2>1 DEF Records
<1>4. Submitted' \ Records' \subseteq Submitted \ Records
  BY <1>1, <1>3 DEF Submitted, CInv, IInv, SchedulerTypeOK
<1>5. \A k \in Jobs : snap'[k] = snap[k] \/ snap'[k] \notin Results
  BY <1>1 DEF CInv, Typed, Results
<1>6. Reporting'
  BY <1>1, <1>4, <1>5, ClientReports DEF Reports
<1> QED BY <1>1, <1>6 DEF Reports, Yielding, Recorded

\* A record is only removed when its window tells a result.
LEMMA RemovalReports ==
  ASSUME CInv, Reports, NEW j \in Records, terminal(j), RemoveRecord(j),
         UNCHANGED <<job, stage, yields, msg, result, task, undoStack, undoes>>
  PROVE  Reports'
<1>1. j \in Jobs /\ order \in Seq(Jobs) /\ \A i, k \in DOMAIN order : order[i] = order[k] => i = k
  BY DEF CInv, Typed, Records, Listed
<1>2. PICK p \in DOMAIN order : order[p] = j
  BY DEF Records
<1>3. /\ DOMAIN order' = 1..(Len(order) - 1)
      /\ \A i \in 1..(Len(order) - 1) : order'[i] = order[IF i < p THEN i ELSE i + 1]
  BY <1>1, <1>2, WithoutProperties DEF RemoveRecord
<1>4. Records \ {j} \subseteq Records'
  <2> SUFFICES ASSUME NEW i \in DOMAIN order, order[i] # j
               PROVE \E n \in DOMAIN order' : order'[n] = order[i]
    BY DEF Records
  <2>1. i # p /\ i \in 1..Len(order) /\ p \in 1..Len(order) /\ Len(order) \in Nat
    BY <1>1, <1>2
  <2>2. CASE i < p
    BY <2>1, <2>2, <1>3
  <2>3. CASE i > p
    <3>1. i - 1 \in 1..(Len(order) - 1) /\ ~(i - 1 < p) /\ (i - 1) + 1 = i
      BY <2>1, <2>3
    <3> QED BY <3>1, <1>3
  <2> QED BY <2>1, <2>2, <2>3
<1>5. result[j] # "none"
  BY <1>1 DEF terminal, Reports, Reporting
<1>6. /\ events'[j] = << >> /\ snap'[j] = "Queued"
      /\ \A k \in Jobs \ {j} : events'[k] = events[k] /\ snap'[k] = snap[k]
  BY <1>1 DEF RemoveRecord, CInv, Typed, IInv, SchedulerTypeOK
<1>7. Submitted' = Submitted /\ Submitted \subseteq Jobs
  BY DEF Submitted
<1>8. Reporting'
  <2>1. \A k \in Jobs : \A i \in DOMAIN events'[k] :
           events'[k][i].tag \in Results => result[k] # "none"
    BY <1>5, <1>6 DEF Reports, Reporting
  <2>2. \A k \in Jobs : snap'[k] \in Results => result[k] # "none"
    BY <1>5, <1>6 DEF Reports, Reporting
  <2>3. \A k \in Submitted' \ Records' : result[k] # "none"
    BY <1>4, <1>5, <1>7 DEF Reports, Reporting
  <2> QED BY <2>1, <2>2, <2>3 DEF Reports, Reporting
<1> QED BY <1>8 DEF Reports, Yielding, Recorded

\* A poll shows what the channel tells.
LEMMA ApplyEventReports ==
  ASSUME CInv, Reports, NEW j \in Jobs, ApplyEvent(j)
  PROVE  Reports'
<1>1. /\ UNCHANGED <<job, stage, yields, msg, result, task, undoStack, undoes, order>>
      /\ events[j] # << >> /\ events' = [events EXCEPT ![j] = Tail(@)]
      /\ snap' = snap \/ snap' = [snap EXCEPT ![j] = Head(events[j]).tag]
  BY DEF ApplyEvent, queueVars, workerVars, bodyVars, undoVars
<1>2. /\ events[j] \in Seq(EventType) /\ events'[j] = Tail(events[j])
      /\ \A k \in Jobs \ {j} : events'[k] = events[k]
  BY <1>1 DEF CInv, IInv, SchedulerTypeOK
<1>3. /\ Head(events[j]) = events[j][1] /\ 1 \in DOMAIN events[j]
      /\ \A i \in DOMAIN events'[j] : i + 1 \in DOMAIN events[j] /\ events'[j][i] = events[j][i + 1]
  <2>1. Len(Tail(events[j])) = Len(events[j]) - 1 /\ Len(events[j]) \in Nat
        /\ Tail(events[j]) \in Seq(EventType) /\ Head(events[j]) = events[j][1]
        /\ \A i \in 1..Len(Tail(events[j])) : Tail(events[j])[i] = events[j][i + 1]
    BY <1>1, <1>2, HeadTailProperties
  <2>2. DOMAIN events[j] = 1..Len(events[j]) /\ DOMAIN Tail(events[j]) = 1..Len(Tail(events[j]))
    BY <1>2, <2>1
  <2>3. Len(events[j]) # 0
    BY <1>1, <1>2
  <2> QED BY <1>2, <2>1, <2>2, <2>3
<1>4. \A k \in Jobs : \A i \in DOMAIN events'[k] :
         events'[k][i].tag \in Results => result[k] # "none"
  <2>1. \A i \in DOMAIN events'[j] : events'[j][i].tag \in Results => result[j] # "none"
    BY <1>3 DEF Reports, Reporting
  <2> QED BY <1>2, <2>1 DEF Reports, Reporting
<1>5. \A k \in Jobs : snap'[k] \in Results => result[k] # "none"
  <2>1. snap \in [Jobs -> JobStates] /\ \A k \in Jobs : snap[k] \in Results => result[k] # "none"
    BY DEF Reports, Reporting, CInv, Typed
  <2>2. events[j][1].tag \in Results => result[j] # "none"
    BY <1>3 DEF Reports, Reporting
  <2>3. \A k \in Jobs : snap'[k] = snap[k] \/ (k = j /\ snap'[k] = events[j][1].tag)
    BY <1>1, <1>3, <2>1
  <2> QED BY <2>1, <2>2, <2>3
<1>6. Reporting'
  BY <1>1, <1>4, <1>5 DEF Reports, Reporting, Submitted, Records
<1> QED BY <1>1, <1>6 DEF Reports, Yielding, Recorded

\* What comes back on the stack was captured from it or is the record of an operation.
LEMMA FinishReports ==
  ASSUME CInv, Reports, NEW j \in Jobs, Finish(j)
  PROVE  Reports'
<1>1. /\ UNCHANGED <<job, stage, yields, msg, result, task, undoes, order, events>>
      /\ snap' = [snap EXCEPT ![j] = result[j]]
  BY DEF Finish, schedulerVars, queueVars, workerVars, bodyVars, channelVars
<1>2. \A k \in Jobs : snap'[k] = snap[k] \/ (k = j /\ snap'[k] = result[k])
  <2>1. snap \in [Jobs -> JobStates]
    BY DEF CInv, Typed
  <2> QED BY <1>1, <2>1
<1>3. Reporting'
  BY <1>1, <1>2 DEF Reports, Reporting, Submitted, Records, Results
<1>4. yields[j] => j \in Operations
  BY DEF Reports, Yielding, Operations
<1>5. undoes[j] \in announced => undoes[j] \in Operations
  BY ConstantsAssumption DEF Reports, Recorded, CInv, Typed
<1>6. Recorded'
  BY <1>1, <1>4, <1>5, FinishUndo DEF Reports, Recorded
<1> QED BY <1>1, <1>3, <1>6 DEF Reports, Yielding

\* The steps that touch neither the channels nor the records.
LEMMA IdleReports ==
  ASSUME Reports,
         UNCHANGED <<job, stage, yields, msg, result, task, undoStack, undoes, order, snap, events>>
  PROVE  Reports'
BY DEF Reports, Yielding, Reporting, Recorded, Submitted, Records

\* Every step keeps it.
LEMMA NextReports == CInv /\ Reports /\ [CoordinatorNext]_vars => Reports'
<1> SUFFICES ASSUME CInv, Reports, [CoordinatorNext]_vars PROVE Reports'
  OBVIOUS
<1>1. ASSUME NEW w \in Workers, WorkerStep(w) \/ Wakeup(w) PROVE Reports'
  <2>1. Yielding'
    BY <1>1, RunningYields DEF WorkerStep, Wakeup, Running, CInv, Reports
  <2>2. Reporting'
    BY <1>1, RunningReports DEF Reports
  <2>3. Recorded'
    BY <1>1 DEF WorkerStep, Wakeup, coordinatorVars, undoVars, Reports, Recorded
  <2> QED BY <2>1, <2>2, <2>3 DEF Reports
<1>2. ASSUME NEW j \in Jobs, Dismiss(j) \/ DismissExpired(j) PROVE Reports'
  <2>1. UNCHANGED <<job, stage, yields, msg, result, task, undoStack, undoes>>
    BY <1>2 DEF Dismiss, DismissExpired, queueVars, workerVars, bodyVars
  <2>2. CASE j \in Records /\ terminal(j) /\ RemoveRecord(j)
    BY <2>1, <2>2, RemovalReports
  <2>3. CASE UNCHANGED <<order, snap, events>>
    BY <2>1, <2>3, IdleReports
  <2> QED BY <1>2, <2>2, <2>3 DEF Dismiss, DismissExpired, recordVars
<1>3. ASSUME NEW j \in Jobs, Drained(j) \/ Receive(j) PROVE Reports'
  <2>1. UNCHANGED <<job, stage, yields, msg, result, task, undoStack, undoes, order, snap, events>>
    BY <1>3 DEF Drained, Receive, schedulerVars, queueVars, workerVars, bodyVars, channelVars,
       recordVars, undoVars
  <2> QED BY <2>1, IdleReports
<1>4. CASE PollTimer \/ EndPoll \/ UNCHANGED vars
  <2>1. UNCHANGED <<job, stage, yields, msg, result, task, undoStack, undoes, order, snap, events>>
    BY <1>4 DEF PollTimer, EndPoll, vars, coordinatorVars, schedulerVars, queueVars, workerVars,
       bodyVars, channelVars, recordVars, undoVars
  <2> QED BY <2>1, IdleReports
<1>5. CASE Clicked
  BY <1>5, ClickedReports
<1> QED BY <1>1, <1>2, <1>3, <1>4, <1>5, TicketReports, EnqueuedReports, ApplyEventReports,
     FinishReports DEF CoordinatorNext, User, Poll, Clicked

\* It holds in every reachable state.
LEMMA ReportsInvariance == CoordinatorSpec => []Reports
<1>1. CoordinatorInit => Reports
  BY ConstantsAssumption DEF CoordinatorInit, SchedulerInit, Reports, Yielding, Reporting, Recorded,
     Submitted, Results
<1>2. CInv /\ Reports /\ [CoordinatorNext]_vars => Reports'
  BY NextReports
<1> QED BY <1>1, <1>2, CoordinatorInvariance, PTL DEF CoordinatorSpec

\* Type correctness: every variable of the coordinator keeps its type, and the undo
\* records are those of operations.
THEOREM CoordinatorTypes == CoordinatorSpec => []CoordinatorTypeOK
<1>1. CInv /\ Reports => CoordinatorTypeOK
  <2> SUFFICES ASSUME CInv, Reports PROVE CoordinatorTypeOK
    OBVIOUS
  <2>1. undoStack \in Seq(Operations)
    <3>1. undoStack \in Seq(Jobs)
      BY DEF CInv, Typed
    <3>2. undoStack = [i \in 1..Len(undoStack) |-> undoStack[i]] /\ Len(undoStack) \in Nat
          /\ \A i \in 1..Len(undoStack) : undoStack[i] \in Operations
      BY <3>1 DEF Reports, Recorded
    <3> QED BY <3>2, IsASeq
  <2>2. undoes \in [Jobs -> Operations \cup {NoJob}]
    BY DEF CInv, Typed, Reports, Recorded
  <2> QED BY <2>1, <2>2 DEF CInv, Typed, CoordinatorTypeOK
<1> QED BY <1>1, CoordinatorInvariance, ReportsInvariance, PTL

\* No undo record is lost, except with a failed undo whose record was closed before
\* its completion was received, and none can be undone twice.
THEOREM UndoRecordsKept == CoordinatorSpec => []UndoRecordsAreKept
<1>1. CInv /\ Reports => UndoRecordsAreKept
  <2> SUFFICES ASSUME CInv, Reports, NEW j \in announced
               PROVE LET onStack == {i \in DOMAIN undoStack : undoStack[i] = j}
                     IN  /\ yields[j] => \/ onStack # {}
                                         \/ AwaitingUndo(j) \/ Undone(j) \/ ClosedUnheard(j)
                         /\ Cardinality(onStack) <= 1
                         /\ onStack # {} => ~AwaitingUndo(j) /\ ~Undone(j) /\ ~ClosedUnheard(j)
    BY DEF UndoRecordsAreKept
  <2> DEFINE onStack == {i \in DOMAIN undoStack : undoStack[i] = j}
  <2>1. ASSUME NEW k \in UndoJobs, undoes[k] = j, Pending(k)
        PROVE  AwaitingUndo(j) \/ Undone(j) \/ ClosedUnheard(j)
    <3>1. CASE result[k] = "Completed"
      BY <2>1, <3>1 DEF Undone
    <3>2. CASE result[k] # "Completed" /\ (k \in Records \/ task[k] = "submitting")
      BY <2>1, <3>2 DEF CInv, UndoKept, Pending, AwaitingUndo
    <3>3. CASE result[k] # "Completed" /\ k \notin Records /\ task[k] # "submitting"
      <4>1. k \in Jobs /\ j \in Jobs /\ j # NoJob
        BY ConstantsAssumption DEF CInv, Typed
      <4>2. task[k] \in {"queued", "claimed"}
        BY <2>1, <3>3, <4>1 DEF CInv, UndoKept, Typed, SchedulerTypeOK
      <4>3. result[k] # "none"
        BY <3>3, <4>1, <4>2 DEF Reports, Reporting, Submitted
      <4>4. result[k] \in {"Cancelled", "Failed"}
        BY <3>3, <4>1, <4>3 DEF CInv, Answered, Typed, SchedulerTypeOK, Results
      <4> QED BY <2>1, <3>3, <4>4 DEF Pending, ClosedUnheard
    <3> QED BY <3>1, <3>2, <3>3
  <2>2. yields[j] => onStack # {} \/ AwaitingUndo(j) \/ Undone(j) \/ ClosedUnheard(j)
    BY <2>1 DEF CInv, UndoKept
  <2>3. onStack # {} => ~AwaitingUndo(j) /\ ~Undone(j) /\ ~ClosedUnheard(j)
    BY DEF CInv, UndoKept, Pending, AwaitingUndo, Undone, ClosedUnheard
  <2>4. onStack = {} \/ \E i \in DOMAIN undoStack : onStack = {i}
    BY DEF CInv, UndoKept
  <2>5. Cardinality(onStack) <= 1
    <3>1. CASE onStack = {}
      BY <3>1, FS_EmptySet
    <3>2. CASE \E i \in DOMAIN undoStack : onStack = {i}
      <4>1. PICK i \in DOMAIN undoStack : onStack = {i}
        BY <3>2
      <4>2. Cardinality({i}) = 1
        BY FS_Singleton
      <4> QED BY <4>1, <4>2
    <3> QED BY <2>4, <3>1, <3>2
  <2> QED BY <2>2, <2>3, <2>5
<1> QED BY <1>1, CoordinatorInvariance, ReportsInvariance, PTL

-----------------------------------------------------------------------------
(* The order of the operations.  The coordinator creates its scheduler with*)
(* one worker, and submits every job as Foreground.                        *)

OneWorker == \E w \in Workers : Workers = {w}
SamePriority == \A j, k \in Jobs : Priority[j] = Priority[k]

\* The ids are listed by their tickets, and no job is popped while an older one
\* has not been completed.
InOrder ==
    /\ \A j \in Jobs : task[j] # "new" => seq[j] < nextSeq
    /\ \A j, k \in Jobs : task[j] = "submitting" /\ task[k] # "new" /\ k # j => seq[k] < seq[j]
    /\ \A i, k \in DOMAIN order : i < k => seq[order[i]] < seq[order[k]]
    /\ \A j, k \in Submitted : seq[j] < seq[k] /\ task[k] = "claimed" => completion[j] # "none"

\* The one worker is idle when it pops, so every older job was completed.
LEMMA PopsOldest ==
  ASSUME OneWorker, SamePriority, CInv, InOrder, NEW w \in Workers, Running(w),
         NEW k \in Jobs, task[k] = "queued", task'[k] = "claimed",
         NEW j \in Submitted, seq[j] < seq[k]
  PROVE  completion[j] # "none"
<1>1. Pop(w)
  BY DEF Running, Worker, SpuriousWakeup, Sleep, Exit, SkipCancelled, Accept, Start,
     SendState, Terminate, Complete, Report, CallCheckpoint, Checkpoint, CallRequest, SendPrompt,
     AnswerCancelled, TakeDecision, AwaitDecision, Resumed, Wait, Return, queueVars
<1>2. \A i \in queue \ {k} : Before(k, i)
  BY <1>1 DEF Pop, CInv, IInv, SchedulerTypeOK
<1>3. j \in Jobs /\ j # k /\ seq[j] \in Int /\ seq[k] \in Int /\ Priority[j] \in Int /\ Priority[j] = Priority[k]
  BY ConstantsAssumption DEF CInv, IInv, SchedulerTypeOK, Submitted, SamePriority
<1>4. j \notin queue
  BY <1>2, <1>3 DEF Before
<1>5. task[j] = "claimed"
  BY <1>3, <1>4 DEF Submitted, queue
<1>6. \A v \in Workers : job[v] = NoJob
  BY <1>1 DEF OneWorker, Pop, CInv, IInv, Holding
<1> QED BY <1>3, <1>5, <1>6, ConstantsAssumption DEF CInv, Owned

\* The workers keep the order.
LEMMA RunningInOrder ==
  ASSUME OneWorker, SamePriority, CInv, InOrder, NEW w \in Workers, WorkerStep(w) \/ Wakeup(w)
  PROVE  InOrder'
<1>1. Running(w) /\ Moves /\ order' = order /\ seq' = seq /\ nextSeq' = nextSeq
  BY RunningMoves DEF WorkerStep, Wakeup, Running, CInv, coordinatorVars, recordVars, Moves
<1>2. \A j \in Jobs : \/ task'[j] = task[j]
                      \/ task[j] = "queued" /\ task'[j] = "claimed"
  BY <1>1 DEF Moves
<1>3. \A j \in Jobs : completion[j] # "none" => completion'[j] # "none"
  BY <1>1 DEF Moves
<1>4. Submitted' = Submitted
  BY <1>2 DEF Submitted
<1>5. \A j, k \in Submitted : seq[j] < seq[k] /\ task'[k] = "claimed" => completion'[j] # "none"
  <2> SUFFICES ASSUME NEW j \in Submitted, NEW k \in Submitted, seq[j] < seq[k], task'[k] = "claimed"
               PROVE completion[j] # "none"
    BY <1>3 DEF Submitted
  <2>1. CASE task[k] = "claimed"
    BY <2>1 DEF InOrder
  <2>2. CASE task[k] = "queued"
    <3>1. k \in Jobs
      BY DEF Submitted
    <3> QED BY <2>2, <3>1, <1>1, PopsOldest
  <2> QED BY <2>1, <2>2 DEF Submitted
<1> QED BY <1>1, <1>2, <1>4, <1>5 DEF InOrder

\* What the other steps share: tickets and tasks stay, the list may lose an id.
LEMMA KeepsOrder ==
  ASSUME CInv, InOrder, UNCHANGED <<task, seq, nextSeq>>,
         \A j \in Jobs : completion[j] # "none" => completion'[j] # "none",
         \A i, k \in DOMAIN order' : i < k =>
             \E m, n \in DOMAIN order : m < n /\ order'[i] = order[m] /\ order'[k] = order[n]
  PROVE  InOrder'
<1>1. Submitted' = Submitted /\ Submitted \subseteq Jobs
  BY DEF Submitted
<1>2. \A i, k \in DOMAIN order' : i < k => seq[order'[i]] < seq[order'[k]]
  BY DEF InOrder
<1> QED BY <1>1, <1>2 DEF InOrder

\* A new ticket is the highest.
LEMMA TicketInOrder ==
  ASSUME CInv, InOrder, NEW j \in Jobs, SubmitTicket(j), order' = order, UIFree
  PROVE  InOrder'
<1>1. /\ task[j] = "new" /\ task' = [task EXCEPT ![j] = "submitting"]
      /\ seq' = [seq EXCEPT ![j] = nextSeq] /\ nextSeq' = nextSeq + 1
      /\ completion' = completion
  BY DEF SubmitTicket
<1>2. /\ task'[j] = "submitting" /\ seq'[j] = nextSeq /\ nextSeq \in Nat
      /\ \A k \in Jobs \ {j} : task'[k] = task[k] /\ seq'[k] = seq[k] /\ seq[k] \in Nat
  BY <1>1 DEF CInv, IInv, SchedulerTypeOK
<1>3. \A k \in Jobs : task[k] # "submitting"
  BY DEF CInv, Listed, UIFree
<1>4. Submitted' = Submitted /\ j \notin Submitted /\ Submitted \subseteq Jobs
  BY <1>1, <1>2 DEF Submitted
<1>5. \A i \in DOMAIN order : order[i] \in Jobs \ {j}
  BY <1>4 DEF CInv, Listed, Records
<1>6. \A k \in Jobs : task'[k] # "new" => seq'[k] < nextSeq'
  BY <1>1, <1>2 DEF InOrder
<1>7. \A i, k \in Jobs : task'[i] = "submitting" /\ task'[k] # "new" /\ k # i => seq'[k] < seq'[i]
  BY <1>2, <1>3 DEF InOrder
<1>8. \A i, k \in DOMAIN order : i < k => seq'[order[i]] < seq'[order[k]]
  BY <1>2, <1>5 DEF InOrder
<1>9. \A i, k \in Submitted : seq'[i] < seq'[k] /\ task'[k] = "claimed" => completion'[i] # "none"
  BY <1>1, <1>2, <1>4 DEF InOrder
<1> QED BY <1>4, <1>6, <1>7, <1>8, <1>9 DEF InOrder

\* The id with the highest ticket is appended.
LEMMA EnqueuedInOrder ==
  ASSUME CInv, InOrder, NEW j \in Jobs, Enqueued(j)
  PROVE  InOrder'
<1>1. /\ task[j] = "submitting" /\ task' = [task EXCEPT ![j] = "queued"]
      /\ UNCHANGED <<seq, nextSeq, completion>>
      /\ order' = Append(order, j)
  BY DEF Enqueued, SubmitPush, channelVars
<1>2. /\ task'[j] = "queued"
      /\ \A k \in Jobs \ {j} : task'[k] = task[k] /\ task[k] # "submitting"
  BY <1>1 DEF CInv, Listed, IInv, SchedulerTypeOK
<1>3. \A k \in Jobs \ {j} : task[k] # "new" => seq[k] < seq[j]
  BY <1>1 DEF InOrder
<1>4. Submitted' = Submitted \cup {j} /\ Submitted \subseteq Jobs \ {j}
  BY <1>1, <1>2 DEF Submitted
<1>5. /\ order \in Seq(Jobs) /\ Len(order) \in Nat /\ DOMAIN order = 1..Len(order)
      /\ DOMAIN order' = 1..(Len(order) + 1) /\ order'[Len(order) + 1] = j
      /\ \A i \in 1..Len(order) : order'[i] = order[i]
  <2>1. order \in Seq(Jobs)
    BY DEF CInv, Typed
  <2> QED BY <1>1, <2>1, AppendProperties
<1>6. \A k \in Jobs : seq[k] \in Nat
  BY DEF CInv, IInv, SchedulerTypeOK
<1>7. \A i \in DOMAIN order : order[i] \in Submitted
  BY DEF CInv, Listed, Records
<1>8. \A i, k \in DOMAIN order' : i < k => seq[order'[i]] < seq[order'[k]]
  <2> SUFFICES ASSUME NEW i \in DOMAIN order', NEW k \in DOMAIN order', i < k
               PROVE seq[order'[i]] < seq[order'[k]]
    OBVIOUS
  <2>1. i \in DOMAIN order /\ order'[i] = order[i]
    BY <1>5
  <2>2. CASE k = Len(order) + 1
    <3>1. order[i] \in Jobs \ {j} /\ task[order[i]] # "new"
      BY <2>1, <1>4, <1>7 DEF Submitted
    <3> QED BY <2>1, <2>2, <3>1, <1>3, <1>5
  <2>3. CASE k # Len(order) + 1
    <3>1. k \in DOMAIN order /\ order'[k] = order[k]
      BY <2>3, <1>5
    <3> QED BY <2>1, <3>1 DEF InOrder
  <2> QED BY <2>2, <2>3
<1>9. \A i, k \in Submitted' : seq[i] < seq[k] /\ task'[k] = "claimed" => completion[i] # "none"
  <2> SUFFICES ASSUME NEW i \in Submitted', NEW k \in Submitted', seq[i] < seq[k], task'[k] = "claimed"
               PROVE completion[i] # "none"
    OBVIOUS
  <2>1. k \in Submitted /\ k # j /\ task[k] = "claimed"
    BY <1>2, <1>4
  <2>2. i # j
    BY <2>1, <1>3, <1>4, <1>6
  <2> QED BY <2>1, <2>2, <1>4 DEF InOrder
<1>10. \A k \in Jobs : task'[k] # "new" <=> task[k] # "new"
  BY <1>1, <1>2
<1>11. \A k \in Jobs : task'[k] # "submitting"
  BY <1>2
<1> QED BY <1>1, <1>8, <1>9, <1>10, <1>11 DEF InOrder

\* The ids that stay keep their order.
LEMMA RemovalInOrder ==
  ASSUME CInv, InOrder, UIFree, NEW j \in Records, RemoveRecord(j),
         UNCHANGED <<queueVars, completion>>
  PROVE  InOrder'
<1>1. PICK p \in DOMAIN order : order[p] = j
  BY DEF Records
<1>2. order \in Seq(Jobs) /\ \A i, k \in DOMAIN order : order[i] = order[k] => i = k
  BY DEF CInv, Typed, Listed
<1>3. order' = Without(order, order[p])
  BY <1>1 DEF RemoveRecord
<1>4. /\ DOMAIN order' = 1..(Len(order) - 1)
      /\ \A i \in 1..(Len(order) - 1) : order'[i] = order[IF i < p THEN i ELSE i + 1]
  BY <1>2, <1>3, WithoutProperties
<1>5. Len(order) \in Nat /\ DOMAIN order = 1..Len(order) /\ p \in 1..Len(order)
  BY <1>2
<1>6. \A i, k \in DOMAIN order' : i < k =>
         \E m, n \in DOMAIN order : m < n /\ order'[i] = order[m] /\ order'[k] = order[n]
  <2> SUFFICES ASSUME NEW i \in 1..(Len(order) - 1), NEW k \in 1..(Len(order) - 1), i < k
               PROVE \E m, n \in DOMAIN order : m < n /\ order'[i] = order[m] /\ order'[k] = order[n]
    BY <1>4
  <2> DEFINE at(n) == IF n < p THEN n ELSE n + 1
  <2>1. at(i) < at(k) /\ at(i) \in DOMAIN order /\ at(k) \in DOMAIN order
    BY <1>5
  <2>2. order'[i] = order[at(i)] /\ order'[k] = order[at(k)]
    BY <1>4
  <2> QED BY <2>1, <2>2
<1> QED BY <1>6, KeepsOrder DEF queueVars

\* Every step keeps the order.
LEMMA NextInOrder ==
  ASSUME OneWorker, SamePriority, CInv, InOrder, [CoordinatorNext]_vars
  PROVE  InOrder'
<1>1. ASSUME NEW w \in Workers, WorkerStep(w) \/ Wakeup(w) PROVE InOrder'
  BY <1>1, RunningInOrder
<1>2. ASSUME NEW j \in Jobs, Enqueue(j) \/ EnqueueUndo(j) PROVE InOrder'
  <2>1. SubmitTicket(j) /\ order' = order /\ UIFree
    BY <1>2 DEF Enqueue, EnqueueUndo, recordVars
  <2> QED BY <2>1, TicketInOrder
<1>3. ASSUME NEW j \in Jobs, Dismiss(j) \/ DismissExpired(j) PROVE InOrder'
  <2>1. UNCHANGED <<queueVars, completion>>
    BY <1>3 DEF Dismiss, DismissExpired
  <2>2. CASE j \in Records /\ RemoveRecord(j)
    <3>1. UIFree
      BY <1>3 DEF Dismiss, DismissExpired
    <3> QED BY <2>1, <2>2, <3>1, RemovalInOrder
  <2>3. CASE order' = order
    BY <2>1, <2>3, KeepsOrder DEF queueVars
  <2> QED BY <1>3, <2>2, <2>3 DEF Dismiss, DismissExpired, recordVars
<1>4. ASSUME Clicked PROVE InOrder'
  <2>1. Quiet /\ UNCHANGED <<task, completion>>
    BY <1>4, ClickedIsQuiet DEF CInv
  <2>2. UNCHANGED <<order, seq, nextSeq>>
    BY <2>1 DEF Quiet, Moves, coordinatorVars, recordVars
  <2> QED BY <2>1, <2>2, KeepsOrder
<1>5. ASSUME NEW j \in Jobs, Poll(j) PROVE InOrder'
  <2>1. UNCHANGED <<task, seq, nextSeq, order>>
    BY <1>5 DEF Poll, ApplyEvent, Drained, Receive, Finish, schedulerVars, queueVars, recordVars
  <2>2. \A k \in Jobs : completion[k] # "none" => completion'[k] # "none"
    <3>1. completion' = completion \/ completion' = [completion EXCEPT ![j] = "received"]
      BY <1>5 DEF Poll, ApplyEvent, Drained, Receive, Finish, schedulerVars, channelVars
    <3>2. DOMAIN completion = Jobs
      BY DEF CInv, IInv, SchedulerTypeOK
    <3> QED BY <3>1, <3>2
  <2> QED BY <2>1, <2>2, KeepsOrder
<1>6. CASE PollTimer \/ EndPoll \/ UNCHANGED vars
  <2>1. UNCHANGED <<task, seq, nextSeq, order, completion>>
    BY <1>6 DEF PollTimer, EndPoll, vars, schedulerVars, queueVars, channelVars, coordinatorVars, recordVars
  <2> QED BY <2>1, KeepsOrder
<1> QED BY <1>1, <1>2, <1>3, <1>4, <1>5, <1>6, EnqueuedInOrder DEF CoordinatorNext, User, Clicked

\* With one worker and one priority, the operations begin and end in the order in
\* which the coordinator lists them.
THEOREM RunInOrder == OneWorker /\ SamePriority => (CoordinatorSpec => []RunsInOrder)
<1> SUFFICES ASSUME OneWorker, SamePriority PROVE CoordinatorSpec => []RunsInOrder
  OBVIOUS
<1>1. CoordinatorInit => InOrder
  BY ConstantsAssumption DEF CoordinatorInit, SchedulerInit, InOrder, Submitted
<1>2. CInv /\ InOrder /\ [CoordinatorNext]_vars => InOrder'
  BY NextInOrder
<1>3. CInv /\ InOrder => RunsInOrder
  <2> SUFFICES ASSUME CInv, InOrder, NEW i \in DOMAIN order, NEW k \in DOMAIN order,
                      i < k, started[order[k]]
               PROVE completion[order[i]] # "none"
    BY DEF RunsInOrder
  <2>1. order[i] \in Submitted /\ order[k] \in Submitted
    BY DEF CInv, Listed, Records
  <2>2. task[order[k]] = "claimed"
    BY <2>1 DEF CInv, IInv, Starting, Submitted
  <2> QED BY <2>1, <2>2 DEF InOrder
<1> QED BY <1>1, <1>2, <1>3, CoordinatorInvariance, PTL DEF CoordinatorSpec
=============================================================================
