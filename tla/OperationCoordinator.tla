------------------------ MODULE OperationCoordinator ------------------------
(***************************************************************************)
(* OperationCoordinator of gnil-app (operation_center.rs) on top of its    *)
(* TaskScheduler: the records of the jobs the user started, the snapshots  *)
(* the operation windows show, the undo stack, and the poll that empties   *)
(* the channels of every job each 50 ms.                                   *)
(*                                                                         *)
(* The coordinator lives on the UI thread: its handlers do not overlap, but*)
(* the workers run between any two of their steps that touch shared state. *)
(* Buttons are only there when render() shows them.  Titles, progress,     *)
(* rates, queue positions and the windows themselves only display what the *)
(* snapshots say and are left out.                                         *)
(***************************************************************************)
EXTENDS TaskScheduler

VARIABLES
    order,      \* `order`, whose jobs are the keys of `records`
    snap,       \* OperationSnapshot::state of each record
    prompt,     \* OperationSnapshot::prompt: the number of the prompt, or 0
    undoStack,  \* the undo records, each named by the job that yielded it
    undoes,     \* the record that the closure of each undo job captured
    reserved,   \* undo jobs whose record still has its reserved_undo
    polling,    \* `polling`
    ui,         \* what the UI thread is in the middle of
    todo,       \* poll: the ids that are still to be visited
    finished,   \* poll: the completions that were received
    announced,  \* jobs whose Finished event was emitted
    expiring    \* jobs whose SUCCESS_DISMISS_DELAY timer runs

recordVars == <<order, snap, prompt>>
undoVars   == <<undoStack, undoes, reserved>>
pollVars   == <<polling, todo, finished>>
coordinatorVars == <<recordVars, undoVars, pollVars, ui, announced, expiring>>
vars == <<schedulerVars, coordinatorVars>>

-----------------------------------------------------------------------------
Records == {order[i] : i \in DOMAIN order}
Operations == Jobs \ UndoJobs

terminal(j) == snap[j] \in Results
Active == {j \in Records : ~terminal(j)}

\* No handler is running: cancel() holds the UI thread until it has notified.
UIFree == ui = "idle" /\ notifying = {}

\* The list of ids without j, which is in it once: an id is listed when its job
\* is submitted.
Without(s, j) ==
    LET p == CHOOSE i \in DOMAIN s : s[i] = j
    IN  [i \in 1..(Len(s) - 1) |-> s[IF i < p THEN i ELSE i + 1]]

\* The job active_snapshot() returns: the oldest active one, or the oldest one.
IsActiveSnapshot(j) ==
    \E i \in DOMAIN order :
       /\ order[i] = j
       /\ IF Active = {} THEN i = 1
          ELSE ~terminal(j) /\ \A k \in 1..(i - 1) : terminal(order[k])

CoordinatorInit ==
    /\ SchedulerInit
    /\ order = << >>
    /\ snap = [j \in Jobs |-> "Queued"]
    /\ prompt = [j \in Jobs |-> 0]
    /\ undoStack = << >>
    /\ undoes = [j \in Jobs |-> NoJob]
    /\ reserved = {}
    /\ polling = FALSE
    /\ ui = "idle"
    /\ todo = << >>
    /\ finished = << >>
    /\ announced = {}
    /\ expiring = {}

-----------------------------------------------------------------------------
(* Handlers of the coordinator.                                            *)

Enqueue(j) ==
    /\ UIFree /\ j \in Operations
    /\ SubmitTicket(j)
    /\ ui' = "submit"
    /\ UNCHANGED <<recordVars, undoVars, pollVars, announced, expiring>>

\* The undo record leaves the stack now, and is kept in case the job fails.
EnqueueUndo(j) ==
    /\ UIFree /\ j \in UndoJobs /\ undoStack # << >>
    /\ SubmitTicket(j)
    /\ undoes' = [undoes EXCEPT ![j] = undoStack[Len(undoStack)]]
    /\ undoStack' = SubSeq(undoStack, 1, Len(undoStack) - 1)
    /\ reserved' = reserved \cup {j}
    /\ ui' = "submit"
    /\ UNCHANGED <<recordVars, pollVars, announced, expiring>>

StartPoll(ids) ==
    /\ todo' = ids
    /\ ui' = IF ids = << >> THEN "finish" ELSE "drain"

\* Both end in the same way: the record is inserted and polling is ensured.
Enqueued(j) ==
    /\ ui = "submit"
    /\ SubmitPush(j)
    /\ order' = Append(order, j)
    /\ snap' = [snap EXCEPT ![j] = "Queued"]
    /\ prompt' = [prompt EXCEPT ![j] = 0]
    /\ polling' = TRUE
    /\ IF polling THEN ui' = "idle" /\ UNCHANGED todo
       ELSE StartPoll(order')
    /\ UNCHANGED <<undoVars, finished, announced, expiring>>

\* Defect: the window of a job that ended keeps its Pause button.
Defect_PauseClicked(j) ==
    /\ UIFree /\ j \in Records /\ prompt[j] = 0 /\ snap[j] # "Paused"
    /\ Pause(j)
    /\ UNCHANGED coordinatorVars

PauseClicked(j) ==
    /\ UIFree /\ j \in Active /\ prompt[j] = 0 /\ snap[j] # "Paused"
    /\ Pause(j)
    /\ UNCHANGED coordinatorVars

ResumeClicked(j) ==
    /\ UIFree /\ j \in Active /\ prompt[j] = 0 /\ snap[j] = "Paused"
    /\ Resume(j)
    /\ UNCHANGED coordinatorVars

\* The button of the operation window, or CancelOperation in the main window.
CancelClicked(j) ==
    /\ UIFree
    /\ \/ j \in Active /\ prompt[j] = 0
       \/ IsActiveSnapshot(j)
    /\ Cancel(j)
    /\ UNCHANGED coordinatorVars

CancelReturns(j) ==
    /\ CancelNotify(j)
    /\ UNCHANGED coordinatorVars

\* The buttons stay until the next poll: they may be clicked again.
DecisionClicked(j, a) ==
    /\ UIFree /\ j \in Records /\ prompt[j] # 0
    /\ Respond(j, a, prompt[j])
    /\ UNCHANGED coordinatorVars

\* dismiss: the record goes, and with it its handle and its reserved undo.
\* (Of a record that is not terminal only the window is closed.)
RemoveRecord(j) ==
    /\ order' = Without(order, j)
    /\ snap' = [snap EXCEPT ![j] = "Queued"]
    /\ prompt' = [prompt EXCEPT ![j] = 0]
    /\ reserved' = reserved \ {j}
    /\ events' = [events EXCEPT ![j] = << >>]

Dismiss(j) ==
    /\ UIFree /\ j \in Records /\ terminal(j)
    /\ RemoveRecord(j)
    /\ UNCHANGED <<queueVars, controlVars, workerVars, bodyVars, completion, drop,
                   undoStack, undoes, pollVars, ui, announced, expiring>>

DismissExpired(j) ==
    /\ UIFree /\ j \in expiring
    /\ expiring' = expiring \ {j}
    /\ IF j \in Records /\ terminal(j) THEN RemoveRecord(j)
       ELSE UNCHANGED <<recordVars, reserved, events>>
    /\ UNCHANGED <<queueVars, controlVars, workerVars, bodyVars, completion, drop,
                   undoStack, undoes, pollVars, ui, announced>>

-----------------------------------------------------------------------------
(* poll.                                                                   *)

\* Defect: no poll while nothing but queued jobs is known.
Defect_PollTimer ==
    /\ UIFree /\ polling /\ \E j \in Active : snap[j] # "Queued"
    /\ StartPoll(order)
    /\ UNCHANGED <<schedulerVars, recordVars, undoVars, polling, finished,
                   announced, expiring>>

PollTimer ==
    /\ UIFree /\ polling
    /\ StartPoll(order)
    /\ UNCHANGED <<schedulerVars, recordVars, undoVars, polling, finished,
                   announced, expiring>>

\* try_iter and apply_event: a State event that is not a Waiting one clears the
\* prompt of the snapshot.
ApplyEvent(j) ==
    /\ ui = "drain" /\ j = Head(todo) /\ events[j] # << >>
    /\ events' = [events EXCEPT ![j] = Tail(@)]
    /\ LET e == Head(events[j]) IN
          IF e.tag = "Prompt"
          THEN /\ prompt' = [prompt EXCEPT ![j] = e.prompt]
               /\ UNCHANGED snap
          ELSE /\ snap' = [snap EXCEPT ![j] = e.tag]
               /\ prompt' = [prompt EXCEPT ![j] = IF e.tag = "Waiting" THEN @ ELSE 0]
    /\ UNCHANGED <<queueVars, controlVars, workerVars, bodyVars, completion, drop,
                   order, undoVars, pollVars, ui, announced, expiring>>

Drained(j) ==
    /\ ui = "drain" /\ j = Head(todo) /\ events[j] = << >>
    /\ ui' = "receive"
    /\ UNCHANGED <<schedulerVars, recordVars, undoVars, pollVars, announced, expiring>>

\* completion.try_recv(): the worker may have gone on since the events ended.
Receive(j) ==
    /\ ui = "receive" /\ j = Head(todo)
    /\ IF completion[j] = "sent"
       THEN /\ completion' = [completion EXCEPT ![j] = "received"]
            /\ finished' = Append(finished, j)
       ELSE UNCHANGED <<completion, finished>>
    /\ todo' = Tail(todo)
    /\ ui' = IF todo' = << >> THEN "finish" ELSE "drain"
    /\ UNCHANGED <<queueVars, controlVars, workerVars, bodyVars, events, drop,
                   recordVars, undoVars, polling, announced, expiring>>

\* Defect: the undo record comes back from a failed undo, not from a cancelled one.
Defect_Finish(j) ==
    /\ ui = "finish" /\ finished # << >> /\ j = Head(finished)
    /\ finished' = Tail(finished)
    /\ snap' = [snap EXCEPT ![j] = result[j]]
    /\ prompt' = [prompt EXCEPT ![j] = 0]
    /\ LET restored == j \in reserved /\ result[j] = "Failed" IN
          /\ undoStack' = undoStack \o (IF yields[j] THEN <<j>> ELSE << >>)
                                    \o (IF restored THEN <<undoes[j]>> ELSE << >>)
          /\ reserved' = IF restored THEN reserved \ {j} ELSE reserved
    /\ announced' = announced \cup {j}
    /\ expiring' = IF result[j] = "Completed" THEN expiring \cup {j} ELSE expiring
    /\ UNCHANGED <<schedulerVars, order, undoes, polling, todo, ui>>

Finish(j) ==
    /\ ui = "finish" /\ finished # << >> /\ j = Head(finished)
    /\ finished' = Tail(finished)
    /\ snap' = [snap EXCEPT ![j] = result[j]]
    /\ prompt' = [prompt EXCEPT ![j] = 0]
    /\ LET restored == j \in reserved /\ result[j] \in {"Cancelled", "Failed"} IN
          /\ undoStack' = undoStack \o (IF yields[j] THEN <<j>> ELSE << >>)
                                    \o (IF restored THEN <<undoes[j]>> ELSE << >>)
          /\ reserved' = IF restored THEN reserved \ {j} ELSE reserved
    /\ announced' = announced \cup {j}
    /\ expiring' = IF result[j] = "Completed" THEN expiring \cup {j} ELSE expiring
    /\ UNCHANGED <<schedulerVars, order, undoes, polling, todo, ui>>

\* Defect: polling rests while every active job is paused.
Defect_EndPoll ==
    /\ ui = "finish" /\ finished = << >>
    /\ polling' = (\E j \in Active : snap[j] # "Paused")
    /\ ui' = "idle"
    /\ UNCHANGED <<schedulerVars, recordVars, undoVars, todo, finished, announced, expiring>>

\* Polling goes on as long as some snapshot is not terminal.
EndPoll ==
    /\ ui = "finish" /\ finished = << >>
    /\ polling' = (Active # {})
    /\ ui' = "idle"
    /\ UNCHANGED <<schedulerVars, recordVars, undoVars, todo, finished, announced, expiring>>

-----------------------------------------------------------------------------
WorkerStep(w) == Worker(w) /\ UNCHANGED coordinatorVars
Wakeup(w) == SpuriousWakeup(w) /\ UNCHANGED coordinatorVars

Poll(j) == ApplyEvent(j) \/ Drained(j) \/ Receive(j) \/ Finish(j)

User(j) ==
    \/ Enqueue(j) \/ EnqueueUndo(j)
    \/ PauseClicked(j) \/ ResumeClicked(j) \/ CancelClicked(j)
    \/ \E a \in Answers : DecisionClicked(j, a)
    \/ Dismiss(j)

CoordinatorNext ==
    \/ \E w \in Workers : WorkerStep(w) \/ Wakeup(w)
    \/ \E j \in Jobs : User(j) \/ Enqueued(j) \/ CancelReturns(j) \/ Poll(j)
                       \/ DismissExpired(j)
    \/ PollTimer \/ EndPoll

CoordinatorSpec == CoordinatorInit /\ [][CoordinatorNext]_vars

(* Fairness: the worker and the UI thread run.  A timer that is due gets   *)
(* its turn between the handlers of the user's clicks, however many come.  *)
(* The user owes nothing.                                                  *)
CoordinatorFairness ==
    /\ \A w \in Workers :
          WF_vars(WorkerStep(w)) /\ SF_vars(WorkerStep(w) /\ (Report(w) \/ Return(w)))
    /\ \A j \in Jobs : WF_vars(Enqueued(j) \/ CancelReturns(j) \/ Poll(j))
    /\ SF_vars(PollTimer)
    /\ WF_vars(EndPoll)

FairCoordinatorSpec == CoordinatorSpec /\ CoordinatorFairness

-----------------------------------------------------------------------------
(* Properties.                                                             *)

\* Every variable has its type (OperationCoordinator and OperationRecord); the
\* undo records are those of operations: no undo job leaves one of its own.
CoordinatorTypeOK ==
    /\ SchedulerTypeOK
    /\ order \in Seq(Jobs)
    /\ snap \in [Jobs -> JobStates]
    /\ prompt \in [Jobs -> 0..MaxPrompts]
    /\ undoStack \in Seq(Operations)
    /\ undoes \in [Jobs -> Operations \cup {NoJob}]
    /\ reserved \subseteq UndoJobs
    /\ polling \in BOOLEAN
    /\ ui \in {"idle", "submit", "drain", "receive", "finish"}
    /\ todo \in Seq(Jobs)
    /\ finished \in Seq(Jobs)
    /\ announced \subseteq Jobs
    /\ expiring \subseteq Jobs

\* While some snapshot is not terminal the 50 ms poll is alive: no job the user
\* sees as active is left to itself, whatever ended, came back from a terminal
\* state or was dismissed since polling began.
ActiveKeepsPolling == ui = "idle" /\ Active # {} => polling

\* Once finish() has told a job's result, its snapshot shows that result for
\* ever, although events of the job may still be in its channel then.
FinishedShowsResult ==
    ui = "idle" => \A j \in announced \cap Records : snap[j] = result[j]

\* With its single worker the scheduler runs the jobs one at a time and in the
\* order the coordinator lists them: a job begins after all before it ended.
RunsInOrder ==
    \A i, k \in DOMAIN order :
       i < k /\ started[order[k]] => completion[order[i]] # "none"

Undone(j) == \E k \in UndoJobs : undoes[k] = j /\ result[k] = "Completed"
AwaitingUndo(j) ==
    \E k \in UndoJobs : undoes[k] = j /\ k \notin announced /\ k \in reserved

\* The undo of j had failed and its window said so, but its completion was still
\* in the channel when the user closed the window.
ClosedUnheard(j) ==
    \E k \in UndoJobs : undoes[k] = j /\ k \notin Records \cup announced
                        /\ result[k] \in {"Cancelled", "Failed"}

\* The undo record of an announced job is in one place: on the stack once, or
\* reserved with one pending undo job, or spent.  None is lost by a failed or
\* cancelled undo, and none is undone a second time.  One exception is known: a
\* failed undo whose record the user closes before its completion is received
\* takes the undo record with it (poll stops at the terminal event, dismiss drops
\* reserved_undo).
UndoRecordsAreKept ==
    ui \in {"idle", "submit"} => \A j \in announced :
       LET onStack == {i \in DOMAIN undoStack : undoStack[i] = j}
       IN  /\ yields[j] => \/ onStack # {}
                           \/ AwaitingUndo(j) \/ Undone(j) \/ ClosedUnheard(j)
           /\ Cardinality(onStack) <= 1
           /\ onStack # {} => ~AwaitingUndo(j) /\ ~Undone(j) /\ ~ClosedUnheard(j)

\* While the poll is alive a completion that was sent is received and announced,
\* unless the user closes the record before.
PollDelivers ==
    \A j \in Jobs :
       (ui = "idle" /\ polling /\ j \in Records /\ completion[j] = "sent")
          ~> (j \in announced \/ j \notin Records)

\* "Mutations run away from the render thread and return an optional undo
\* record" (ARCHITECTURE.md): what a job returned reaches the coordinator.
OutcomeIsReceived ==
    \A j \in Jobs : (j \in Records /\ completion[j] = "sent")
                       ~> (j \in announced \/ j \notin Records)
=============================================================================
