--------------------------- MODULE PortalService ---------------------------
(***************************************************************************)
(* The FileChooser backend: a D-Bus call (run_request) takes a place in    *)
(* the quota, publishes a request object at its handle, asks the user      *)
(* interface for a picker window and waits for the window, the answer, the *)
(* caller's Close and two timers.  The D-Bus executor and the thread of    *)
(* the windows share one bounded queue of commands and, per request, the   *)
(* channels `started`, `response` and `cancel`, each of capacity one.      *)
(*                                                                         *)
(* A handle may be used again once its request object is gone.  What the   *)
(* user selects in the window is abstracted to "accepted".                 *)
(***************************************************************************)
EXTENDS Integers, Sequences, FiniteSets

CONSTANTS
    Requests,      \* D-Bus calls
    AppOf,         \* the application that calls
    HandleOf,      \* the handle of the call
    MaxActive,     \* MAX_ACTIVE_REQUESTS
    MaxPerApp,     \* MAX_ACTIVE_REQUESTS_PER_APP
    UiCapacity,    \* UI_CHANNEL_CAPACITY
    NoRequest      \* no request object, no window

ASSUME RequestsAssumption == IsFiniteSet(Requests) /\ NoRequest \notin Requests
ASSUME CapacityAssumption ==
    MaxActive \in Nat /\ MaxPerApp \in Nat /\ UiCapacity \in Nat \ {0}

Apps == {AppOf[r] : r \in Requests}
Handles == {HandleOf[r] : r \in Requests}

VARIABLES
    calls,       \* run_request and await_picker of every call
    quota,       \* PortalQuota
    objects,     \* the request object published at every handle
    uiQueue,     \* PickerUiCommand channel
    windows,     \* OpenWindows: the window registered for a handle
    pickers,     \* requests whose Picker lives
    said         \* history: what user, caller and timers did about a request

portalVars == <<calls, quota, objects, uiQueue, windows, pickers, said>>

NewCall == [pc |-> "idle", pending |-> {}, cancel |-> FALSE, started |-> "none",
            response |-> "none", outcome |-> "none", code |-> -1]

\* PortalResponse::from_outcome
Code(outcome) == CASE outcome = "accepted" -> 0 [] outcome = "cancelled" -> 1 [] outcome = "failed" -> 2

PortalInit ==
    /\ calls = [r \in Requests |-> NewCall]
    /\ quota = [total |-> 0, perApp |-> [a \in Apps |-> 0]]
    /\ objects = [h \in Handles |-> NoRequest]
    /\ uiQueue = << >>
    /\ windows = [h \in Handles |-> NoRequest]
    /\ pickers = {}
    /\ said = [r \in Requests |-> {}]

-----------------------------------------------------------------------------
(***************************************************************************)
(* The quota.                                                              *)
(***************************************************************************)
QuotaAllows(r) == quota.total < MaxActive /\ quota.perApp[AppOf[r]] < MaxPerApp

TakePermit(r) == quota' = [quota EXCEPT !.total = @ + 1, !.perApp[AppOf[r]] = @ + 1]

SaturatingDecrement(n) == IF n = 0 THEN 0 ELSE n - 1

\* PortalPermit::drop
DropPermit(r) ==
    quota' = [quota EXCEPT !.total = SaturatingDecrement(@),
                           !.perApp[AppOf[r]] = SaturatingDecrement(@)]

(***************************************************************************)
(* run_request.                                                            *)
(***************************************************************************)
At(r, pc) == calls[r].pc = pc
Enter(r, pc) == calls' = [calls EXCEPT ![r].pc = pc]
Conclude(r, outcome, pc) == calls' = [calls EXCEPT ![r] = [NewCall EXCEPT !.outcome = outcome, !.pc = pc]]
ReturnCode(r, code) == calls' = [calls EXCEPT ![r] = [NewCall EXCEPT !.code = code, !.pc = "returned"]]

\* try_acquire; an invalid request and a full quota are answered at once
Acquire(r) ==
    /\ At(r, "idle")
    /\ IF QuotaAllows(r) THEN TakePermit(r) /\ Enter(r, "publish")
                         ELSE ReturnCode(r, 2) /\ UNCHANGED quota
    /\ UNCHANGED <<objects, uiQueue, windows, pickers, said>>

\* Defect: the permit of a call whose handle is taken is not returned.
Defect_Publish(r) ==
    /\ At(r, "publish")
    /\ IF objects[HandleOf[r]] = NoRequest
       THEN /\ objects' = [objects EXCEPT ![HandleOf[r]] = r]
            /\ Enter(r, "open")
            /\ UNCHANGED quota
       ELSE ReturnCode(r, 2) /\ UNCHANGED <<objects, quota>>
    /\ UNCHANGED <<uiQueue, windows, pickers, said>>

\* object_server.at: false when the handle is taken
Publish(r) ==
    /\ At(r, "publish")
    /\ IF objects[HandleOf[r]] = NoRequest
       THEN /\ objects' = [objects EXCEPT ![HandleOf[r]] = r]
            /\ Enter(r, "open")
            /\ UNCHANGED quota
       ELSE ReturnCode(r, 2) /\ DropPermit(r) /\ UNCHANGED objects
    /\ UNCHANGED <<uiQueue, windows, pickers, said>>

Enqueue(command) == Len(uiQueue) < UiCapacity /\ uiQueue' = Append(uiQueue, command)
CloseCommand(r) == [kind |-> "Close", handle |-> HandleOf[r], request |-> NoRequest]

SendOpen(r) ==
    /\ At(r, "open")
    /\ Enqueue([kind |-> "Open", handle |-> HandleOf[r], request |-> r])
    /\ Enter(r, "startup")
    /\ UNCHANGED <<quota, objects, windows, pickers, said>>

(***************************************************************************)
(* await_picker: future::or polls `started` before `cancel` before the     *)
(* timer, and later `response` before `cancel` before the timer.           *)
(***************************************************************************)
StartupStarted(r) ==
    /\ At(r, "startup") /\ calls[r].started # "none"
    /\ IF calls[r].started = "ok" THEN Enter(r, "waiting") ELSE Conclude(r, "failed", "closing")
    /\ UNCHANGED <<quota, objects, uiQueue, windows, pickers, said>>

\* Defect: the object goes before the picker is told to close, so that the
\* Close may reach the window of the next request with this handle.
Defect_StartupCancelled(r) ==
    /\ At(r, "startup") /\ calls[r].started = "none" /\ calls[r].cancel
    /\ Conclude(r, "cancelled", "closing")
    /\ objects' = [objects EXCEPT ![HandleOf[r]] = NoRequest]
    /\ UNCHANGED <<quota, uiQueue, windows, pickers, said>>

StartupCancelled(r) ==
    /\ At(r, "startup") /\ calls[r].started = "none" /\ calls[r].cancel
    /\ Conclude(r, "cancelled", "closing")
    /\ UNCHANGED <<quota, objects, uiQueue, windows, pickers, said>>

StartupTimedOut(r) ==
    /\ At(r, "startup") /\ calls[r].started = "none" /\ ~calls[r].cancel
    /\ Conclude(r, "failed", "closing")
    /\ said' = [said EXCEPT ![r] = @ \union {"timeout"}]
    /\ UNCHANGED <<quota, objects, uiQueue, windows, pickers>>

\* Defect: the picker of a request that ended before its window is left open.
Defect_CloseAfterStartup(r) ==
    /\ At(r, "closing")
    /\ Enter(r, "unpublish")
    /\ UNCHANGED <<quota, objects, uiQueue, windows, pickers, said>>

\* close_picker, in the three branches in which no window had been reported
CloseAfterStartup(r) ==
    /\ At(r, "closing")
    /\ Enqueue(CloseCommand(r))
    /\ Enter(r, "unpublish")
    /\ UNCHANGED <<quota, objects, windows, pickers, said>>

TakeResponse(r) ==
    /\ At(r, "waiting") /\ calls[r].response # "none"
    /\ Conclude(r, calls[r].response, "unpublish")
    /\ UNCHANGED <<quota, objects, uiQueue, windows, pickers, said>>

Unanswered(r) == At(r, "waiting") /\ calls[r].response = "none"

\* the two other branches wait in close_picker while the queue is full
SeeCancel(r) ==
    /\ Unanswered(r) /\ calls[r].cancel /\ "cancelled" \notin calls[r].pending
    /\ calls' = [calls EXCEPT ![r].pending = @ \union {"cancelled"}]
    /\ UNCHANGED <<quota, objects, uiQueue, windows, pickers, said>>

SeeTimeout(r) ==
    /\ Unanswered(r) /\ "failed" \notin calls[r].pending
    /\ calls' = [calls EXCEPT ![r].pending = @ \union {"failed"}]
    /\ said' = [said EXCEPT ![r] = @ \union {"timeout"}]
    /\ UNCHANGED <<quota, objects, uiQueue, windows, pickers>>

CloseWhileWaiting(r) ==
    /\ Unanswered(r) /\ calls[r].pending # {}
    /\ Enqueue(CloseCommand(r))
    /\ Conclude(r, IF "cancelled" \in calls[r].pending THEN "cancelled" ELSE "failed", "unpublish")
    /\ UNCHANGED <<quota, objects, windows, pickers, said>>

\* object_server.remove
Unpublish(r) ==
    /\ At(r, "unpublish")
    /\ objects' = [objects EXCEPT ![HandleOf[r]] = NoRequest]
    /\ Enter(r, "return")
    /\ UNCHANGED <<quota, uiQueue, windows, pickers, said>>

\* response_result; the permit is dropped
Return(r) ==
    /\ At(r, "return")
    /\ ReturnCode(r, Code(calls[r].outcome))
    /\ DropPermit(r)
    /\ UNCHANGED <<objects, uiQueue, windows, pickers, said>>

-----------------------------------------------------------------------------
(***************************************************************************)
(* The thread of the windows: run_command_loop and the pickers.            *)
(***************************************************************************)
\* Channels are used until the call has its outcome; the first message stays.
Listens(r) == calls[r].pc \in {"startup", "waiting"}
Respond(r, outcome, cs) ==
    IF Listens(r) /\ cs[r].response = "none" THEN [cs EXCEPT ![r].response = outcome] ELSE cs

\* open_picker_window
OpenPicker ==
    /\ uiQueue # << >> /\ Head(uiQueue).kind = "Open"
    /\ uiQueue' = Tail(uiQueue)
    /\ LET r == Head(uiQueue).request IN
         \/ /\ windows' = [windows EXCEPT ![HandleOf[r]] = r]
            /\ pickers' = pickers \union {r}
            /\ calls' = IF Listens(r) THEN [calls EXCEPT ![r].started = "ok"] ELSE calls
         \/ /\ calls' = Respond(r, "failed", IF Listens(r) THEN [calls EXCEPT ![r].started = "error"] ELSE calls)
            /\ UNCHANGED <<windows, pickers>>
    /\ UNCHANGED <<quota, objects, said>>

\* Picker::complete or Picker::drop: the window goes with its entry, the first
\* answer stays
Leave(r, outcome) ==
    /\ windows' = [windows EXCEPT ![HandleOf[r]] = NoRequest]
    /\ pickers' = pickers \ {r}
    /\ calls' = Respond(r, outcome, calls)

ClosePicker ==
    /\ uiQueue # << >> /\ Head(uiQueue).kind = "Close"
    /\ uiQueue' = Tail(uiQueue)
    /\ LET r == windows[Head(uiQueue).handle] IN
         IF r = NoRequest THEN UNCHANGED <<windows, pickers, calls>> ELSE Leave(r, "cancelled")
    /\ UNCHANGED <<quota, objects, said>>

\* finish_accept
UserAccepts(r) ==
    /\ r \in pickers
    /\ Leave(r, "accepted")
    /\ said' = [said EXCEPT ![r] = @ \union {"accept"}]
    /\ UNCHANGED <<quota, objects, uiQueue>>

\* Cancel, Escape or the window's close button
UserCancels(r) ==
    /\ r \in pickers
    /\ Leave(r, "cancelled")
    /\ said' = [said EXCEPT ![r] = @ \union {"cancel"}]
    /\ UNCHANGED <<quota, objects, uiQueue>>

\* PortalRequestObject::close of the object published at a handle
CallerCloses(h) ==
    /\ objects[h] # NoRequest
    /\ calls' = IF calls[objects[h]].outcome = "none" THEN [calls EXCEPT ![objects[h]].cancel = TRUE] ELSE calls
    /\ said' = [said EXCEPT ![objects[h]] = @ \union {"close"}]
    /\ UNCHANGED <<quota, objects, uiQueue, windows, pickers>>

-----------------------------------------------------------------------------
Waits(r) == StartupTimedOut(r) \/ StartupCancelled(r) \/ StartupStarted(r)
Answers(r) == TakeResponse(r) \/ SeeCancel(r) \/ SeeTimeout(r)
Closes(r) == CloseAfterStartup(r) \/ CloseWhileWaiting(r)

Serve(r) ==
    \/ Acquire(r) \/ Publish(r) \/ SendOpen(r)
    \/ Waits(r) \/ Answers(r) \/ Closes(r)
    \/ Unpublish(r) \/ Return(r)

PortalNext ==
    \/ \E r \in Requests : Serve(r) \/ UserAccepts(r) \/ UserCancels(r)
    \/ \E h \in Handles : CallerCloses(h)
    \/ OpenPicker \/ ClosePicker

PortalSpec == PortalInit /\ [][PortalNext]_portalVars

(***************************************************************************)
(* zbus' executor polls every call, the command loop takes every command,  *)
(* and timers fire.  A call ends after finitely many steps, so that none   *)
(* is put off for ever.  Nothing is expected of users and callers.         *)
(***************************************************************************)
PortalFairness ==
    WF_portalVars((\E r \in Requests : ~At(r, "idle") /\ Serve(r)) \/ OpenPicker \/ ClosePicker)

-----------------------------------------------------------------------------
Holders == {r \in Requests : calls[r].pc \notin {"idle", "returned"}}

\* try_acquire and PortalPermit::drop: the quota counts exactly the calls in
\* progress, in total and per application, on every way out of a call, and
\* the limits hold; a permit lost or dropped twice would refuse callers for
\* ever or let too many in.
QuotaIsExact ==
    /\ quota.total = Cardinality(Holders) /\ quota.total <= MaxActive
    /\ \A a \in Apps :
         /\ quota.perApp[a] = Cardinality({r \in Holders : AppOf[r] = a})
         /\ quota.perApp[a] <= MaxPerApp

Answered(r) == At(r, "returned")

\* A call is answered with what happened to its own window: accepted only
\* if the user accepted, cancelled only if the user or the caller ended this
\* request, and an accepted selection is lost only to the caller's Close or a
\* timeout.  A late Close of an earlier request with the same handle, or a
\* second answer of one window, would break it.
AnswerIsTrue ==
    \A r \in Requests : Answered(r) =>
        /\ calls[r].code = 0 => "accept" \in said[r]
        /\ calls[r].code = 1 => said[r] \intersect {"cancel", "close"} # {}
        /\ "accept" \in said[r] /\ calls[r].code # 0 => said[r] \intersect {"close", "timeout"} # {}

\* A call in progress is answered and leaves no window behind, whatever user
\* and caller do: cancel, timeout and the picker's answer may race, the
\* command queue may be full, the window may open after the call gave up.
RequestEnds ==
    \A r \in Requests : At(r, "publish") ~> (Answered(r) /\ r \notin pickers)
=============================================================================
