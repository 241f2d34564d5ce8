------------------------ MODULE PortalService_proofs ------------------------
(***************************************************************************)
(* Theorems about PortalService, for any calls, applications, handles and  *)
(* limits: the quota counts the calls in progress, and a call is answered  *)
(* with what happened to its own window.                                   *)
(***************************************************************************)
EXTENDS PortalService, FiniteSetTheorems, SequenceTheorems, TLAPS

Early == {"idle", "publish", "open"}
Published == {"open", "startup", "closing", "waiting", "unpublish"}
Over == {"closing", "unpublish", "return"}
Ends == {"accepted", "cancelled", "failed"}

Pcs == Early \union Published \union {"return", "returned"}
Calls == [pc : Pcs,
          pending : SUBSET {"cancelled", "failed"}, cancel : BOOLEAN,
          started : {"none", "ok", "error"}, response : {"none"} \union Ends,
          outcome : {"none"} \union Ends, code : {-1, 0, 1, 2}]
UiCommands == [kind : {"Open", "Close"}, handle : Handles, request : Requests \union {NoRequest}]

PortalTypeOK ==
    /\ calls \in [Requests -> Calls]
    /\ quota \in [total : Nat, perApp : [Apps -> Nat]]
    /\ objects \in [Handles -> Requests \union {NoRequest}]
    /\ uiQueue \in Seq(UiCommands)
    /\ \A i \in 1 .. Len(uiQueue) : uiQueue[i].kind = "Open" => uiQueue[i].request \in Requests
    /\ windows \in [Handles -> Requests \union {NoRequest}]
    /\ pickers \subseteq Requests
    /\ said \in [Requests -> SUBSET {"accept", "cancel", "close", "timeout"}]

-----------------------------------------------------------------------------
\* A call that may still send to its picker owns its handle.
Owned == \A r \in Requests : calls[r].pc \in Published => objects[HandleOf[r]] = r

Opens(i, r) == uiQueue[i].kind = "Open" /\ uiQueue[i].request = r
ClosesAt(i, h) == uiQueue[i].kind = "Close" /\ uiQueue[i].handle = h
Asked(r) == \E i \in 1 .. Len(uiQueue) : Opens(i, r)

\* The window of a call is asked for once.
AskedOnce ==
    \A r \in Requests : \A i, j \in 1 .. Len(uiQueue) : Opens(i, r) /\ Opens(j, r) => i = j

\* A Close that will find the window of a call comes after that call has its
\* outcome: whether the window has been asked for before, or is there.
ClosesLater ==
    \A r \in Requests : \A i, j \in 1 .. Len(uiQueue) :
        i < j /\ Opens(i, r) /\ ClosesAt(j, HandleOf[r]) => ~Listens(r)

WindowsOwn ==
    \A h \in Handles : windows[h] # NoRequest =>
        /\ HandleOf[windows[h]] = h
        /\ calls[windows[h]].pc \notin Early
        /\ \A j \in 1 .. Len(uiQueue) : ClosesAt(j, h) => ~Listens(windows[h])

ClosesOwn == ClosesLater /\ WindowsOwn

\* What a call, its window and its history say about each other.
Progress(r) ==
    LET c == calls[r] IN
    /\ c.pc \in Over => c.outcome \in Ends
    /\ c.pc \notin Over => c.outcome = "none"
    /\ c.pc = "returned" <=> c.code # -1
    /\ c.pc \in Early => c.started = "none" /\ c.pending = {} /\ "accept" \notin said[r]
    /\ c.response # "none" => Listens(r)
    /\ c.cancel \/ "cancelled" \in c.pending => "close" \in said[r]
    /\ "failed" \in c.pending => "timeout" \in said[r]

Open(r) ==
    LET c == calls[r] IN
    /\ Asked(r) \/ r \in pickers =>
          /\ c.pc \notin Early
          /\ Listens(r) => c.response = "none"
          /\ ~Listens(r) => said[r] \intersect {"close", "timeout"} # {}
    /\ Asked(r) => r \notin pickers /\ "accept" \notin said[r] /\ c.started = "none"
    /\ c.started = "error" => ~Asked(r) /\ r \notin pickers /\ "accept" \notin said[r]

Answer(r) ==
    LET c == calls[r] IN
    /\ c.response = "accepted" \/ c.outcome = "accepted" \/ c.code = 0 => "accept" \in said[r]
    /\ c.response = "cancelled" \/ c.outcome = "cancelled" \/ c.code = 1 =>
          said[r] \intersect {"cancel", "close"} # {}
    /\ "accept" \in said[r] =>
          \/ c.response = "accepted" \/ c.outcome = "accepted" \/ c.code = 0
          \/ said[r] \intersect {"close", "timeout"} # {}

Told == \A r \in Requests : Progress(r) /\ Open(r) /\ Answer(r)

PInv == PortalTypeOK /\ QuotaIsExact /\ Owned /\ AskedOnce /\ ClosesOwn /\ Told

-----------------------------------------------------------------------------
(* The queue: what is sent last, and what is taken first.                  *)
LEMMA Sent ==
  ASSUME uiQueue \in Seq(UiCommands), NEW c \in UiCommands, Enqueue(c)
  PROVE  /\ uiQueue' \in Seq(UiCommands) /\ Len(uiQueue') = Len(uiQueue) + 1
         /\ Len(uiQueue) \in Nat
         /\ \A i \in 1 .. Len(uiQueue) : uiQueue'[i] = uiQueue[i]
         /\ uiQueue'[Len(uiQueue) + 1] = c
BY LenProperties DEF Enqueue

LEMMA Taken ==
  ASSUME uiQueue \in Seq(UiCommands), uiQueue # << >>, uiQueue' = Tail(uiQueue)
  PROVE  /\ uiQueue' \in Seq(UiCommands) /\ Len(uiQueue') = Len(uiQueue) - 1
         /\ Len(uiQueue) \in Nat \ {0} /\ Head(uiQueue) = uiQueue[1]
         /\ uiQueue[1] \in UiCommands
         /\ \A i \in 1 .. Len(uiQueue') : uiQueue'[i] = uiQueue[i + 1]
BY EmptySeq, LenProperties

LEMMA NamesExist ==
  ASSUME NEW r \in Requests
  PROVE  HandleOf[r] \in Handles /\ AppOf[r] \in Apps /\ NoRequest # r
BY RequestsAssumption DEF Handles, Apps

LEMMA CommandsExist ==
  ASSUME NEW r \in Requests
  PROVE  /\ CloseCommand(r) \in UiCommands
         /\ [kind |-> "Open", handle |-> HandleOf[r], request |-> r] \in UiCommands
BY NamesExist DEF CloseCommand, UiCommands

(* The fields of a call.                                                   *)
LEMMA Fields ==
  ASSUME NEW c \in Calls
  PROVE  /\ \A pc \in Pcs : [c EXCEPT !.pc = pc] \in Calls
         /\ \A o \in Ends : [c EXCEPT !.response = o] \in Calls
         /\ \A o \in {"ok", "error"} : [c EXCEPT !.started = o] \in Calls
         /\ [c EXCEPT !.cancel = TRUE] \in Calls
         /\ \A o \in {"cancelled", "failed"} : [c EXCEPT !.pending = @ \union {o}] \in Calls
<1>1. \A pc \in Pcs : [c EXCEPT !.pc = pc] \in Calls
  BY DEF Calls
<1>2. \A o \in Ends : [c EXCEPT !.response = o] \in Calls
  BY DEF Calls
<1>3. \A o \in {"ok", "error"} : [c EXCEPT !.started = o] \in Calls
  BY DEF Calls
<1>4. [c EXCEPT !.cancel = TRUE] \in Calls
  BY DEF Calls
<1>5. \A o \in {"cancelled", "failed"} : [c EXCEPT !.pending = @ \union {o}] \in Calls
  BY DEF Calls
<1> QED
  BY <1>1, <1>2, <1>3, <1>4, <1>5

LEMMA NewCalls ==
  /\ NewCall \in Calls
  /\ \A o \in Ends, pc \in Pcs : [NewCall EXCEPT !.outcome = o, !.pc = pc] \in Calls
  /\ \A n \in {0, 1, 2} : [NewCall EXCEPT !.code = n, !.pc = "returned"] \in Calls
BY DEF Calls, NewCall, Ends, Pcs, Early

(* What an answer of the picker changes.                                   *)
LEMMA Responded ==
  ASSUME PortalTypeOK, NEW cs \in [Requests -> Calls], NEW r \in Requests, NEW o \in Ends
  PROVE  /\ Respond(r, o, cs) \in [Requests -> Calls]
         /\ \A s \in Requests : s # r => Respond(r, o, cs)[s] = cs[s]
         /\ Respond(r, o, cs)[r] =
              IF Listens(r) /\ cs[r].response = "none"
              THEN [cs[r] EXCEPT !.response = o] ELSE cs[r]
<1>1. cs[r] \in Calls /\ [cs[r] EXCEPT !.response = o] \in Calls
  BY Fields
<1> QED
  BY <1>1 DEF Respond

LEMMA QuotaFields ==
  ASSUME PortalTypeOK, NEW r \in Requests
  PROVE  /\ quota.total \in Nat /\ quota.perApp \in [Apps -> Nat]
         /\ TakePermit(r) =>
               quota' = [total |-> quota.total + 1,
                         perApp |-> [quota.perApp EXCEPT ![AppOf[r]] = @ + 1]]
         /\ DropPermit(r) =>
               quota' = [total |-> SaturatingDecrement(quota.total),
                         perApp |-> [quota.perApp EXCEPT ![AppOf[r]] = SaturatingDecrement(@)]]
<1>1. quota \in [total : Nat, perApp : [Apps -> Nat]]
  BY DEF PortalTypeOK
<1> QED
  BY <1>1 DEF TakePermit, DropPermit

LEMMA PcsExist ==
  /\ {"idle", "publish", "open", "startup", "closing", "waiting", "unpublish", "return", "returned"} \subseteq Pcs
  /\ {"accepted", "cancelled", "failed"} \subseteq Ends
BY DEF Pcs, Early, Published, Ends

LEMMA CallsKept ==
  ASSUME PInv, NEW r \in Requests, Serve(r)
  PROVE  /\ calls' \in [Requests -> Calls]
         /\ \A s \in Requests : s # r => calls'[s] = calls[s]
<1> USE PcsExist
<1>1. calls[r] \in Calls /\ calls \in [Requests -> Calls]
  BY DEF PInv, PortalTypeOK
<1>2. ASSUME NEW pc \in Pcs, Enter(r, pc)
      PROVE  calls' \in [Requests -> Calls] /\ \A s \in Requests : s # r => calls'[s] = calls[s]
  BY <1>1, <1>2, Fields DEF Enter
<1>3. ASSUME NEW pc \in Pcs, NEW o \in Ends, Conclude(r, o, pc)
      PROVE  calls' \in [Requests -> Calls] /\ \A s \in Requests : s # r => calls'[s] = calls[s]
  BY <1>1, <1>3, NewCalls DEF Conclude
<1>4. ASSUME NEW n \in {0, 1, 2}, ReturnCode(r, n)
      PROVE  calls' \in [Requests -> Calls] /\ \A s \in Requests : s # r => calls'[s] = calls[s]
  BY <1>1, <1>4, NewCalls DEF ReturnCode
<1>5. CASE Acquire(r) \/ Publish(r) \/ SendOpen(r) \/ CloseAfterStartup(r) \/ Unpublish(r)
  BY <1>5, <1>2, <1>4 DEF Acquire, Publish, SendOpen, CloseAfterStartup, Unpublish
<1>6. CASE Waits(r)
  BY <1>6, <1>2, <1>3 DEF Waits, StartupTimedOut, StartupCancelled, StartupStarted
<1>7. CASE TakeResponse(r)
  <2>1. calls[r].response \in Ends
    BY <1>1, <1>7 DEF TakeResponse, Calls
  <2> QED
    BY <1>7, <1>3, <2>1 DEF TakeResponse
<1>8. CASE SeeCancel(r) \/ SeeTimeout(r)
  BY <1>1, <1>8, Fields DEF SeeCancel, SeeTimeout
<1>9. CASE CloseWhileWaiting(r)
  BY <1>9, <1>3 DEF CloseWhileWaiting
<1>10. CASE Return(r)
  <2>1. Code(calls[r].outcome) \in {0, 1, 2}
    BY <1>10 DEF PInv, Return, At, Told, Progress, Over, Ends, Code
  <2> QED
    BY <1>10, <1>4, <2>1 DEF Return
<1> QED
  BY <1>5, <1>6, <1>7, <1>8, <1>9, <1>10 DEF Serve, Answers, Closes

-----------------------------------------------------------------------------
(* What each kind of step leaves in a call.                                *)
LEMMA Entered ==
  ASSUME PortalTypeOK, NEW r \in Requests, NEW pc \in Pcs, Enter(r, pc)
  PROVE  LET c == calls[r] d == calls'[r] IN
         /\ d.pc = pc /\ d.pending = c.pending /\ d.cancel = c.cancel /\ d.started = c.started
         /\ d.response = c.response /\ d.outcome = c.outcome /\ d.code = c.code
<1>1. calls \in [Requests -> Calls] /\ calls[r] \in Calls
  BY DEF PortalTypeOK
<1>2. calls'[r] = [calls[r] EXCEPT !.pc = pc]
  BY <1>1 DEF Enter
<1> QED
  BY <1>1, <1>2 DEF Calls

LEMMA Concluded ==
  ASSUME PortalTypeOK, NEW r \in Requests, NEW o, NEW pc, Conclude(r, o, pc)
  PROVE  LET d == calls'[r] IN
         /\ d.pc = pc /\ d.pending = {} /\ ~d.cancel /\ d.started = "none"
         /\ d.response = "none" /\ d.outcome = o /\ d.code = -1
<1>1. calls \in [Requests -> Calls]
  BY DEF PortalTypeOK
<1>2. calls'[r] = [NewCall EXCEPT !.outcome = o, !.pc = pc]
  BY <1>1 DEF Conclude
<1> QED
  BY <1>2 DEF NewCall

LEMMA Returned ==
  ASSUME PortalTypeOK, NEW r \in Requests, NEW n, ReturnCode(r, n)
  PROVE  LET d == calls'[r] IN
         /\ d.pc = "returned" /\ d.pending = {} /\ ~d.cancel /\ d.started = "none"
         /\ d.response = "none" /\ d.outcome = "none" /\ d.code = n
<1>1. calls \in [Requests -> Calls]
  BY DEF PortalTypeOK
<1>2. calls'[r] = [NewCall EXCEPT !.code = n, !.pc = "returned"]
  BY <1>1 DEF ReturnCode
<1> QED
  BY <1>2 DEF NewCall

LEMMA Noticed ==
  ASSUME PortalTypeOK, NEW r \in Requests, SeeCancel(r) \/ SeeTimeout(r)
  PROVE  LET c == calls[r] d == calls'[r] IN
         /\ d.pc = c.pc /\ d.cancel = c.cancel /\ d.started = c.started
         /\ d.response = c.response /\ d.outcome = c.outcome /\ d.code = c.code
         /\ SeeCancel(r) => d.pending = c.pending \union {"cancelled"}
         /\ SeeTimeout(r) => d.pending = c.pending \union {"failed"}
<1>1. calls \in [Requests -> Calls] /\ calls[r] \in Calls
  BY DEF PortalTypeOK
<1>2. PICK o \in {"cancelled", "failed"} :
        /\ calls'[r] = [calls[r] EXCEPT !.pending = @ \union {o}]
        /\ SeeCancel(r) => o = "cancelled"
        /\ SeeTimeout(r) => o = "failed"
  <2>1. CASE SeeCancel(r) /\ ~SeeTimeout(r)
    BY <1>1, <2>1 DEF SeeCancel
  <2>2. CASE SeeTimeout(r) /\ ~SeeCancel(r)
    BY <1>1, <2>2 DEF SeeTimeout
  <2>3. ~(SeeTimeout(r) /\ SeeCancel(r))
    <3> SUFFICES ASSUME SeeTimeout(r), SeeCancel(r) PROVE FALSE
      OBVIOUS
    <3>1. calls'[r].pending = calls[r].pending \union {"cancelled"}
      BY <1>1 DEF SeeCancel, Calls
    <3>2. "failed" \notin calls[r].pending /\ calls'[r].pending = calls[r].pending \union {"failed"}
      BY <1>1 DEF SeeTimeout, Calls
    <3> QED
      BY <3>1, <3>2
  <2> QED
    BY <2>1, <2>2, <2>3
<1>3. calls'[r].pending = calls[r].pending \union {o}
  BY <1>1, <1>2 DEF Calls
<1> QED
  BY <1>1, <1>2, <1>3 DEF Calls

-----------------------------------------------------------------------------
(* What a step of one call leaves alone.                                   *)
LEMMA ServedAlone ==
  ASSUME PInv, NEW r \in Requests, Serve(r)
  PROVE  /\ windows' = windows /\ pickers' = pickers
         /\ \A s \in Requests : s # r => calls'[s] = calls[s] /\ said'[s] = said[s]
<1>1. windows' = windows /\ pickers' = pickers
  BY DEF Serve, Acquire, Publish, SendOpen, Waits, StartupTimedOut,
     StartupCancelled, StartupStarted, Answers, TakeResponse, SeeCancel, SeeTimeout, Closes,
     CloseAfterStartup, CloseWhileWaiting, Unpublish, Return
<1>2. said' = said \/ said' = [said EXCEPT ![r] = @ \union {"timeout"}]
  BY DEF Serve, Acquire, Publish, SendOpen, Waits, StartupTimedOut,
     StartupCancelled, StartupStarted, Answers, TakeResponse, SeeCancel, SeeTimeout, Closes,
     CloseAfterStartup, CloseWhileWaiting, Unpublish, Return
<1>3. \A s \in Requests : s # r => said'[s] = said[s]
  BY <1>2 DEF PInv, PortalTypeOK
<1> QED
  BY <1>1, <1>3, CallsKept

(* Where a step of one call takes it.                                      *)
Moves(r, from, to) == calls[r].pc \in from /\ calls'[r].pc \in to

LEMMA Served ==
  ASSUME PInv, NEW r \in Requests, Serve(r)
  PROVE  \/ Acquire(r) /\ Moves(r, {"idle"}, {"publish", "returned"})
         \/ Publish(r) /\ Moves(r, {"publish"}, {"open", "returned"})
         \/ SendOpen(r) /\ Moves(r, {"open"}, {"startup"})
         \/ Waits(r) /\ Moves(r, {"startup"}, {"waiting", "closing"})
         \/ (SeeCancel(r) \/ SeeTimeout(r)) /\ Moves(r, {"waiting"}, {"waiting"})
         \/ TakeResponse(r) /\ Moves(r, {"waiting"}, {"unpublish"})
         \/ Closes(r) /\ Moves(r, {"closing", "waiting"}, {"unpublish"})
         \/ Unpublish(r) /\ Moves(r, {"unpublish"}, {"return"})
         \/ Return(r) /\ Moves(r, {"return"}, {"returned"})
<1> USE PcsExist DEF Moves, At
<1>0. PortalTypeOK
  BY DEF PInv
<1>1. CASE Acquire(r)
  BY <1>0, <1>1, Entered, Returned DEF Acquire
<1>2. CASE Publish(r)
  BY <1>0, <1>2, Entered, Returned DEF Publish
<1>3. CASE SendOpen(r)
  BY <1>0, <1>3, Entered DEF SendOpen
<1>4. CASE Waits(r)
  BY <1>0, <1>4, Entered, Concluded DEF Waits, StartupTimedOut, StartupCancelled, StartupStarted
<1>5. CASE SeeCancel(r) \/ SeeTimeout(r)
  <2>1. calls[r].pc = "waiting"
    BY <1>5 DEF SeeCancel, SeeTimeout, Unanswered
  <2> QED
    BY <1>0, <1>5, <2>1, Noticed
<1>6. CASE TakeResponse(r)
  BY <1>0, <1>6, Concluded DEF TakeResponse
<1>7. CASE Closes(r)
  BY <1>0, <1>7, Entered, Concluded DEF Closes, CloseAfterStartup, CloseWhileWaiting, Unanswered
<1>8. CASE Unpublish(r)
  BY <1>0, <1>8, Entered DEF Unpublish
<1>9. CASE Return(r)
  BY <1>0, <1>9, Returned DEF Return
<1> QED
  BY <1>1, <1>2, <1>3, <1>4, <1>5, <1>6, <1>7, <1>8, <1>9 DEF Serve, Answers

(* The other steps leave the progress of every call.                       *)
Answering ==
    \/ \E r \in Requests : UserAccepts(r) \/ UserCancels(r)
    \/ \E h \in Handles : CallerCloses(h)
    \/ OpenPicker \/ ClosePicker

LEMMA ResponseOnly ==
  ASSUME PortalTypeOK, NEW cs \in [Requests -> Calls], NEW r \in Requests, NEW o \in Ends
  PROVE  LET c == cs[r] d == Respond(r, o, cs)[r] IN
         /\ d.pc = c.pc /\ d.pending = c.pending /\ d.cancel = c.cancel /\ d.started = c.started
         /\ d.outcome = c.outcome /\ d.code = c.code
         /\ d.response = IF Listens(r) /\ c.response = "none" THEN o ELSE c.response
<1>1. cs[r] \in Calls
  OBVIOUS
<1>2. CASE Listens(r) /\ cs[r].response = "none"
  <2>1. Respond(r, o, cs)[r] = [cs[r] EXCEPT !.response = o]
    BY <1>2, Responded
  <2> QED
    BY <1>1, <1>2, <2>1 DEF Calls
<1>3. CASE ~(Listens(r) /\ cs[r].response = "none")
  <2>1. Respond(r, o, cs)[r] = cs[r]
    BY <1>3, Responded
  <2> QED
    BY <1>3, <2>1
<1> QED
  BY <1>2, <1>3

LEMMA UserLeaves ==
  ASSUME PInv, NEW r \in Requests, UserAccepts(r) \/ UserCancels(r)
  PROVE  LET c == calls[r] d == calls'[r]
             o == IF UserAccepts(r) THEN "accepted" ELSE "cancelled"
             w == IF UserAccepts(r) THEN "accept" ELSE "cancel" IN
         /\ r \in pickers /\ pickers' = pickers \ {r} /\ UNCHANGED <<quota, objects, uiQueue>>
         /\ windows' = [windows EXCEPT ![HandleOf[r]] = NoRequest]
         /\ \A s \in Requests : s # r => calls'[s] = calls[s] /\ said'[s] = said[s]
         /\ said'[r] = said[r] \union {w}
         /\ d.pc = c.pc /\ d.pending = c.pending /\ d.cancel = c.cancel /\ d.started = c.started
         /\ d.outcome = c.outcome /\ d.code = c.code
         /\ d.response = IF Listens(r) /\ c.response = "none" THEN o ELSE c.response
<1> DEFINE o == IF UserAccepts(r) THEN "accepted" ELSE "cancelled"
           w == IF UserAccepts(r) THEN "accept" ELSE "cancel"
<1>1. PortalTypeOK /\ calls \in [Requests -> Calls] /\ said \in [Requests -> SUBSET {"accept", "cancel", "close", "timeout"}]
  BY DEF PInv, PortalTypeOK
<1>2. o \in Ends
  BY DEF Ends
<1>3. /\ r \in pickers /\ Leave(r, o) /\ said' = [said EXCEPT ![r] = @ \union {w}]
      /\ UNCHANGED <<quota, objects, uiQueue>>
  BY DEF UserAccepts, UserCancels
<1> HIDE DEF o
<1>4. calls' = Respond(r, o, calls)
  BY <1>3 DEF Leave
<1>5. /\ \A s \in Requests : s # r => calls'[s] = calls[s]
      /\ calls'[r] = Respond(r, o, calls)[r]
  BY <1>1, <1>2, <1>4, Responded
<1>6. \A s \in Requests : s # r => said'[s] = said[s]
  BY <1>1, <1>3
<1>7. said'[r] = said[r] \union {w}
  BY <1>1, <1>3
<1>8. LET c == calls[r] d == calls'[r] IN
         /\ d.pc = c.pc /\ d.pending = c.pending /\ d.cancel = c.cancel /\ d.started = c.started
         /\ d.outcome = c.outcome /\ d.code = c.code
         /\ d.response = IF Listens(r) /\ c.response = "none" THEN o ELSE c.response
  BY <1>1, <1>2, <1>5, ResponseOnly
<1>9. windows' = [windows EXCEPT ![HandleOf[r]] = NoRequest] /\ pickers' = pickers \ {r}
  BY <1>3 DEF Leave
<1> USE DEF o
<1> QED
  BY <1>3, <1>5, <1>6, <1>7, <1>8, <1>9

LEMMA CallerEnds ==
  ASSUME PInv, NEW h \in Handles, CallerCloses(h)
  PROVE  \E r \in Requests :
           LET c == calls[r] d == calls'[r] IN
           /\ UNCHANGED <<quota, objects, uiQueue, windows, pickers>>
           /\ \A s \in Requests : s # r => calls'[s] = calls[s] /\ said'[s] = said[s]
           /\ said'[r] = said[r] \union {"close"}
           /\ d.pc = c.pc /\ d.pending = c.pending /\ d.started = c.started
           /\ d.outcome = c.outcome /\ d.code = c.code /\ d.response = c.response
<1>1. calls \in [Requests -> Calls] /\ said \in [Requests -> SUBSET {"accept", "cancel", "close", "timeout"}]
      /\ objects[h] \in Requests
  BY DEF PInv, PortalTypeOK, CallerCloses
<1> DEFINE r == objects[h]
<1>2. calls[r] \in Calls
  BY <1>1
<1>3. calls'[r] = calls[r] \/ calls'[r] = [calls[r] EXCEPT !.cancel = TRUE]
  BY <1>1 DEF CallerCloses
<1>4. \A s \in Requests : s # r => calls'[s] = calls[s] /\ said'[s] = said[s]
  BY <1>1 DEF CallerCloses
<1>5. said'[r] = said[r] \union {"close"}
  BY <1>1 DEF CallerCloses
<1>6. LET c == calls[r] d == calls'[r] IN
           /\ d.pc = c.pc /\ d.pending = c.pending /\ d.started = c.started
           /\ d.outcome = c.outcome /\ d.code = c.code /\ d.response = c.response
  BY <1>2, <1>3 DEF Calls
<1>7. UNCHANGED <<quota, objects, uiQueue, windows, pickers>>
  BY DEF CallerCloses
<1> QED
  BY <1>1, <1>4, <1>5, <1>6, <1>7

(* The picker of the first command of the queue is opened, or it fails.    *)
LEMMA PickerOpens ==
  ASSUME PInv, OpenPicker
  PROVE  \E r \in Requests :
           LET c == calls[r] d == calls'[r] IN
           /\ uiQueue # << >> /\ uiQueue' = Tail(uiQueue) /\ Opens(1, r)
           /\ UNCHANGED <<quota, objects, said>>
           /\ \A s \in Requests : s # r => calls'[s] = calls[s]
           /\ d.pc = c.pc /\ d.pending = c.pending /\ d.cancel = c.cancel
           /\ d.outcome = c.outcome /\ d.code = c.code
           /\ \/ /\ windows' = [windows EXCEPT ![HandleOf[r]] = r] /\ pickers' = pickers \union {r}
                 /\ d.response = c.response /\ d.started \in {c.started, "ok"}
              \/ /\ UNCHANGED <<windows, pickers>> /\ d.started \in {c.started, "error"}
                 /\ d.response = c.response \/ (d.response = "failed" /\ Listens(r))
<1> DEFINE r == Head(uiQueue).request
           ok == IF Listens(r) THEN [calls EXCEPT ![r].started = "ok"] ELSE calls
           error == IF Listens(r) THEN [calls EXCEPT ![r].started = "error"] ELSE calls
<1>0. PortalTypeOK
  BY DEF PInv
<1>1. /\ uiQueue # << >> /\ uiQueue' = Tail(uiQueue) /\ Head(uiQueue).kind = "Open"
      /\ UNCHANGED <<quota, objects, said>>
  BY DEF OpenPicker
<1>2. r \in Requests /\ Opens(1, r) /\ calls \in [Requests -> Calls] /\ calls[r] \in Calls
  BY <1>0, <1>1, Taken DEF PortalTypeOK, Opens
<1>3. /\ \A s \in Requests : s # r => ok[s] = calls[s] /\ error[s] = calls[s]
      /\ ok[r] \in {calls[r], [calls[r] EXCEPT !.started = "ok"]}
      /\ error[r] \in {calls[r], [calls[r] EXCEPT !.started = "error"]}
  BY <1>2
<1>4. ok \in [Requests -> Calls] /\ error \in [Requests -> Calls]
  BY <1>2, Fields
<1>5. \/ /\ windows' = [windows EXCEPT ![HandleOf[r]] = r] /\ pickers' = pickers \union {r}
         /\ calls' = ok
      \/ /\ UNCHANGED <<windows, pickers>>
         /\ calls' = Respond(r, "failed", error)
  BY DEF OpenPicker
<1> HIDE DEF ok, error, r
<1>6. LET d == ok[r] c == calls[r] IN
      /\ d.pc = c.pc /\ d.pending = c.pending /\ d.cancel = c.cancel
      /\ d.outcome = c.outcome /\ d.code = c.code
      /\ d.response = c.response /\ d.started \in {c.started, "ok"}
  BY <1>2, <1>3 DEF Calls
<1>7. LET d == error[r] c == calls[r] IN
      /\ d.pc = c.pc /\ d.pending = c.pending /\ d.cancel = c.cancel
      /\ d.outcome = c.outcome /\ d.code = c.code
      /\ d.response = c.response /\ d.started \in {c.started, "error"}
  BY <1>2, <1>3 DEF Calls
<1>8. CASE calls' = ok /\ windows' = [windows EXCEPT ![HandleOf[r]] = r] /\ pickers' = pickers \union {r}
  BY <1>1, <1>2, <1>3, <1>6, <1>8
<1>9. CASE calls' = Respond(r, "failed", error) /\ UNCHANGED <<windows, pickers>>
  <2>1. "failed" \in Ends
    BY DEF Ends
  <2>2. \A s \in Requests : s # r => calls'[s] = calls[s]
    <3>1. \A s \in Requests : s # r => Respond(r, "failed", error)[s] = error[s]
      BY <1>0, <1>2, <1>4, <2>1, Responded
    <3> QED
      BY <1>3, <1>9, <3>1
  <2>3. LET d == calls'[r] c == error[r] IN
        /\ d.pc = c.pc /\ d.pending = c.pending /\ d.cancel = c.cancel /\ d.started = c.started
        /\ d.outcome = c.outcome /\ d.code = c.code
        /\ d.response = c.response \/ (d.response = "failed" /\ Listens(r))
    BY <1>0, <1>2, <1>4, <1>9, <2>1, ResponseOnly
  <2> QED
    BY <1>1, <1>2, <1>7, <1>9, <2>2, <2>3
<1> QED
  BY <1>5, <1>8, <1>9

(* A Close finds no window, or one whose call has its outcome.             *)
LEMMA PickerCloses ==
  ASSUME PInv, ClosePicker
  PROVE  /\ uiQueue # << >> /\ uiQueue' = Tail(uiQueue) /\ uiQueue[1].kind = "Close"
         /\ UNCHANGED <<quota, objects, said, calls>>
         /\ pickers' \subseteq pickers
         /\ \A s \in pickers : s \in pickers' \/ ~Listens(s)
         /\ \A h \in Handles : windows'[h] \in {windows[h], NoRequest}
<1>0. PortalTypeOK
  BY DEF PInv
<1>1. /\ uiQueue # << >> /\ uiQueue' = Tail(uiQueue) /\ Head(uiQueue).kind = "Close"
      /\ UNCHANGED <<quota, objects, said>>
  BY DEF ClosePicker
<1> DEFINE h == Head(uiQueue).handle
           r == windows[h]
<1>2. /\ h \in Handles /\ 1 \in 1 .. Len(uiQueue) /\ ClosesAt(1, h) /\ uiQueue[1].kind = "Close"
      /\ r \in Requests \union {NoRequest}
  BY <1>0, <1>1, Taken DEF PortalTypeOK, ClosesAt, UiCommands
<1>3. CASE r = NoRequest
  <2>1. UNCHANGED <<windows, pickers, calls>>
    BY <1>3 DEF ClosePicker
  <2> QED
    BY <1>1, <1>2, <2>1
<1>4. CASE r # NoRequest
  <2>1. Leave(r, "cancelled")
    BY <1>4 DEF ClosePicker
  <2>2. ~Listens(r)
    BY <1>2, <1>4 DEF PInv, ClosesOwn, WindowsOwn
  <2>3. calls' = calls
    BY <2>1, <2>2 DEF Leave, Respond
  <2>4. pickers' = pickers \ {r}
    BY <2>1 DEF Leave
  <2>5. windows \in [Handles -> Requests \union {NoRequest}]
    BY <1>0 DEF PortalTypeOK
  <2>6. \A k \in Handles : windows'[k] \in {windows[k], NoRequest}
    BY <2>1, <2>5 DEF Leave
  <2> HIDE DEF r
  <2> QED
    BY <1>1, <1>2, <2>2, <2>3, <2>4, <2>6
<1> QED
  BY <1>3, <1>4

LEMMA TypeKept ==
  ASSUME PInv, [PortalNext]_portalVars
  PROVE  PortalTypeOK'
<1> USE PcsExist
<1>0. PortalTypeOK
  BY DEF PInv
<1>1. ASSUME NEW r \in Requests, Serve(r) PROVE PortalTypeOK'
  <2>0. calls' \in [Requests -> Calls]
    BY <1>1, CallsKept
  <2>1. quota' \in [total : Nat, perApp : [Apps -> Nat]]
    <3>1. CASE UNCHANGED quota
      BY <3>1, <1>0 DEF PortalTypeOK
    <3>2. CASE TakePermit(r)
      BY <3>2, <1>0, NamesExist, QuotaFields
    <3>3. CASE DropPermit(r)
      BY <3>3, <1>0, NamesExist, QuotaFields DEF SaturatingDecrement
    <3> QED
      BY <1>1, <3>1, <3>2, <3>3 DEF Serve, Acquire, Publish, SendOpen, Waits, StartupTimedOut, StartupCancelled,
         StartupStarted, Answers, TakeResponse, SeeCancel, SeeTimeout, Closes, CloseAfterStartup,
         CloseWhileWaiting, Unpublish, Return
  <2>2. objects' \in [Handles -> Requests \union {NoRequest}]
    BY <1>0, <1>1, NamesExist DEF PortalTypeOK, Serve, Acquire, Publish, SendOpen, Waits, StartupTimedOut,
       StartupCancelled, StartupStarted, Answers, TakeResponse, SeeCancel, SeeTimeout, Closes,
       CloseAfterStartup, CloseWhileWaiting, Unpublish, Return
  <2>3. uiQueue' \in Seq(UiCommands) /\ \A i \in 1 .. Len(uiQueue') : uiQueue'[i].kind = "Open" => uiQueue'[i].request \in Requests
    <3>1. CASE UNCHANGED uiQueue
      BY <1>0, <3>1 DEF PortalTypeOK
    <3>0. ASSUME NEW c \in UiCommands, c.kind = "Open" => c.request \in Requests, Enqueue(c)
          PROVE  uiQueue' \in Seq(UiCommands) /\ \A i \in 1 .. Len(uiQueue') : uiQueue'[i].kind = "Open" => uiQueue'[i].request \in Requests
      <4>1. uiQueue \in Seq(UiCommands) /\ \A i \in 1 .. Len(uiQueue) : uiQueue[i].kind = "Open" => uiQueue[i].request \in Requests
        BY <1>0 DEF PortalTypeOK
      <4>2. \A i \in 1 .. Len(uiQueue') : i \in 1 .. Len(uiQueue) \/ i = Len(uiQueue) + 1
        BY <4>1, <3>0, Sent
      <4> QED
        BY <4>1, <4>2, <3>0, Sent
    <3>2. CASE Enqueue(CloseCommand(r))
      BY <3>0, <3>2, CommandsExist DEF CloseCommand
    <3>3. CASE Enqueue([kind |-> "Open", handle |-> HandleOf[r], request |-> r])
      BY <3>0, <3>3, CommandsExist
    <3> QED
      BY <1>1, <3>1, <3>2, <3>3 DEF Serve, Acquire, Publish, SendOpen, Waits, StartupTimedOut, StartupCancelled,
         StartupStarted, Answers, TakeResponse, SeeCancel, SeeTimeout, Closes, CloseAfterStartup,
         CloseWhileWaiting, Unpublish, Return
  <2>4. windows' = windows /\ pickers' = pickers
    BY <1>1 DEF Serve, Acquire, Publish, SendOpen, Waits, StartupTimedOut,
       StartupCancelled, StartupStarted, Answers, TakeResponse, SeeCancel, SeeTimeout, Closes,
       CloseAfterStartup, CloseWhileWaiting, Unpublish, Return
  <2>5. said' \in [Requests -> SUBSET {"accept", "cancel", "close", "timeout"}]
    <3>1. said' = said \/ said' = [said EXCEPT ![r] = @ \union {"timeout"}]
      BY <1>1 DEF Serve, Acquire, Publish, SendOpen, Waits, StartupTimedOut,
         StartupCancelled, StartupStarted, Answers, TakeResponse, SeeCancel, SeeTimeout, Closes,
         CloseAfterStartup, CloseWhileWaiting, Unpublish, Return
    <3> QED
      BY <1>0, <3>1 DEF PortalTypeOK
  <2> QED
    BY <1>0, <2>0, <2>1, <2>2, <2>3, <2>4, <2>5 DEF PortalTypeOK
<1>2. ASSUME NEW r \in Requests, UserAccepts(r) \/ UserCancels(r) PROVE PortalTypeOK'
  <2>1. PICK o \in {"accepted", "cancelled"}, w \in {"accept", "cancel"} :
             Leave(r, o) /\ said' = [said EXCEPT ![r] = @ \union {w}] /\ UNCHANGED <<quota, objects, uiQueue>>
    BY <1>2 DEF UserAccepts, UserCancels
  <2>2. calls \in [Requests -> Calls]
    BY <1>0 DEF PortalTypeOK
  <2>3. calls' \in [Requests -> Calls]
    BY <1>0, <2>1, <2>2, Responded DEF Leave
  <2>4. said' \in [Requests -> SUBSET {"accept", "cancel", "close", "timeout"}]
    BY <1>0, <2>1 DEF PortalTypeOK
  <2> QED
    BY <1>0, <2>1, <2>3, <2>4, NamesExist DEF Leave, PortalTypeOK
<1>3. ASSUME NEW h \in Handles, CallerCloses(h) PROVE PortalTypeOK'
  <2>1. objects[h] \in Requests /\ calls[objects[h]] \in Calls
    BY <1>0, <1>3 DEF CallerCloses, PortalTypeOK
  <2>2. calls' \in [Requests -> Calls]
    BY <1>0, <1>3, <2>1, Fields DEF CallerCloses, PortalTypeOK
  <2> QED
    BY <1>0, <1>3, <2>1, <2>2 DEF CallerCloses, PortalTypeOK
<1>4. CASE OpenPicker
  <2> DEFINE r == uiQueue[1].request
             started(o) == IF Listens(r) THEN [calls EXCEPT ![r].started = o] ELSE calls
  <2>1. r \in Requests /\ Head(uiQueue) = uiQueue[1] /\ calls[r] \in Calls
    BY <1>0, <1>4, Taken DEF OpenPicker, PortalTypeOK
  <2>2. \A o \in {"ok", "error"} : started(o) \in [Requests -> Calls]
    BY <1>0, <2>1, Fields DEF PortalTypeOK
  <2>3. Respond(r, "failed", started("error")) \in [Requests -> Calls]
    <3> HIDE DEF started
    <3> QED
      BY <1>0, <2>1, <2>2, Responded
  <2>4. calls' \in [Requests -> Calls]
    BY <1>4, <2>1, <2>2, <2>3 DEF OpenPicker
  <2>5. uiQueue' \in Seq(UiCommands) /\ \A i \in 1 .. Len(uiQueue') : uiQueue'[i].kind = "Open" => uiQueue'[i].request \in Requests
    BY <1>0, <1>4, Taken DEF OpenPicker, PortalTypeOK
  <2> QED
    BY <1>0, <1>4, <2>1, <2>4, <2>5, NamesExist DEF OpenPicker, PortalTypeOK
<1>5. CASE ClosePicker
  <2> DEFINE r == windows[uiQueue[1].handle]
  <2>1. r \in Requests \union {NoRequest} /\ Head(uiQueue) = uiQueue[1]
    BY <1>0, <1>5, Taken DEF ClosePicker, PortalTypeOK, UiCommands
  <2>2. calls' \in [Requests -> Calls]
    BY <1>0, <1>5, PickerCloses DEF PortalTypeOK
  <2>3. uiQueue' \in Seq(UiCommands) /\ \A i \in 1 .. Len(uiQueue') : uiQueue'[i].kind = "Open" => uiQueue'[i].request \in Requests
    BY <1>0, <1>5, Taken DEF ClosePicker, PortalTypeOK
  <2> QED
    BY <1>0, <1>5, <2>1, <2>2, <2>3, NamesExist DEF ClosePicker, Leave, PortalTypeOK
<1>6. CASE UNCHANGED portalVars
  BY <1>0, <1>6 DEF portalVars, PortalTypeOK
<1> QED
  BY <1>1, <1>2, <1>3, <1>4, <1>5, <1>6 DEF PortalNext

-----------------------------------------------------------------------------
(* The quota.                                                              *)
HoldersOf(a) == {r \in Holders : AppOf[r] = a}

LEMMA HoldersAreFinite ==
  IsFiniteSet(Holders) /\ \A a : IsFiniteSet(HoldersOf(a))
BY RequestsAssumption, FS_Subset DEF Holders, HoldersOf

LEMMA PermitTaken ==
  ASSUME PortalTypeOK, QuotaIsExact, NEW r \in Requests, r \notin Holders,
         QuotaAllows(r), TakePermit(r), Holders' = Holders \union {r}
  PROVE  QuotaIsExact'
<1>1. Cardinality(Holders') = Cardinality(Holders) + 1
  BY HoldersAreFinite, FS_AddElement
<1>2. \A a \in Apps : Cardinality(HoldersOf(a)') = Cardinality(HoldersOf(a)) + (IF a = AppOf[r] THEN 1 ELSE 0)
  <2> SUFFICES ASSUME NEW a \in Apps
               PROVE  Cardinality(HoldersOf(a)') = Cardinality(HoldersOf(a)) + (IF a = AppOf[r] THEN 1 ELSE 0)
    OBVIOUS
  <2>1. CASE a = AppOf[r]
    <3>1. HoldersOf(a)' = HoldersOf(a) \union {r} /\ r \notin HoldersOf(a)
      BY <2>1 DEF HoldersOf
    <3> QED
      BY <2>1, <3>1, HoldersAreFinite, FS_AddElement
  <2>2. CASE a # AppOf[r]
    <3>1. HoldersOf(a)' = HoldersOf(a)
      BY <2>2 DEF HoldersOf
    <3>2. Cardinality(HoldersOf(a)) \in Nat
      BY HoldersAreFinite, FS_CardinalityType
    <3> QED
      BY <2>2, <3>1, <3>2
  <2> QED
    BY <2>1, <2>2
<1>3. /\ quota.total = Cardinality(Holders) /\ quota.total < MaxActive
      /\ \A a \in Apps : quota.perApp[a] = Cardinality(HoldersOf(a)) /\ quota.perApp[a] <= MaxPerApp
      /\ quota.perApp[AppOf[r]] < MaxPerApp
  BY DEF QuotaIsExact, QuotaAllows, HoldersOf
<1>4. /\ quota.total \in Nat /\ quota.perApp \in [Apps -> Nat]
      /\ quota'.total = quota.total + 1
      /\ quota'.perApp = [quota.perApp EXCEPT ![AppOf[r]] = @ + 1]
  BY QuotaFields
<1>5. quota'.total = Cardinality(Holders') /\ quota'.total <= MaxActive
  BY <1>1, <1>3, <1>4, CapacityAssumption
<1>6. ASSUME NEW a \in Apps
      PROVE  quota'.perApp[a] = Cardinality(HoldersOf(a)') /\ quota'.perApp[a] <= MaxPerApp
  <2>1. CASE a = AppOf[r]
    BY <1>2, <1>3, <1>4, <2>1, CapacityAssumption
  <2>2. CASE a # AppOf[r]
    BY <1>2, <1>3, <1>4, <2>2, CapacityAssumption
  <2> QED
    BY <2>1, <2>2
<1> QED
  BY <1>5, <1>6 DEF QuotaIsExact, HoldersOf

LEMMA PermitDropped ==
  ASSUME PortalTypeOK, QuotaIsExact, NEW r \in Requests, r \in Holders,
         DropPermit(r), Holders' = Holders \ {r}
  PROVE  QuotaIsExact'
<1>1. Cardinality(Holders') = Cardinality(Holders) - 1 /\ Cardinality(Holders') \in Nat
  BY HoldersAreFinite, FS_RemoveElement, FS_CardinalityType
<1>2. \A a \in Apps : Cardinality(HoldersOf(a)') = Cardinality(HoldersOf(a)) - (IF a = AppOf[r] THEN 1 ELSE 0)
                      /\ Cardinality(HoldersOf(a)') \in Nat
  <2> SUFFICES ASSUME NEW a \in Apps
               PROVE  Cardinality(HoldersOf(a)') = Cardinality(HoldersOf(a)) - (IF a = AppOf[r] THEN 1 ELSE 0)
                      /\ Cardinality(HoldersOf(a)') \in Nat
    OBVIOUS
  <2>1. CASE a = AppOf[r]
    <3>1. HoldersOf(a)' = HoldersOf(a) \ {r} /\ r \in HoldersOf(a)
      BY <2>1 DEF HoldersOf
    <3> QED
      BY <2>1, <3>1, HoldersAreFinite, FS_RemoveElement, FS_CardinalityType
  <2>2. CASE a # AppOf[r]
    <3>1. HoldersOf(a)' = HoldersOf(a)
      BY <2>2 DEF HoldersOf
    <3>2. Cardinality(HoldersOf(a)) \in Nat
      BY HoldersAreFinite, FS_CardinalityType
    <3> QED
      BY <2>2, <3>1, <3>2
  <2> QED
    BY <2>1, <2>2
<1>3. /\ quota.total = Cardinality(Holders) /\ quota.total <= MaxActive
      /\ \A a \in Apps : quota.perApp[a] = Cardinality(HoldersOf(a)) /\ quota.perApp[a] <= MaxPerApp
  BY DEF QuotaIsExact, HoldersOf
<1>4. /\ quota.total \in Nat /\ quota.perApp \in [Apps -> Nat]
      /\ quota'.total = SaturatingDecrement(quota.total)
      /\ quota'.perApp = [quota.perApp EXCEPT ![AppOf[r]] = SaturatingDecrement(@)]
  BY QuotaFields
<1>5. quota'.total = Cardinality(Holders') /\ quota'.total <= MaxActive
  BY <1>1, <1>3, <1>4, CapacityAssumption DEF SaturatingDecrement
<1>6. ASSUME NEW a \in Apps
      PROVE  quota'.perApp[a] = Cardinality(HoldersOf(a)') /\ quota'.perApp[a] <= MaxPerApp
  <2>1. CASE a = AppOf[r]
    <3>1. quota'.perApp[a] = SaturatingDecrement(quota.perApp[a])
      BY <1>4, <2>1
    <3> QED
      BY <1>2, <1>3, <1>4, <2>1, <3>1, CapacityAssumption DEF SaturatingDecrement
  <2>2. CASE a # AppOf[r]
    BY <1>2, <1>3, <1>4, <2>2, CapacityAssumption
  <2> QED
    BY <2>1, <2>2
<1> QED
  BY <1>5, <1>6 DEF QuotaIsExact, HoldersOf

-----------------------------------------------------------------------------
LEMMA ProgressKept ==
  ASSUME PInv, Answering \/ UNCHANGED portalVars
  PROVE  /\ quota' = quota /\ objects' = objects
         /\ \A s \in Requests : calls'[s].pc = calls[s].pc
<1>1. CASE \E r \in Requests : UserAccepts(r) \/ UserCancels(r)
  BY <1>1, UserLeaves
<1>2. CASE \E h \in Handles : CallerCloses(h)
  BY <1>2, CallerEnds
<1>3. CASE OpenPicker
  BY <1>3, PickerOpens
<1>4. CASE ClosePicker
  BY <1>4, PickerCloses
<1>5. CASE UNCHANGED portalVars
  BY <1>5 DEF portalVars
<1> QED
  BY <1>1, <1>2, <1>3, <1>4, <1>5 DEF Answering

LEMMA NextSplits ==
  ASSUME [PortalNext]_portalVars
  PROVE  (\E r \in Requests : Serve(r)) \/ Answering \/ UNCHANGED portalVars
BY DEF PortalNext, Answering

LEMMA SameHolders ==
  ASSUME QuotaIsExact, quota' = quota, Holders' = Holders
  PROVE  QuotaIsExact'
BY DEF QuotaIsExact

LEMMA QuotaKept ==
  ASSUME PInv, [PortalNext]_portalVars
  PROVE  QuotaIsExact'
<1>0. PortalTypeOK /\ QuotaIsExact
  BY DEF PInv
<1>1. ASSUME NEW r \in Requests, Serve(r) PROVE QuotaIsExact'
  <2>0. \A s \in Requests : s # r => calls'[s] = calls[s]
    BY <1>1, ServedAlone
  <2>1. CASE Acquire(r) /\ QuotaAllows(r)
    <3>1. calls[r].pc = "idle" /\ calls'[r].pc = "publish" /\ TakePermit(r)
      BY <1>0, <2>1, PcsExist, Entered DEF Acquire, At
    <3>2. r \notin Holders /\ Holders' = Holders \union {r}
      BY <2>0, <3>1 DEF Holders
    <3> QED
      BY <1>0, <2>1, <3>1, <3>2, PermitTaken
  <2>2. CASE Acquire(r) /\ ~QuotaAllows(r)
    <3>1. calls[r].pc = "idle" /\ calls'[r].pc = "returned" /\ quota' = quota
      BY <1>0, <2>2, Returned DEF Acquire, At
    <3>2. Holders' = Holders
      BY <2>0, <3>1 DEF Holders
    <3> QED
      BY <1>0, <3>1, <3>2, SameHolders
  <2>3. CASE Publish(r) /\ objects[HandleOf[r]] = NoRequest
    <3>1. calls[r].pc = "publish" /\ calls'[r].pc = "open" /\ quota' = quota
      BY <1>0, <2>3, PcsExist, Entered DEF Publish, At
    <3>2. Holders' = Holders
      BY <2>0, <3>1 DEF Holders
    <3> QED
      BY <1>0, <3>1, <3>2, SameHolders
  <2>4. CASE (Publish(r) /\ objects[HandleOf[r]] # NoRequest) \/ Return(r)
    <3>1. calls[r].pc \in {"publish", "return"} /\ calls'[r].pc = "returned" /\ DropPermit(r)
      BY <1>0, <2>4, Returned DEF Publish, Return, At
    <3>2. r \in Holders /\ Holders' = Holders \ {r}
      BY <2>0, <3>1 DEF Holders
    <3> QED
      BY <1>0, <3>1, <3>2, PermitDropped
  <2>5. CASE ~Acquire(r) /\ ~Publish(r) /\ ~Return(r)
    <3>1. quota' = quota
      BY <1>1, <2>5 DEF Serve, SendOpen, Waits, StartupTimedOut, StartupCancelled, StartupStarted,
         Answers, TakeResponse, SeeCancel, SeeTimeout, Closes, CloseAfterStartup, CloseWhileWaiting,
         Unpublish
    <3>2. calls[r].pc \notin {"idle", "returned"} /\ calls'[r].pc \notin {"idle", "returned"}
      BY <1>1, <2>5, Served DEF Moves
    <3>3. Holders' = Holders
      BY <2>0, <3>2 DEF Holders
    <3> QED
      BY <1>0, <3>1, <3>3, SameHolders
  <2> QED
    BY <2>1, <2>2, <2>3, <2>4, <2>5
<1>2. CASE Answering \/ UNCHANGED portalVars
  <2>1. quota' = quota /\ Holders' = Holders
    BY <1>2, ProgressKept DEF Holders
  <2> QED
    BY <1>0, <2>1, SameHolders
<1> QED
  BY <1>1, <1>2, NextSplits

-----------------------------------------------------------------------------
(* A call that may still send to its picker keeps its handle.              *)
LEMMA OwnedKept ==
  ASSUME PInv, [PortalNext]_portalVars
  PROVE  Owned'
<1>0. Owned /\ objects \in [Handles -> Requests \union {NoRequest}]
  BY DEF PInv, PortalTypeOK
<1>1. ASSUME NEW r \in Requests, Serve(r) PROVE Owned'
  <2>0. \A s \in Requests : s # r => calls'[s] = calls[s]
    BY <1>1, ServedAlone
  <2>1. CASE Publish(r)
    <3>1. CASE objects[HandleOf[r]] = NoRequest
      <4>1. objects' = [objects EXCEPT ![HandleOf[r]] = r]
        BY <2>1, <3>1 DEF Publish
      <4>2. \A s \in Requests : s # r /\ calls'[s].pc \in Published => HandleOf[s] # HandleOf[r]
        BY <1>0, <2>0, <3>1, NamesExist DEF Owned
      <4> QED
        BY <1>0, <2>0, <4>1, <4>2, NamesExist DEF Owned
    <3>2. CASE objects[HandleOf[r]] # NoRequest
      <4>1. objects' = objects
        BY <2>1, <3>2 DEF Publish
      <4>2. calls'[r].pc = "returned"
        BY <2>1, <3>2, Returned DEF PInv, Publish
      <4> QED
        BY <1>0, <2>0, <4>1, <4>2 DEF Owned, Published
    <3> QED
      BY <3>1, <3>2
  <2>2. CASE Unpublish(r)
    <3>1. calls[r].pc = "unpublish" /\ calls'[r].pc = "return"
      BY <2>2, PcsExist, Entered DEF PInv, Unpublish, At
    <3>2. objects' = [objects EXCEPT ![HandleOf[r]] = NoRequest]
      BY <2>2 DEF Unpublish
    <3>3. \A s \in Requests : s # r /\ calls'[s].pc \in Published => HandleOf[s] # HandleOf[r]
      BY <1>0, <2>0, <3>1 DEF Owned, Published
    <3> QED
      BY <1>0, <2>0, <3>1, <3>2, <3>3, NamesExist DEF Owned, Published
  <2>3. CASE ~Publish(r) /\ ~Unpublish(r)
    <3>1. objects' = objects
      BY <1>1, <2>3 DEF Serve, Acquire, SendOpen, Waits, StartupTimedOut, StartupCancelled, StartupStarted,
         Answers, TakeResponse, SeeCancel, SeeTimeout, Closes, CloseAfterStartup, CloseWhileWaiting,
         Return
    <3>2. calls'[r].pc \in Published => calls[r].pc \in Published
      BY <1>1, <2>3, Served DEF Moves, Published
    <3> QED
      BY <1>0, <2>0, <3>1, <3>2 DEF Owned
  <2> QED
    BY <2>1, <2>2, <2>3
<1>2. CASE Answering \/ UNCHANGED portalVars
  BY <1>0, <1>2, ProgressKept DEF Owned
<1> QED
  BY <1>1, <1>2, NextSplits

-----------------------------------------------------------------------------
(* The queue.                                                              *)
\* The queue loses its first k commands, no call begins to listen, and a new
\* window is that of the command taken.
LEMMA QueueShrinks ==
  ASSUME PInv, NEW k \in {0, 1}, Len(uiQueue) \in Nat, Len(uiQueue') = Len(uiQueue) - k,
         k = 1 => Len(uiQueue) > 0,
         \A i \in 1 .. Len(uiQueue') : uiQueue'[i] = uiQueue[i + k],
         \A s \in Requests : Listens(s)' => Listens(s),
         \A s \in Requests : calls[s].pc \notin Early => calls'[s].pc \notin Early,
         \A h \in Handles :
            \/ windows'[h] \in {windows[h], NoRequest}
            \/ k = 1 /\ windows'[h] \in Requests /\ HandleOf[windows'[h]] = h /\ Opens(1, windows'[h])
  PROVE  AskedOnce' /\ ClosesLater' /\ WindowsOwn'
<1>0. \A i \in 1 .. Len(uiQueue') : i + k \in 1 .. Len(uiQueue)
  OBVIOUS
<1>1. \A i \in 1 .. Len(uiQueue'), s \in Requests : Opens(i, s)' <=> Opens(i + k, s)
  BY DEF Opens
<1>2. \A i \in 1 .. Len(uiQueue'), h \in Handles : ClosesAt(i, h)' <=> ClosesAt(i + k, h)
  BY DEF ClosesAt
<1>3. AskedOnce'
  <2> SUFFICES ASSUME NEW r \in Requests, NEW i \in 1 .. Len(uiQueue'), NEW j \in 1 .. Len(uiQueue'),
                      Opens(i, r)', Opens(j, r)'
               PROVE  i = j
    BY DEF AskedOnce
  <2>1. i + k = j + k
    BY <1>0, <1>1 DEF PInv, AskedOnce
  <2> QED
    BY <2>1
<1>4. ClosesLater'
  <2> SUFFICES ASSUME NEW r \in Requests, NEW i \in 1 .. Len(uiQueue'), NEW j \in 1 .. Len(uiQueue'),
                      i < j, Opens(i, r)', ClosesAt(j, HandleOf[r])'
               PROVE  ~Listens(r)'
    BY DEF ClosesLater
  <2>0. i + k < j + k
    OBVIOUS
  <2>1. i + k < j + k /\ Opens(i + k, r) /\ ClosesAt(j + k, HandleOf[r])
    BY <1>1, <1>2, <2>0, NamesExist
  <2>2. ~Listens(r)
    BY <1>0, <2>1 DEF PInv, ClosesOwn, ClosesLater
  <2> QED
    BY <2>2
<1>5. WindowsOwn'
  <2> SUFFICES ASSUME NEW h \in Handles, windows'[h] # NoRequest
               PROVE  /\ HandleOf[windows'[h]] = h
                      /\ calls'[windows'[h]].pc \notin Early
                      /\ \A j \in 1 .. Len(uiQueue') : ClosesAt(j, h)' => ~Listens(windows[h])'
    BY DEF WindowsOwn
  <2>1. CASE windows'[h] = windows[h]
    <3>1. windows[h] \in Requests
      BY <2>1 DEF PInv, PortalTypeOK
    <3>2. /\ HandleOf[windows[h]] = h /\ calls[windows[h]].pc \notin Early
          /\ \A j \in 1 .. Len(uiQueue) : ClosesAt(j, h) => ~Listens(windows[h])
      BY <2>1 DEF PInv, ClosesOwn, WindowsOwn
    <3> QED
      BY <1>0, <1>2, <2>1, <3>1, <3>2 DEF Listens
  <2>2. CASE k = 1 /\ windows'[h] \in Requests /\ HandleOf[windows'[h]] = h /\ Opens(1, windows'[h])
    <3> DEFINE r == windows'[h]
    <3>1. Asked(r)
      BY <2>2 DEF Asked
    <3>2. calls[r].pc \notin Early
      BY <2>2, <3>1 DEF PInv, Told, Open
    <3>3. \A j \in 1 .. Len(uiQueue') : ClosesAt(j, h)' => ~Listens(r)
      <4> SUFFICES ASSUME NEW j \in 1 .. Len(uiQueue'), ClosesAt(j, h)' PROVE ~Listens(r)
        OBVIOUS
      <4>1. 1 < j + k /\ ClosesAt(j + k, HandleOf[r]) /\ 1 \in 1 .. Len(uiQueue) /\ j + k \in 1 .. Len(uiQueue)
        BY <1>0, <1>2, <2>2
      <4> HIDE DEF r
      <4> QED
        BY <2>2, <4>1 DEF PInv, ClosesOwn, ClosesLater, r
    <3> QED
      BY <2>2, <3>2, <3>3 DEF Listens
  <2> QED
    BY <2>1, <2>2
<1> QED
  BY <1>3, <1>4, <1>5

(* A call asks for its window when it has been asked for by nobody.        *)
LEMMA OpenIsSent ==
  ASSUME PInv, NEW r \in Requests, SendOpen(r)
  PROVE  AskedOnce' /\ ClosesLater' /\ WindowsOwn'
<1>0. /\ windows' = windows /\ \A s \in Requests : s # r => calls'[s] = calls[s]
      /\ calls[r].pc = "open"
  BY ServedAlone DEF Serve, SendOpen, At
<1>1. PICK N \in Nat :
      /\ N = Len(uiQueue) /\ Len(uiQueue') = N + 1 /\ \A i \in 1 .. N : uiQueue'[i] = uiQueue[i]
      /\ uiQueue'[N + 1] = [kind |-> "Open", handle |-> HandleOf[r], request |-> r]
  <2>1. Enqueue([kind |-> "Open", handle |-> HandleOf[r], request |-> r]) /\ uiQueue \in Seq(UiCommands)
    BY DEF PInv, PortalTypeOK, SendOpen
  <2> QED
    BY <2>1, CommandsExist, Sent
<1>2. \A i \in 1 .. N : ~Opens(i, r)
  BY <1>0, <1>1 DEF PInv, Told, Open, Early, Asked
<1>3. \A i \in 1 .. Len(uiQueue') : i \in 1 .. N \/ i = N + 1
  BY <1>1
<1>4. \A i \in 1 .. N, s \in Requests : Opens(i, s)' <=> Opens(i, s)
  BY <1>1 DEF Opens
<1>5. \A s \in Requests : Opens(N + 1, s)' <=> s = r
  BY <1>1 DEF Opens
<1>6. \A h \in Handles : ~ClosesAt(N + 1, h)' /\ \A i \in 1 .. N : ClosesAt(i, h)' <=> ClosesAt(i, h)
  BY <1>1 DEF ClosesAt
<1>7. AskedOnce'
  <2> SUFFICES ASSUME NEW s \in Requests, NEW i \in 1 .. Len(uiQueue'), NEW j \in 1 .. Len(uiQueue'),
                      Opens(i, s)', Opens(j, s)'
               PROVE  i = j
    BY DEF AskedOnce
  <2>1. CASE i \in 1 .. N /\ j \in 1 .. N
    BY <1>4, <2>1, <1>1 DEF PInv, AskedOnce
  <2>2. CASE i = N + 1 \/ j = N + 1
    BY <1>2, <1>3, <1>4, <1>5, <2>2
  <2> QED
    BY <1>3, <2>1, <2>2
<1>8. ClosesLater'
  <2> SUFFICES ASSUME NEW s \in Requests, NEW i \in 1 .. Len(uiQueue'), NEW j \in 1 .. Len(uiQueue'),
                      i < j, Opens(i, s)', ClosesAt(j, HandleOf[s])'
               PROVE  ~Listens(s)'
    BY DEF ClosesLater
  <2>1. j \in 1 .. N /\ i \in 1 .. N
    BY <1>1, <1>3, <1>6, NamesExist
  <2>2. Opens(i, s) /\ ClosesAt(j, HandleOf[s])
    BY <1>4, <1>6, <2>1, NamesExist
  <2>3. ~Listens(s) /\ s # r
    BY <1>2, <2>1, <2>2, <1>1 DEF PInv, ClosesOwn, ClosesLater
  <2> QED
    BY <1>0, <2>3 DEF Listens
<1>9. WindowsOwn'
  <2> SUFFICES ASSUME NEW h \in Handles, windows[h] # NoRequest
               PROVE  /\ HandleOf[windows[h]] = h
                      /\ calls'[windows[h]].pc \notin Early
                      /\ \A j \in 1 .. Len(uiQueue') : ClosesAt(j, h)' => ~Listens(windows[h])'
    BY <1>0 DEF WindowsOwn
  <2>1. /\ HandleOf[windows[h]] = h /\ calls[windows[h]].pc \notin Early
        /\ \A j \in 1 .. N : ClosesAt(j, h) => ~Listens(windows[h])
    BY <1>1 DEF PInv, ClosesOwn, WindowsOwn
  <2>2. windows[h] \in Requests /\ windows[h] # r
    BY <1>0, <2>1 DEF PInv, PortalTypeOK, Early
  <2> QED
    BY <1>0, <1>3, <1>6, <2>1, <2>2 DEF Listens
<1> QED
  BY <1>7, <1>8, <1>9

(* A Close is sent by the owner of its handle, which listens no more.      *)
LEMMA CloseIsSent ==
  ASSUME PInv, NEW r \in Requests, Closes(r)
  PROVE  AskedOnce' /\ ClosesLater' /\ WindowsOwn'
<1>0. /\ windows' = windows /\ \A s \in Requests : s # r => calls'[s] = calls[s]
      /\ Enqueue(CloseCommand(r)) /\ calls[r].pc \in {"closing", "waiting"} /\ calls'[r].pc = "unpublish"
  <2>1. Serve(r)
    BY DEF Serve
  <2>2. Enqueue(CloseCommand(r)) /\ calls[r].pc \in {"closing", "waiting"}
    BY DEF Closes, CloseAfterStartup, CloseWhileWaiting, Unanswered, At
  <2>3. calls'[r].pc = "unpublish"
    BY PcsExist, Entered, Concluded DEF PInv, Closes, CloseAfterStartup, CloseWhileWaiting
  <2> QED
    BY <2>1, <2>2, <2>3, ServedAlone
<1>1. PICK N \in Nat :
      /\ N = Len(uiQueue) /\ Len(uiQueue') = N + 1 /\ \A i \in 1 .. N : uiQueue'[i] = uiQueue[i]
      /\ uiQueue'[N + 1] = CloseCommand(r)
  <2>1. uiQueue \in Seq(UiCommands)
    BY DEF PInv, PortalTypeOK
  <2> QED
    BY <1>0, <2>1, CommandsExist, Sent
<1>3. \A i \in 1 .. Len(uiQueue') : i \in 1 .. N \/ i = N + 1
  BY <1>1
<1>4. \A i \in 1 .. N, s \in Requests : Opens(i, s)' <=> Opens(i, s)
  BY <1>1 DEF Opens
<1>5. \A s \in Requests : ~Opens(N + 1, s)'
  BY <1>1 DEF Opens, CloseCommand
<1>6. /\ \A h \in Handles, i \in 1 .. N : ClosesAt(i, h)' <=> ClosesAt(i, h)
      /\ \A h \in Handles : ClosesAt(N + 1, h)' <=> h = HandleOf[r]
  BY <1>1 DEF ClosesAt, CloseCommand
<1>2. \A s \in Requests : HandleOf[s] = HandleOf[r] => ~Listens(s)'
  <2> SUFFICES ASSUME NEW s \in Requests, HandleOf[s] = HandleOf[r], s # r, Listens(s)
               PROVE  FALSE
    BY <1>0 DEF Listens
  <2>1. objects[HandleOf[r]] = r /\ objects[HandleOf[s]] = s
    BY <1>0 DEF PInv, Owned, Published, Listens
  <2> QED
    BY <2>1
<1>10. \A s \in Requests : (Listens(s)' => Listens(s)) /\ (calls[s].pc \notin Early => calls'[s].pc \notin Early)
  BY <1>0 DEF Listens, Early
<1>7. AskedOnce'
  BY <1>3, <1>4, <1>5, <1>1 DEF PInv, AskedOnce
<1>8. ClosesLater'
  <2> SUFFICES ASSUME NEW s \in Requests, NEW i \in 1 .. Len(uiQueue'), NEW j \in 1 .. Len(uiQueue'),
                      i < j, Opens(i, s)', ClosesAt(j, HandleOf[s])'
               PROVE  ~Listens(s)'
    BY DEF ClosesLater
  <2>1. i \in 1 .. N /\ Opens(i, s)
    BY <1>3, <1>4, <1>5
  <2>2. CASE j = N + 1
    BY <1>2, <1>6, <2>2, NamesExist
  <2>3. CASE j \in 1 .. N
    <3>1. ClosesAt(j, HandleOf[s])
      BY <1>6, <2>3, NamesExist
    <3>2. ~Listens(s)
      BY <2>1, <2>3, <3>1, <1>1 DEF PInv, ClosesOwn, ClosesLater
    <3> QED
      BY <1>10, <3>2
  <2> QED
    BY <1>3, <2>2, <2>3
<1>9. WindowsOwn'
  <2> SUFFICES ASSUME NEW h \in Handles, windows[h] # NoRequest
               PROVE  /\ HandleOf[windows[h]] = h
                      /\ calls'[windows[h]].pc \notin Early
                      /\ \A j \in 1 .. Len(uiQueue') : ClosesAt(j, h)' => ~Listens(windows[h])'
    BY <1>0 DEF WindowsOwn
  <2>1. /\ HandleOf[windows[h]] = h /\ calls[windows[h]].pc \notin Early
        /\ \A j \in 1 .. N : ClosesAt(j, h) => ~Listens(windows[h])
    BY <1>1 DEF PInv, ClosesOwn, WindowsOwn
  <2>2. windows[h] \in Requests
    BY DEF PInv, PortalTypeOK
  <2>3. ASSUME NEW j \in 1 .. Len(uiQueue'), ClosesAt(j, h)' PROVE ~Listens(windows[h])'
    <3>1. CASE j = N + 1
      BY <1>0, <1>2, <1>6, <2>1, <2>2, <2>3, <3>1 DEF Listens
    <3>2. CASE j \in 1 .. N
      BY <1>0, <1>6, <1>10, <2>1, <2>2, <2>3, <3>2 DEF Listens
    <3> QED
      BY <1>3, <3>1, <3>2
  <2> QED
    BY <1>10, <2>1, <2>2, <2>3
<1> QED
  BY <1>7, <1>8, <1>9

LEMMA QueueKept ==
  ASSUME PInv, [PortalNext]_portalVars
  PROVE  AskedOnce' /\ ClosesLater' /\ WindowsOwn'
<1>0. uiQueue \in Seq(UiCommands) /\ windows \in [Handles -> Requests \union {NoRequest}] /\ Len(uiQueue) \in Nat
  BY LenProperties DEF PInv, PortalTypeOK
<1>1. ASSUME NEW r \in Requests, Serve(r), ~SendOpen(r), ~Closes(r)
      PROVE  AskedOnce' /\ ClosesLater' /\ WindowsOwn'
  <2>1. uiQueue' = uiQueue
    BY <1>1 DEF Serve, Acquire, Publish, Waits, StartupTimedOut, StartupCancelled, StartupStarted,
       Answers, TakeResponse, SeeCancel, SeeTimeout, Unpublish, Return
  <2>2. /\ windows' = windows
        /\ \A s \in Requests : s # r => calls'[s] = calls[s]
    BY <1>1, ServedAlone
  <2>3. /\ Listens(r)' => Listens(r)
        /\ calls[r].pc \notin Early => calls'[r].pc \notin Early
    BY <1>1, Served DEF Moves, Listens, Early
  <2>4. \A s \in Requests : (Listens(s)' => Listens(s)) /\ (calls[s].pc \notin Early => calls'[s].pc \notin Early)
    BY <2>2, <2>3 DEF Listens
  <2> QED
    BY <1>0, <2>1, <2>2, <2>4, QueueShrinks
<1>2. CASE Answering \/ UNCHANGED portalVars
  <2>1. \A s \in Requests : (Listens(s)' => Listens(s)) /\ (calls[s].pc \notin Early => calls'[s].pc \notin Early)
    BY <1>2, ProgressKept DEF Listens
  <2>2. CASE uiQueue' = uiQueue /\ \A h \in Handles : windows'[h] \in {windows[h], NoRequest}
    BY <1>0, <2>1, <2>2, QueueShrinks
  <2>3. ASSUME uiQueue # << >>, uiQueue' = Tail(uiQueue),
               \A h \in Handles :
                  \/ windows'[h] \in {windows[h], NoRequest}
                  \/ windows'[h] \in Requests /\ HandleOf[windows'[h]] = h /\ Opens(1, windows'[h])
        PROVE  AskedOnce' /\ ClosesLater' /\ WindowsOwn'
    <3>1. Len(uiQueue') = Len(uiQueue) - 1 /\ Len(uiQueue) > 0 /\ \A i \in 1 .. Len(uiQueue') : uiQueue'[i] = uiQueue[i + 1]
      BY <1>0, <2>3, Taken
    <3> QED
      BY <1>0, <2>1, <2>3, <3>1, QueueShrinks
  <2>4. CASE \E r \in Requests : UserAccepts(r) \/ UserCancels(r)
    BY <1>0, <2>2, <2>4, UserLeaves
  <2>5. CASE \E h \in Handles : CallerCloses(h)
    BY <2>2, <2>5, CallerEnds
  <2>6. CASE OpenPicker
    <3>1. PICK r \in Requests :
             /\ uiQueue # << >> /\ uiQueue' = Tail(uiQueue) /\ Opens(1, r)
             /\ windows' = windows \/ windows' = [windows EXCEPT ![HandleOf[r]] = r]
      BY <2>6, PickerOpens
    <3>2. \A h \in Handles :
              \/ windows'[h] \in {windows[h], NoRequest}
              \/ windows'[h] \in Requests /\ HandleOf[windows'[h]] = h /\ Opens(1, windows'[h])
      BY <1>0, <3>1
    <3> QED
      BY <2>3, <3>1, <3>2
  <2>7. CASE ClosePicker
    BY <2>3, <2>7, PickerCloses
  <2>8. CASE UNCHANGED portalVars
    BY <2>2, <2>8 DEF portalVars
  <2> QED
    BY <1>2, <2>4, <2>5, <2>6, <2>7, <2>8 DEF Answering
<1> QED
  BY <1>1, <1>2, NextSplits, OpenIsSent, CloseIsSent

-----------------------------------------------------------------------------
(* What is said of a call.                                                 *)
ToldOf(r) == Progress(r) /\ Open(r) /\ Answer(r)

LEMMA OthersTold ==
  ASSUME NEW r \in Requests, ToldOf(r), calls'[r] = calls[r], said'[r] = said[r],
         r \in pickers' <=> r \in pickers, Asked(r)' <=> Asked(r)
  PROVE  ToldOf(r)'
BY DEF ToldOf, Progress, Open, Answer, Listens

(* Which windows are asked for after a command is sent or taken.           *)
LEMMA AskedAfter ==
  ASSUME PInv
  PROVE  /\ uiQueue' = uiQueue => \A s \in Requests : Asked(s)' <=> Asked(s)
         /\ \A r \in Requests : Enqueue(CloseCommand(r)) => \A s \in Requests : Asked(s)' <=> Asked(s)
         /\ \A r \in Requests : SendOpen(r) => \A s \in Requests : Asked(s)' <=> Asked(s) \/ s = r
         /\ uiQueue # << >> /\ uiQueue' = Tail(uiQueue) =>
               \A s \in Requests : Asked(s)' <=> Asked(s) /\ ~Opens(1, s)
<1>0. uiQueue \in Seq(UiCommands) /\ Len(uiQueue) \in Nat
  BY LenProperties DEF PInv, PortalTypeOK
<1>1. ASSUME uiQueue' = uiQueue, NEW s \in Requests PROVE Asked(s)' <=> Asked(s)
  BY <1>1 DEF Asked, Opens
<1>2. ASSUME NEW r \in Requests, Enqueue(CloseCommand(r)), NEW s \in Requests
      PROVE  Asked(s)' <=> Asked(s)
  <2>1. PICK n \in Nat :
        /\ n = Len(uiQueue) /\ Len(uiQueue') = n + 1 /\ \A i \in 1 .. n : uiQueue'[i] = uiQueue[i]
        /\ uiQueue'[n + 1] = CloseCommand(r)
    BY <1>0, <1>2, CommandsExist, Sent
  <2>2. ~Opens(n + 1, s)'
    BY <2>1 DEF Opens, CloseCommand
  <2>3. \A i \in 1 .. n : Opens(i, s)' <=> Opens(i, s)
    BY <2>1 DEF Opens
  <2>4. \A i \in 1 .. Len(uiQueue') : i \in 1 .. n \/ i = n + 1
    BY <1>0, <2>1
  <2>5. \A i \in 1 .. n : i \in 1 .. Len(uiQueue')
    BY <1>0, <2>1
  <2> QED
    BY <2>1, <2>2, <2>3, <2>4, <2>5 DEF Asked
<1>3. ASSUME NEW r \in Requests, SendOpen(r), NEW s \in Requests
      PROVE  Asked(s)' <=> Asked(s) \/ s = r
  <2>0. Enqueue([kind |-> "Open", handle |-> HandleOf[r], request |-> r])
    BY <1>3 DEF SendOpen
  <2>1. PICK n \in Nat :
        /\ n = Len(uiQueue) /\ Len(uiQueue') = n + 1 /\ \A i \in 1 .. n : uiQueue'[i] = uiQueue[i]
        /\ uiQueue'[n + 1] = [kind |-> "Open", handle |-> HandleOf[r], request |-> r]
    BY <1>0, <2>0, CommandsExist, Sent
  <2>2. Opens(n + 1, s)' <=> s = r
    BY <2>1 DEF Opens
  <2>3. \A i \in 1 .. n : Opens(i, s)' <=> Opens(i, s)
    BY <2>1 DEF Opens
  <2>4. \A i \in 1 .. Len(uiQueue') : i \in 1 .. n \/ i = n + 1
    BY <1>0, <2>1
  <2>5. n + 1 \in 1 .. Len(uiQueue') /\ \A i \in 1 .. n : i \in 1 .. Len(uiQueue')
    BY <1>0, <2>1
  <2> QED
    BY <2>1, <2>2, <2>3, <2>4, <2>5 DEF Asked
<1>4. ASSUME uiQueue # << >>, uiQueue' = Tail(uiQueue), NEW s \in Requests
      PROVE  Asked(s)' <=> Asked(s) /\ ~Opens(1, s)
  <2>1. Len(uiQueue') = Len(uiQueue) - 1 /\ Len(uiQueue) > 0 /\ \A i \in 1 .. Len(uiQueue') : uiQueue'[i] = uiQueue[i + 1]
    BY <1>0, <1>4, Taken
  <2>2. \A i \in 1 .. Len(uiQueue') : Opens(i, s)' <=> Opens(i + 1, s)
    BY <2>1 DEF Opens
  <2>3. \A i \in 1 .. Len(uiQueue) : i = 1 \/ (i - 1 \in 1 .. Len(uiQueue') /\ (i - 1) + 1 = i)
    BY <1>0, <2>1
  <2>4. \A i \in 1 .. Len(uiQueue') : i + 1 \in 1 .. Len(uiQueue) /\ i + 1 # 1
    BY <1>0, <2>1
  <2>5. ASSUME Asked(s)' PROVE Asked(s) /\ ~Opens(1, s)
    <3>1. PICK i \in 1 .. Len(uiQueue') : Opens(i, s)'
      BY <2>5 DEF Asked
    <3>2. Opens(i + 1, s) /\ i + 1 \in 1 .. Len(uiQueue) /\ i + 1 # 1 /\ 1 \in 1 .. Len(uiQueue)
      BY <1>0, <2>1, <2>2, <2>4, <3>1
    <3> QED
      BY <3>2 DEF PInv, AskedOnce, Asked
  <2>6. ASSUME Asked(s), ~Opens(1, s) PROVE Asked(s)'
    <3>1. PICK i \in 1 .. Len(uiQueue) : Opens(i, s)
      BY <2>6 DEF Asked
    <3>2. i - 1 \in 1 .. Len(uiQueue') /\ (i - 1) + 1 = i
      BY <2>3, <2>6, <3>1
    <3>3. Opens(i - 1, s)'
      BY <2>2, <3>1, <3>2
    <3> QED
      BY <3>2, <3>3 DEF Asked
  <2> QED
    BY <2>5, <2>6
<1> QED
  BY <1>1, <1>2, <1>3, <1>4

\* One step of a call leaves what is said of it true.
LEMMA ServedTold ==
  ASSUME PInv, NEW r \in Requests, Serve(r)
  PROVE  ToldOf(r)'
<1>0. /\ PortalTypeOK /\ Progress(r) /\ Open(r) /\ Answer(r) /\ pickers' = pickers
      /\ calls[r].pending \subseteq {"cancelled", "failed"}
  <2>1. pickers' = pickers
    BY ServedAlone
  <2>2. calls[r] \in Calls
    BY DEF PInv, PortalTypeOK
  <2> QED
    BY <2>1, <2>2 DEF PInv, Told, Calls
<1>01. said \in [Requests -> SUBSET {"accept", "cancel", "close", "timeout"}]
  BY <1>0 DEF PortalTypeOK
<1>02. uiQueue' = uiQueue \/ Enqueue(CloseCommand(r)) => (Asked(r)' <=> Asked(r))
  BY AskedAfter
<1>03. \A pc \in Pcs : Enter(r, pc) =>
         LET c == calls[r] d == calls'[r] IN
         /\ d.pc = pc /\ d.pending = c.pending /\ d.cancel = c.cancel /\ d.started = c.started
         /\ d.response = c.response /\ d.outcome = c.outcome /\ d.code = c.code
  BY <1>0, Entered
<1>04. \A o, pc : Conclude(r, o, pc) =>
         LET d == calls'[r] IN
         /\ d.pc = pc /\ d.pending = {} /\ ~d.cancel /\ d.started = "none"
         /\ d.response = "none" /\ d.outcome = o /\ d.code = -1
  BY <1>0, Concluded
<1>05. \A n : ReturnCode(r, n) =>
         LET d == calls'[r] IN
         /\ d.pc = "returned" /\ d.pending = {} /\ ~d.cancel /\ d.started = "none"
         /\ d.response = "none" /\ d.outcome = "none" /\ d.code = n
  BY <1>0, Returned
<1> USE PcsExist DEF At, Listens, Early, Over, Ends
<1>1. CASE Acquire(r)
  <2>1. said'[r] = said[r] /\ uiQueue' = uiQueue /\ calls[r].pc = "idle" /\ (Enter(r, "publish") \/ ReturnCode(r, 2))
    BY <1>1 DEF Acquire
  <2>2. CASE Enter(r, "publish")
    BY <1>0, <1>02, <1>03, <2>1, <2>2 DEF ToldOf, Progress, Open, Answer
  <2>3. CASE ReturnCode(r, 2)
    BY <1>0, <1>02, <1>05, <2>1, <2>3 DEF ToldOf, Progress, Open, Answer
  <2> QED
    BY <2>1, <2>2, <2>3
<1>2. CASE Publish(r)
  <2>1. said'[r] = said[r] /\ uiQueue' = uiQueue /\ calls[r].pc = "publish" /\ (Enter(r, "open") \/ ReturnCode(r, 2))
    BY <1>2 DEF Publish
  <2>2. CASE Enter(r, "open")
    BY <1>0, <1>02, <1>03, <2>1, <2>2 DEF ToldOf, Progress, Open, Answer
  <2>3. CASE ReturnCode(r, 2)
    BY <1>0, <1>02, <1>05, <2>1, <2>3 DEF ToldOf, Progress, Open, Answer
  <2> QED
    BY <2>1, <2>2, <2>3
<1>3. CASE SendOpen(r)
  <2>1. said'[r] = said[r] /\ calls[r].pc = "open" /\ Enter(r, "startup")
    BY <1>3 DEF SendOpen
  <2> QED
    BY <1>0, <1>03, <2>1 DEF ToldOf, Progress, Open, Answer
<1>4. CASE StartupStarted(r)
  <2>1. said'[r] = said[r] /\ uiQueue' = uiQueue /\ calls[r].pc = "startup"
        /\ calls[r].started \in {"ok", "error"}
        /\ (Enter(r, "waiting") \/ (calls[r].started = "error" /\ Conclude(r, "failed", "closing")))
    <3>1. calls[r].started \in {"none", "ok", "error"}
      BY <1>0 DEF PortalTypeOK, Calls
    <3> QED
      BY <1>4, <3>1 DEF StartupStarted
  <2>2. CASE Enter(r, "waiting")
    BY <1>0, <1>02, <1>03, <2>1, <2>2 DEF ToldOf, Progress, Open, Answer
  <2>3. CASE calls[r].started = "error" /\ Conclude(r, "failed", "closing")
    BY <1>0, <1>02, <1>04, <2>1, <2>3 DEF ToldOf, Progress, Open, Answer
  <2> QED
    BY <2>1, <2>2, <2>3
<1>5. CASE StartupCancelled(r)
  <2>1. said'[r] = said[r] /\ uiQueue' = uiQueue /\ calls[r].pc = "startup"
        /\ calls[r].cancel /\ Conclude(r, "cancelled", "closing")
    BY <1>5 DEF StartupCancelled
  <2> QED
    BY <1>0, <1>02, <1>04, <2>1 DEF ToldOf, Progress, Open, Answer
<1>6. CASE StartupTimedOut(r)
  <2>1. said'[r] = said[r] \union {"timeout"} /\ uiQueue' = uiQueue /\ calls[r].pc = "startup"
        /\ Conclude(r, "failed", "closing")
    BY <1>01, <1>6 DEF StartupTimedOut
  <2> QED
    BY <1>0, <1>02, <1>04, <2>1 DEF ToldOf, Progress, Open, Answer
<1>7. CASE CloseAfterStartup(r)
  <2>1. said'[r] = said[r] /\ Enqueue(CloseCommand(r)) /\ calls[r].pc = "closing" /\ Enter(r, "unpublish")
    BY <1>7 DEF CloseAfterStartup
  <2> QED
    BY <1>0, <1>02, <1>03, <2>1 DEF ToldOf, Progress, Open, Answer
<1>8. CASE TakeResponse(r)
  <2>1. said'[r] = said[r] /\ uiQueue' = uiQueue /\ calls[r].pc = "waiting" /\ calls[r].response # "none"
        /\ Conclude(r, calls[r].response, "unpublish")
    BY <1>8 DEF TakeResponse
  <2>2. calls[r].response \in Ends
    BY <1>0, <2>1 DEF PortalTypeOK, Calls
  <2> QED
    BY <1>0, <1>02, <1>04, <2>1, <2>2 DEF ToldOf, Progress, Open, Answer
<1>9. CASE SeeCancel(r)
  <2>1. said'[r] = said[r] /\ uiQueue' = uiQueue /\ calls[r].pc = "waiting" /\ calls[r].cancel
    BY <1>9 DEF SeeCancel, Unanswered
  <2> QED
    BY <1>0, <1>02, <1>9, <2>1, Noticed DEF ToldOf, Progress, Open, Answer
<1>10. CASE SeeTimeout(r)
  <2>1. said'[r] = said[r] \union {"timeout"} /\ uiQueue' = uiQueue /\ calls[r].pc = "waiting"
    BY <1>01, <1>10 DEF SeeTimeout, Unanswered
  <2> QED
    BY <1>0, <1>02, <1>10, <2>1, Noticed DEF ToldOf, Progress, Open, Answer
<1>11. CASE CloseWhileWaiting(r)
  <2>1. said'[r] = said[r] /\ Enqueue(CloseCommand(r)) /\ calls[r].pc = "waiting" /\ calls[r].pending # {}
        /\ Conclude(r, IF "cancelled" \in calls[r].pending THEN "cancelled" ELSE "failed", "unpublish")
    BY <1>11 DEF CloseWhileWaiting, Unanswered
  <2>2. said[r] \intersect {"close", "timeout"} # {}
    BY <1>0, <2>1 DEF Progress
  <2> QED
    BY <1>0, <1>02, <1>04, <2>1, <2>2 DEF ToldOf, Progress, Open, Answer
<1>12. CASE Unpublish(r)
  <2>1. said'[r] = said[r] /\ uiQueue' = uiQueue /\ calls[r].pc = "unpublish" /\ Enter(r, "return")
    BY <1>12 DEF Unpublish
  <2> QED
    BY <1>0, <1>02, <1>03, <2>1 DEF ToldOf, Progress, Open, Answer
<1>13. CASE Return(r)
  <2>1. said'[r] = said[r] /\ uiQueue' = uiQueue /\ calls[r].pc = "return"
        /\ ReturnCode(r, Code(calls[r].outcome))
    BY <1>13 DEF Return
  <2>2. calls[r].outcome \in Ends
    BY <1>0, <2>1 DEF Progress
  <2>3. /\ calls[r].outcome = "accepted" <=> Code(calls[r].outcome) = 0
        /\ calls[r].outcome = "cancelled" <=> Code(calls[r].outcome) = 1
        /\ Code(calls[r].outcome) \in {0, 1, 2}
    BY <2>2 DEF Code
  <2>4. calls[r].response = "accepted" => "accept" \in said[r]
    BY <1>0 DEF Answer
  <2> QED
    BY <1>0, <1>02, <1>05, <2>1, <2>2, <2>3 DEF ToldOf, Progress, Open, Answer
<1> QED
  BY <1>1, <1>2, <1>3, <1>4, <1>5, <1>6, <1>7, <1>8, <1>9, <1>10, <1>11, <1>12, <1>13
     DEF Serve, Waits, Answers, Closes

LEMMA ToldKept ==
  ASSUME PInv, [PortalNext]_portalVars
  PROVE  Told'
<1>0. \A r \in Requests : ToldOf(r)
  BY DEF PInv, Told, ToldOf
<1>1. ASSUME NEW r \in Requests, Serve(r), NEW s \in Requests PROVE ToldOf(s)'
  <2>1. CASE s = r
    BY <1>1, <2>1, ServedTold
  <2>2. CASE s # r
    <3>1. calls'[s] = calls[s] /\ said'[s] = said[s] /\ pickers' = pickers
      BY <1>1, <2>2, ServedAlone
    <3>2. uiQueue' = uiQueue \/ Enqueue(CloseCommand(r)) \/ SendOpen(r)
      BY <1>1 DEF Serve, Acquire, Publish, Waits, StartupTimedOut, StartupCancelled, StartupStarted,
         Answers, TakeResponse, SeeCancel, SeeTimeout, Closes, CloseAfterStartup, CloseWhileWaiting,
         Unpublish, Return
    <3>3. Asked(s)' <=> Asked(s)
      BY <2>2, <3>2, AskedAfter
    <3> QED
      BY <1>0, <3>1, <3>3, OthersTold
  <2> QED
    BY <2>1, <2>2
<1>2. ASSUME NEW r \in Requests, UserAccepts(r) \/ UserCancels(r), NEW s \in Requests PROVE ToldOf(s)'
  <2>0. Asked(s)' <=> Asked(s)
    BY <1>2, UserLeaves, AskedAfter
  <2>1. CASE s = r
    <3>1. Progress(r) /\ Open(r) /\ Answer(r)
      BY <1>0 DEF ToldOf
    <3> QED
      BY <1>2, <2>0, <2>1, <3>1, UserLeaves DEF ToldOf, Progress, Open, Answer, Listens, Early, Over, Ends
  <2>2. CASE s # r
    BY <1>0, <1>2, <2>0, <2>2, UserLeaves, OthersTold
  <2> QED
    BY <2>1, <2>2
<1>3. ASSUME NEW h \in Handles, CallerCloses(h), NEW s \in Requests PROVE ToldOf(s)'
  <2>1. PICK r \in Requests :
           LET c == calls[r] d == calls'[r] IN
           /\ UNCHANGED <<quota, objects, uiQueue, windows, pickers>>
           /\ \A q \in Requests : q # r => calls'[q] = calls[q] /\ said'[q] = said[q]
           /\ said'[r] = said[r] \union {"close"}
           /\ d.pc = c.pc /\ d.pending = c.pending /\ d.started = c.started
           /\ d.outcome = c.outcome /\ d.code = c.code /\ d.response = c.response
    BY <1>3, CallerEnds
  <2>2. Asked(s)' <=> Asked(s)
    BY <2>1, AskedAfter
  <2>3. CASE s = r
    BY <1>0, <2>1, <2>2, <2>3 DEF ToldOf, Progress, Open, Answer, Listens
  <2>4. CASE s # r
    BY <1>0, <2>1, <2>2, <2>4, OthersTold
  <2> QED
    BY <2>3, <2>4
<1>4. ASSUME OpenPicker, NEW s \in Requests PROVE ToldOf(s)'
  <2>1. PICK r \in Requests :
           LET c == calls[r] d == calls'[r] IN
           /\ uiQueue # << >> /\ uiQueue' = Tail(uiQueue) /\ Opens(1, r)
           /\ UNCHANGED <<quota, objects, said>>
           /\ \A q \in Requests : q # r => calls'[q] = calls[q]
           /\ d.pc = c.pc /\ d.pending = c.pending /\ d.cancel = c.cancel
           /\ d.outcome = c.outcome /\ d.code = c.code
           /\ \/ /\ windows' = [windows EXCEPT ![HandleOf[r]] = r] /\ pickers' = pickers \union {r}
                 /\ d.response = c.response /\ d.started \in {c.started, "ok"}
              \/ /\ UNCHANGED <<windows, pickers>> /\ d.started \in {c.started, "error"}
                 /\ d.response = c.response \/ (d.response = "failed" /\ Listens(r))
    BY <1>4, PickerOpens
  <2>2. \A q \in Requests : Asked(q)' <=> Asked(q) /\ ~Opens(1, q)
    BY <2>1, AskedAfter
  <2>3. Asked(r)
    <3>1. 1 \in 1 .. Len(uiQueue)
      BY <2>1, Taken DEF PInv, PortalTypeOK
    <3> QED
      BY <2>1, <3>1 DEF Asked
  <2>4. CASE s = r
    <3>1. ~Asked(r)' /\ r \notin pickers /\ "accept" \notin said[r] /\ calls[r].started = "none"
          /\ calls[r].pc \notin Early
      BY <1>0, <2>1, <2>2, <2>3 DEF ToldOf, Open
    <3>2. Progress(r)' /\ Answer(r)'
      BY <1>0, <2>1, <3>1 DEF ToldOf, Progress, Answer, Listens
    <3>3. Open(r)'
      BY <1>0, <2>1, <2>3, <3>1 DEF ToldOf, Open, Listens
    <3> QED
      BY <2>4, <3>2, <3>3 DEF ToldOf
  <2>5. CASE s # r
    <3>1. ~Opens(1, s)
      BY <2>1, <2>5 DEF Opens
    <3>2. s \in pickers' <=> s \in pickers
      BY <2>1, <2>5
    <3> QED
      BY <1>0, <2>1, <2>2, <2>5, <3>1, <3>2, OthersTold
  <2> QED
    BY <2>4, <2>5
<1>5. ASSUME ClosePicker, NEW s \in Requests PROVE ToldOf(s)'
  <2>1. Asked(s)' <=> Asked(s)
    BY <1>5, PickerCloses, AskedAfter DEF Opens
  <2>2. calls'[s] = calls[s] /\ said'[s] = said[s] /\ (s \in pickers' => s \in pickers)
    BY <1>5, PickerCloses
  <2> QED
    BY <1>0, <2>1, <2>2 DEF ToldOf, Progress, Open, Answer, Listens
<1>6. ASSUME UNCHANGED portalVars, NEW s \in Requests PROVE ToldOf(s)'
  <2>1. UNCHANGED <<calls, uiQueue, pickers, said>>
    BY <1>6 DEF portalVars
  <2> QED
    BY <1>0, <2>1, AskedAfter, OthersTold
<1>7. \A s \in Requests : ToldOf(s)'
  BY <1>1, <1>2, <1>3, <1>4, <1>5, <1>6 DEF PortalNext
<1> QED
  BY <1>7 DEF Told, ToldOf

-----------------------------------------------------------------------------
LEMMA PInvStarts ==
  ASSUME PortalInit
  PROVE  PInv
<1>1. PortalTypeOK
  <2>1. calls \in [Requests -> Calls]
    BY NewCalls DEF PortalInit
  <2>2. quota \in [total : Nat, perApp : [Apps -> Nat]]
    BY DEF PortalInit
  <2>3. uiQueue = << >> /\ uiQueue \in Seq(UiCommands) /\ Len(uiQueue) = 0
    BY DEF PortalInit
  <2> QED
    BY <2>1, <2>2, <2>3 DEF PortalInit, PortalTypeOK
<1>2. QuotaIsExact
  <2>1. Holders = {} /\ \A a : {r \in Holders : AppOf[r] = a} = {}
    BY DEF PortalInit, Holders, NewCall
  <2> QED
    BY <2>1, FS_EmptySet, CapacityAssumption DEF PortalInit, QuotaIsExact
<1>3. Owned /\ AskedOnce /\ ClosesOwn
  BY DEF PortalInit, Owned, AskedOnce, ClosesOwn, ClosesLater, WindowsOwn, NewCall, Published
<1>4. Told
  BY DEF PortalInit, Told, Progress, Open, Answer, Asked, NewCall, Early, Over, Listens
<1> QED
  BY <1>1, <1>2, <1>3, <1>4 DEF PInv

LEMMA PInvHolds == PortalSpec => []PInv
<1>1. ASSUME PInv, [PortalNext]_portalVars PROVE PInv'
  BY <1>1, TypeKept, QuotaKept, OwnedKept, QueueKept, ToldKept DEF PInv, ClosesOwn
<1> QED
  BY <1>1, PInvStarts, PTL DEF PortalSpec

\* The quota counts the calls in progress, for any number of calls and any
\* limits (try_acquire and PortalPermit::drop).
THEOREM QuotaExact == PortalSpec => []QuotaIsExact
<1>1. PInv => QuotaIsExact
  BY DEF PInv
<1> QED
  BY <1>1, PInvHolds, PTL

\* A call is answered with what happened to its own window, however its
\* Close, its timers, its picker's answer and later calls of its handle race
\* (await_picker, run_command_loop).
THEOREM AnswersAreTrue == PortalSpec => []AnswerIsTrue
<1>1. ASSUME PInv PROVE AnswerIsTrue
  <2> SUFFICES ASSUME NEW r \in Requests, Answered(r)
               PROVE  /\ calls[r].code = 0 => "accept" \in said[r]
                      /\ calls[r].code = 1 => said[r] \intersect {"cancel", "close"} # {}
                      /\ "accept" \in said[r] /\ calls[r].code # 0 => said[r] \intersect {"close", "timeout"} # {}
    BY DEF AnswerIsTrue
  <2>1. Progress(r) /\ Open(r) /\ Answer(r)
    BY <1>1 DEF PInv, Told
  <2>2. calls[r].pc = "returned" /\ calls[r].outcome = "none"
    BY <2>1 DEF Answered, At, Progress, Over
  <2> QED
    BY <2>1, <2>2 DEF Progress, Answer, Listens
<1> QED
  BY <1>1, PInvHolds, PTL
=============================================================================
