------------------------- MODULE RunLifecycleProofs -------------------------
(* Proofs about RunLifecycle, for every value of its constants. *)
EXTENDS RunLifecycle, TLAPS

(***************************************************************************)
(* The session slot's functions return a slot.                             *)
(***************************************************************************)
LEMMA SessionOps ==
    ASSUME NEW s \in SessionType
    PROVE  /\ Idle \in SessionType
           /\ AbortedWaiter(s) \in SessionType
           /\ AbortedRunning(s) \in SessionType
           /\ Resumed(s) \in SessionType
           /\ \A b \in BOOLEAN : Bound(s, b) \in SessionType
           /\ \A m \in Messages : Queued(s, m) \in SessionType
           /\ \A f \in Flows :
                 /\ Started(f) \in SessionType
                 /\ Drained(s, f) \in SessionType
                 /\ RoundComplete(s, f) \in SessionType
                 /\ Finished(s, f) \in SessionType
           /\ \A f \in Flows, r \in Runs \cup {NoRun} :
                 /\ Labelled(s, f, r) \in SessionType
                 /\ Waiting(s, f, r) \in SessionType
<1>1. Idle \in SessionType
  BY DEF Idle, SessionType, Statuses
<1>2. /\ AbortedWaiter(s) \in SessionType
      /\ AbortedRunning(s) \in SessionType
      /\ Resumed(s) \in SessionType
  BY DEF AbortedWaiter, AbortedRunning, Resumed, SessionType, Statuses
<1>3. /\ \A b \in BOOLEAN : Bound(s, b) \in SessionType
      /\ \A m \in Messages : Queued(s, m) \in SessionType
  BY DEF Bound, Queued, SessionType
<1>4. ASSUME NEW f \in Flows
      PROVE  /\ Started(f) \in SessionType
             /\ Drained(s, f) \in SessionType
             /\ RoundComplete(s, f) \in SessionType
             /\ Finished(s, f) \in SessionType
  <2>1. Started(f) \in SessionType
    BY DEF Started, Idle, SessionType, Statuses
  <2>2. Drained(s, f) \in SessionType
    BY DEF Drained, SessionType
  <2>3. RoundComplete(s, f) \in SessionType
    BY DEF RoundComplete, SessionType, Statuses
  <2>4. Finished(s, f) \in SessionType
    BY <1>1 DEF Finished
  <2>5. QED
    BY <2>1, <2>2, <2>3, <2>4
<1>5. ASSUME NEW f \in Flows, NEW r \in Runs \cup {NoRun}
      PROVE  /\ Labelled(s, f, r) \in SessionType
             /\ Waiting(s, f, r) \in SessionType
  BY DEF Labelled, Waiting, SessionType, Statuses
<1>6. QED
  BY <1>1, <1>2, <1>3, <1>4, <1>5

-----------------------------------------------------------------------------
(***************************************************************************)
(* Type correctness.                                                       *)
(***************************************************************************)
LEMMA EmitType ==
    ASSUME TypeOK, NEW st \in {"completed", "aborted"}, Emit(st)
    PROVE  emitted' \in SUBSET FinishEvents
  BY DEF TypeOK, SessionType, Emit, FinishEvents

\* Finishing a session keeps the types.
LEMMA FinishType ==
    ASSUME TypeOK, NEW f \in Flows, Finish(f)
    PROVE  session' \in SessionType /\ emitted' \in SUBSET FinishEvents
<1>1. session' \in SessionType
  BY SessionOps DEF TypeOK, Finish
<1>2. emitted' \in SUBSET FinishEvents
  BY EmitType DEF TypeOK, Finish, FinishStatus
<1>3. QED
  BY <1>1, <1>2

\* A task that is over keeps the types.
LEMMA GoneType ==
    ASSUME TypeOK, NEW f \in Flows, Gone(f)
    PROVE  /\ pc'        \in [Flows -> Places]
           /\ turn'      \in [Flows -> Turns \cup {"none"}]
           /\ seeded'    \in [Flows -> BOOLEAN]
           /\ preempted' \in [Flows -> BOOLEAN]
           /\ signal'    \in SUBSET Flows
           /\ reply'     \in [Flows -> Replies]
           /\ why'       \in [Flows -> Causes]
           /\ owns'      \in [Flows -> Runs \cup {NoRun}]
  BY DEF TypeOK, Gone, Goto, Places, Replies, Causes

\* Moving to a place, failing and entering a turn.
LEMMA MoveType ==
    ASSUME TypeOK, NEW f \in Flows
    PROVE  /\ \A p \in Places : Goto(f, p) => pc' \in [Flows -> Places]
           /\ \A c \in Causes : Fail(f, c) => /\ pc'  \in [Flows -> Places]
                                              /\ why' \in [Flows -> Causes]
           /\ LoseSession(f) => /\ pc'  \in [Flows -> Places]
                                /\ why' \in [Flows -> Causes]
           /\ \A k \in Turns : Enter(f, k) =>
                 /\ pc'   \in [Flows -> Places]
                 /\ why'  \in [Flows -> Causes]
                 /\ turn' \in [Flows -> Turns \cup {"none"}]
<1>1. \A p \in Places : Goto(f, p) => pc' \in [Flows -> Places]
  BY DEF TypeOK, Goto
<1>2. \A c \in Causes : Fail(f, c) => /\ pc'  \in [Flows -> Places]
                                     /\ why' \in [Flows -> Causes]
  BY DEF TypeOK, Fail, Goto, Places, Live
<1>3. LoseSession(f) => pc' \in [Flows -> Places] /\ why' \in [Flows -> Causes]
  BY <1>2 DEF TypeOK, LoseSession, Goto, Places, Live, Causes
<1>4. ASSUME NEW k \in Turns, Enter(f, k)
      PROVE  /\ pc'   \in [Flows -> Places]
             /\ why'  \in [Flows -> Causes]
             /\ turn' \in [Flows -> Turns \cup {"none"}]
  BY <1>2, <1>4 DEF TypeOK, Enter, Goto, Places, Live, Causes
<1>5. QED
  BY <1>1, <1>2, <1>3, <1>4

\* The runner starts idle.
LEMMA TypeInit == Init => TypeOK
  BY SessionOps, ModesAssumption
  DEF Init, TypeOK, Idle, SessionType, Statuses, AllModes, CallStates, Places, Replies, Causes,
      RunStatuses

\* The handlers that start and resume keep the types.
LEMMA TypeForeground ==
    ASSUME TypeOK, NEW f \in Flows, Foreground(f)
    PROVE  TypeOK'
<1>1. ASSUME NEW m \in Modes, StartRun(f, m) PROVE TypeOK'
  BY <1>1, ModesAssumption
  DEF StartRun, TypeOK, CallStates, Stored, Runs, flowVars, turnVars, histVars
<1>2. ASSUME NEW r \in Runs, ResumeRun(f, r) PROVE TypeOK'
  BY <1>2
  DEF ResumeRun, TypeOK, CallStates, Stored, Runs, flowVars, turnVars, histVars
<1>3. ASSUME BeginSession(f) PROVE TypeOK'
  <2>1. session' \in SessionType
    <3>1. session \in SessionType /\ Started(f) \in SessionType
      BY SessionOps DEF TypeOK
    <3>2. QED
      BY <1>3, <3>1 DEF BeginSession
  <2>2. pc' \in [Flows -> Places]
    BY <1>3 DEF BeginSession, TypeOK, Goto, Places, Live
  <2>3. call' \in [Flows -> CallStates]
    BY <1>3 DEF BeginSession, TypeOK, CallStates
  <2>4. UNCHANGED <<mode, target, before, turnVars, record, complete, histVars>>
    BY <1>3 DEF BeginSession
  <2>5. QED
    BY <2>1, <2>2, <2>3, <2>4 DEF TypeOK, turnVars, histVars
<1>4. ASSUME BeginResume(f) PROVE TypeOK'
  <2>1. Started(f) \in SessionType /\ target[f] \in Runs \cup {NoRun}
    BY SessionOps DEF TypeOK
  <2>2. session' \in SessionType
    <3>1. /\ session \in SessionType
          /\ Labelled(Started(f), f, target[f]) \in SessionType
      BY <2>1, SessionOps DEF TypeOK
    <3>2. QED
      BY <1>4, <3>1 DEF BeginResume
  <2>3. call' \in [Flows -> CallStates]
    BY <1>4 DEF BeginResume, TypeOK, CallStates
  <2>4. UNCHANGED <<mode, target, before, pc, turnVars, record, complete, histVars>>
    BY <1>4 DEF BeginResume
  <2>5. QED
    BY <2>2, <2>3, <2>4 DEF TypeOK, turnVars, histVars
<1>5. ASSUME Launch(f) PROVE TypeOK'
  BY <1>5, MoveType
  DEF Launch, TypeOK, CallStates, Places, Live, flowVars, turnVars, histVars
<1>6. ASSUME LaunchFails(f) PROVE TypeOK'
  BY <1>6
  DEF LaunchFails, TypeOK, CallStates, flowVars, turnVars, histVars
<1>7. ASSUME FindRunId(f) PROVE TypeOK'
  <2>1. session' \in SessionType
    <3>1. \A r \in Stored : Labelled(session, f, r) \in SessionType
      BY SessionOps DEF TypeOK, Stored
    <3>2. QED
      BY <1>7, <3>1 DEF FindRunId
  <2>2. call' \in [Flows -> CallStates] /\ before' \in [Flows -> SUBSET Runs]
    BY <1>7 DEF FindRunId, TypeOK, CallStates
  <2>3. UNCHANGED <<mode, target, pc, turnVars, record, complete, histVars>>
    BY <1>7 DEF FindRunId
  <2>4. QED
    BY <2>1, <2>2, <2>3 DEF TypeOK, turnVars, histVars
<1>8. ASSUME PollGivesUp(f) PROVE TypeOK'
  BY <1>8
  DEF PollGivesUp, TypeOK, CallStates, flowVars, turnVars, histVars
<1>9. QED
  BY <1>1, <1>2, <1>3, <1>4, <1>5, <1>6, <1>7, <1>8 DEF Foreground

\* The background task and its orchestrator keep the types.
LEMMA TypeWork ==
    ASSUME TypeOK, NEW f \in Flows, Work(f)
    PROVE  TypeOK'
<1>1. ASSUME OpenRun(f) PROVE TypeOK'
  BY <1>1, MoveType
  DEF OpenRun, TypeOK, Places, Live, RunStatuses, Runs, flowVars, turnVars, histVars
<1>2. ASSUME SetupThrows(f) PROVE TypeOK'
  BY <1>2, GoneType, FinishType
  DEF SetupThrows, TypeOK, flowVars, turnVars, histVars
<1>3. ASSUME BeginWork(f) PROVE TypeOK'
  BY <1>3, MoveType
  DEF BeginWork, TypeOK, Places, Live, Turns, flowVars, turnVars, histVars
<1>4. ASSUME LoopTop(f) PROVE TypeOK'
  BY <1>4, MoveType
  DEF LoopTop, TypeOK, Places, Live, Turns, flowVars, turnVars, histVars
<1>5. ASSUME BindTurn(f) PROVE TypeOK'
  BY <1>5, SessionOps, MoveType
  DEF BindTurn, TypeOK, Places, Live, flowVars, turnVars, histVars
<1>6. ASSUME TurnAnswers(f) PROVE TypeOK'
  BY <1>6, SessionOps, MoveType
  DEF TurnAnswers, TypeOK, Places, Live, flowVars, turnVars, histVars
<1>7. ASSUME TurnBreaks(f) PROVE TypeOK'
  BY <1>7, SessionOps, MoveType
  DEF TurnBreaks, TypeOK, Places, Live, Causes, flowVars, turnVars, histVars
<1>8. ASSUME NextTurn(f) PROVE TypeOK'
  BY <1>8, MoveType
  DEF NextTurn, TypeOK, Follows, Turns, flowVars, turnVars, histVars
<1>9. ASSUME Redirect(f) PROVE TypeOK'
  BY <1>9, SessionOps, MoveType
  DEF Redirect, TypeOK, Turns, flowVars, turnVars, histVars
<1>10. ASSUME BackToTop(f) PROVE TypeOK'
  BY <1>10, MoveType
  DEF BackToTop, TypeOK, Places, Live, flowVars, turnVars, histVars
<1>11. ASSUME NoReplacement(f) PROVE TypeOK'
  BY <1>11, MoveType
  DEF NoReplacement, TypeOK, Causes, flowVars, turnVars, histVars
<1>12. ASSUME Conclude(f) PROVE TypeOK'
  BY <1>12, MoveType
  DEF Conclude, TypeOK, Places, Live, flowVars, turnVars, histVars
<1>13. ASSUME HandleIntervention(f) PROVE TypeOK'
  BY <1>13, SessionOps, MoveType
  DEF HandleIntervention, TypeOK, Places, Live, Turns, flowVars, turnVars, histVars
<1>14. ASSUME AskUser(f) PROVE TypeOK'
  BY <1>14, MoveType
  DEF AskUser, TypeOK, Places, Live, RunStatuses, flowVars, turnVars, histVars
<1>15. ASSUME Pause(f) PROVE TypeOK'
  <2>1. session' \in SessionType
    <3>1. /\ session \in SessionType
          /\ Waiting(session, f, owns[f]) \in SessionType
      BY SessionOps DEF TypeOK
    <3>2. QED
      BY <1>15, <3>1 DEF Pause
  <2>2. pc' \in [Flows -> Places] /\ why' \in [Flows -> Causes]
    BY <1>15, MoveType DEF Pause, TypeOK, Places, Live, Causes
  <2>3. UNCHANGED <<flowVars, turn, seeded, preempted, signal, reply, owns,
                    record, complete, histVars>>
    BY <1>15 DEF Pause
  <2>4. QED
    BY <2>1, <2>2, <2>3 DEF TypeOK, flowVars, histVars
<1>16. ASSUME TakeReply(f) PROVE TypeOK'
  BY <1>16, MoveType
  DEF TakeReply, TypeOK, Places, Live, Causes, Turns, Replies, RunStatuses, flowVars, turnVars, histVars
<1>17. ASSUME Close(f) PROVE TypeOK'
  BY <1>17, MoveType
  DEF Close, TypeOK, Places, Live, RunStatuses, flowVars, turnVars, histVars
<1>18. ASSUME Return(f) PROVE TypeOK'
  <2>1. RoundComplete(session, f) \in SessionType
    BY SessionOps DEF TypeOK
  <2>2. session' \in SessionType
    BY <1>18, <2>1, SessionOps DEF Return
  <2>3. emitted' \in SUBSET FinishEvents
    BY <1>18, EmitType DEF Return, TypeOK
  <2>4. QED
    BY <1>18, <2>2, <2>3, GoneType DEF Return, TypeOK, flowVars
<1>19. ASSUME RecordFailure(f) PROVE TypeOK'
  BY <1>19, MoveType
  DEF RecordFailure, TypeOK, Places, Live, RunStatuses, flowVars, turnVars, histVars
<1>20. ASSUME Throw(f) PROVE TypeOK'
  BY <1>20, GoneType, FinishType
  DEF Throw, TypeOK, flowVars, turnVars, histVars
<1>21. ASSUME SaveFails(f) PROVE TypeOK'
  BY <1>21, MoveType
  DEF SaveFails, TypeOK, Causes, flowVars, turnVars, histVars
<1>22. QED
  BY <1>1, <1>2, <1>3, <1>4, <1>5, <1>6, <1>7, <1>8, <1>9, <1>10, <1>11, <1>12, <1>13, <1>14, <1>15, <1>16, <1>17, <1>18, <1>19, <1>20, <1>21 DEF Work

\* The calls that address a run keep the types.
LEMMA TypeAddressed ==
    ASSUME TypeOK, NEW r \in Runs, Addressed(r)
    PROVE  TypeOK'
<1>1. ASSUME AbortPaused(r) PROVE TypeOK'
  BY <1>1, SessionOps, EmitType
  DEF AbortPaused, TypeOK, Addresses, SessionType, flowVars, turnVars, histVars
<1>2. ASSUME AbortWaiting(r) PROVE TypeOK'
  BY <1>2, SessionOps
  DEF AbortWaiting, TypeOK, Addresses, SessionType, Replies, flowVars, turnVars, histVars
<1>3. ASSUME AbortRunning(r) PROVE TypeOK'
  BY <1>3, SessionOps
  DEF AbortRunning, TypeOK, Addresses, SessionType, flowVars, turnVars, histVars
<1>4. ASSUME NEW text \in Replies \ {"none"}, SubmitReply(r, text) PROVE TypeOK'
  BY <1>4, SessionOps
  DEF SubmitReply, TypeOK, Addresses, SessionType, flowVars, turnVars, histVars
<1>5. ASSUME NEW f \in Flows, SubmitContinuation(r, f) PROVE TypeOK'
  BY <1>5, SessionOps, EmitType, ModesAssumption
  DEF SubmitContinuation, TypeOK, FinishStatus, AllModes, CallStates, Stored, flowVars, turnVars, histVars
<1>6. ASSUME NEW m \in Messages, SubmitQueued(r, m) PROVE TypeOK'
  BY <1>6, SessionOps
  DEF SubmitQueued, TypeOK, Addresses, SessionType, flowVars, turnVars, histVars
<1>7. QED
  BY <1>1, <1>2, <1>3, <1>4, <1>5, <1>6 DEF Addressed

\* complete_run keeps the types.
LEMMA TypeCompletion ==
    ASSUME TypeOK, NEW c \in Calls, Completion(c)
    PROVE  TypeOK'
<1>1. ASSUME NEW r \in Runs, CompleteRun(c, r) PROVE TypeOK'
  BY <1>1 DEF CompleteRun, TypeOK, flowVars, turnVars, histVars
<1>2. ASSUME CheckCompleted(c) PROVE TypeOK'
  BY <1>2 DEF CheckCompleted, TypeOK, flowVars, turnVars, histVars
<1>3. ASSUME FinishCompleted(c) PROVE TypeOK'
  BY <1>3, SessionOps, EmitType
  DEF FinishCompleted, TypeOK, FinishStatus, flowVars, turnVars, histVars
<1>4. QED
  BY <1>1, <1>2, <1>3 DEF Completion

\* Every step keeps the types.
LEMMA TypeStep == TypeOK /\ [Next]_vars => TypeOK'
<1> SUFFICES ASSUME TypeOK, [Next]_vars
             PROVE  TypeOK'
  OBVIOUS
<1>1. CASE UNCHANGED vars
  BY <1>1 DEF TypeOK, vars, flowVars, turnVars, histVars
<1>2. CASE Next
  BY <1>2, TypeForeground, TypeWork, TypeAddressed, TypeCompletion DEF Next
<1>3. QED
  BY <1>1, <1>2

\* The variables keep their types whatever the handlers and the tasks do.
THEOREM TypeCorrect == Spec => []TypeOK
<1>1. Init => TypeOK
  BY TypeInit
<1>2. TypeOK /\ [Next]_vars => TypeOK'
  BY TypeStep
<1>3. QED
  BY <1>1, <1>2, PTL DEF Spec

-----------------------------------------------------------------------------
(***************************************************************************)
(* The inductive invariant.  Each part relates the slot, the foreground    *)
(* and the background of the session that holds it.                        *)
(***************************************************************************)

EmptySlotIsIdle ==
    /\ session.sid = NoFlow => session = Idle
    /\ session.status = "idle" => session.sid = NoFlow

HolderHasBegun == session.sid \in Flows => call[session.sid] \notin NotBegun

\* Before its session is taken a flow has no background task; neither has one
\* that was rejected.
TaskAfterBegin ==
    \A f \in Flows : call[f] \in NotBegun \cup {"refreshing"} => pc[f] = "none"

\* An answer exists only between submit_intervention or abort_run and the
\* moment the waiting task takes it.
ReplyIsForWaiter == \A f \in Flows : reply[f] # "none" => pc[f] = "wait"

\* A session that is paused with nobody waiting is round-complete: its task is
\* over.
RoundIsOver ==
    session.status = "paused" /\ ~session.waiting => pc[session.sid] = "done"

SlotInv ==
    /\ TypeOK
    /\ EmptySlotIsIdle
    /\ HolderHasBegun
    /\ TaskAfterBegin
    /\ ReplyIsForWaiter
    /\ RoundIsOver
    /\ WaiterIsThere

\* What an accepted abort leaves behind until the task is over.
StopSticks ==
    \A f \in acked : \/ f \in signal
                     \/ pc[f] \in {"failing", "failed", "done"}
                     \/ reply[f] = "/abort"

\* A session that was reported finished has begun and is not in the slot.
FinishedHasBegun == \A e \in emitted : call[e.sid] \notin NotBegun

\* A live task holds the slot.
TaskHoldsSlot == \A f \in Flows : pc[f] \in Live => session.sid = f

-----------------------------------------------------------------------------
(***************************************************************************)
(* The twenty-one steps of a background task change the slot in three ways *)
(* only, which is all the invariants need to know of them.                 *)
(***************************************************************************)

\* The task moves on; at most the controller and the queue of its own session
\* change.
GoesOn(f) ==
    /\ pc[f] \in Live /\ pc'[f] \in Live \ {"wait"}
    /\ pc'[f] = "prep" => f \notin signal \/ pc[f] = "prep"
    /\ pc[f] = "wait" => reply[f] # "none"
    /\ pc[f] = "wait" /\ reply[f] = "/abort" => pc'[f] = "failing"
    /\ pc[f] = "failing" => pc'[f] = "failed"
    /\ pc[f] # "failed"
    /\ reply'[f] = IF pc[f] = "wait" THEN "none" ELSE reply[f]
    /\ UNCHANGED <<signal, emitted>>
    /\ session.sid # f => UNCHANGED session
    /\ session'.sid = session.sid /\ session'.status = session.status
    /\ session'.run = session.run /\ session'.waiting = session.waiting

\* The task asks its user.
Pauses(f) ==
    /\ pc[f] = "asking" /\ pc'[f] = "wait"
    /\ CanWait(session, f)
    /\ session' = Waiting(session, f, owns[f])
    /\ UNCHANGED <<reply, signal, emitted>>

Reports ==
    \/ UNCHANGED emitted
    \/ \E e \in FinishEvents : e.sid = session.sid /\ emitted' = emitted \cup {e}

\* The task is over: its session is cleared, or left round-complete.
Ends(f) ==
    /\ pc[f] \in Live \ {"wait"} /\ pc'[f] = "done"
    /\ reply'[f] = "none"
    /\ signal' = signal \ {f}
    /\ \/ session.sid # f /\ UNCHANGED <<session, emitted>>
       \/ session.sid = f /\ session' = Idle /\ Reports
       \/ /\ session.sid = f /\ session.status # "aborting"
          /\ session' = [session EXCEPT !.status = "paused", !.bound = FALSE,
                                        !.waiting = FALSE]
          /\ UNCHANGED emitted

\* Nothing of any other task changes.
OnlyTask(f) ==
    /\ \A g \in Flows \ {f} : pc'[g] = pc[g] /\ reply'[g] = reply[g]
    /\ UNCHANGED <<call, acked>>

\* A report adds at most the finish event of the session in the slot.
LEMMA EmitReports ==
    ASSUME TypeOK, NEW st \in {"completed", "aborted"}, Emit(st)
    PROVE  Reports
  BY DEF TypeOK, SessionType, Emit, Reports, FinishEvents

\* What the finally block of a task does to the slot ends the task's session.
LEMMA FinishEnds ==
    ASSUME TypeOK, NEW f \in Flows, Gone(f), Finish(f),
           pc[f] \in Live \ {"wait"}
    PROVE  Ends(f)
<1>1. /\ pc'[f] = "done" /\ reply'[f] = "none"
      /\ signal' = signal \ {f}
  BY DEF TypeOK, Gone, Goto
<1>2. CASE session.sid # f
  BY <1>1, <1>2 DEF Ends, Finish, Finished
<1>3. CASE session.sid = f
  <2>1. session' = Idle
    BY <1>3 DEF Finish, Finished
  <2>2. Reports
    BY <1>3, EmitReports DEF Finish, FinishStatus
  <2>3. QED
    BY <1>1, <1>3, <2>1, <2>2 DEF Ends
<1>4. QED
  BY <1>2, <1>3

\* A step of the task goes on, pauses or ends; nothing else happens to the slot.
LEMMA WorkStep ==
    ASSUME TypeOK, ReplyIsForWaiter, NEW f \in Flows, Work(f)
    PROVE  OnlyTask(f) /\ (GoesOn(f) \/ Pauses(f) \/ Ends(f))
<1> USE DEF TypeOK, OnlyTask
<1>1. CASE OpenRun(f)
  BY <1>1 DEF OpenRun, GoesOn, ReplyIsForWaiter, Live, Goto, flowVars, turnVars, histVars
<1>2. CASE SetupThrows(f)
  <2>1. Gone(f) /\ Finish(f) /\ pc[f] \in Live \ {"wait"}
    BY <1>2 DEF SetupThrows, Live
  <2>2. OnlyTask(f)
    BY <1>2 DEF SetupThrows, Gone, Goto, flowVars
  <2>3. QED
    BY <2>1, <2>2, FinishEnds
<1>3. CASE BeginWork(f)
  BY <1>3 DEF BeginWork, GoesOn, ReplyIsForWaiter, Live, Enter, Fail, Goto, flowVars, turnVars, histVars
<1>4. CASE LoopTop(f)
  BY <1>4 DEF LoopTop, GoesOn, ReplyIsForWaiter, Live, Enter, Fail, Goto, flowVars, turnVars, histVars
<1>5. CASE BindTurn(f)
  BY <1>5 DEF BindTurn, GoesOn, ReplyIsForWaiter, Live, LoseSession, CanBind, Bound, Fail, Goto, SessionType, flowVars, turnVars, histVars
<1>6. CASE TurnAnswers(f)
  BY <1>6 DEF TurnAnswers, GoesOn, ReplyIsForWaiter, Live, LoseSession, CanBind, Bound, Fail, Goto, SessionType, flowVars, turnVars, histVars
<1>7. CASE TurnBreaks(f)
  BY <1>7 DEF TurnBreaks, GoesOn, ReplyIsForWaiter, Live, LoseSession, CanBind, Bound, Fail, Goto, SessionType, flowVars, turnVars, histVars
<1>8. CASE NextTurn(f)
  BY <1>8 DEF NextTurn, GoesOn, ReplyIsForWaiter, Live, Enter, Fail, Goto, flowVars, turnVars, histVars
<1>9. CASE Redirect(f)
  BY <1>9 DEF Redirect, GoesOn, ReplyIsForWaiter, Live, Enter, Fail, Goto, Drained, SessionType, flowVars, turnVars, histVars
<1>10. CASE BackToTop(f)
  BY <1>10 DEF BackToTop, GoesOn, ReplyIsForWaiter, Live, Goto, flowVars, turnVars, histVars
<1>11. CASE NoReplacement(f)
  BY <1>11 DEF NoReplacement, GoesOn, ReplyIsForWaiter, Live, Fail, Goto, flowVars, turnVars, histVars
<1>12. CASE Conclude(f)
  BY <1>12 DEF Conclude, GoesOn, ReplyIsForWaiter, Live, Goto, flowVars, turnVars, histVars
<1>13. CASE HandleIntervention(f)
  BY <1>13 DEF HandleIntervention, GoesOn, ReplyIsForWaiter, Live, Enter, Fail, Goto, Drained, SessionType, flowVars, turnVars, histVars
<1>14. CASE AskUser(f)
  BY <1>14 DEF AskUser, GoesOn, ReplyIsForWaiter, Live, Goto, flowVars, turnVars, histVars
<1>15. CASE Pause(f)
  <2>1. CASE CanWait(session, f)
    BY <1>15, <2>1 DEF Pause, Pauses, Goto, flowVars, histVars
  <2>2. CASE ~CanWait(session, f)
    BY <1>15, <2>2 DEF Pause, GoesOn, Fail, Goto, Live, SessionType, flowVars, histVars
  <2>3. QED
    BY <2>1, <2>2
<1>16. CASE TakeReply(f)
  BY <1>16 DEF TakeReply, GoesOn, ReplyIsForWaiter, Live, Enter, Fail, Goto, flowVars, turnVars, histVars
<1>17. CASE Close(f)
  BY <1>17 DEF Close, GoesOn, ReplyIsForWaiter, Live, Goto, flowVars, turnVars, histVars
<1>18. CASE Return(f)
  <2>1. Gone(f) /\ pc[f] \in Live \ {"wait"} /\ OnlyTask(f)
    BY <1>18 DEF Return, Live, Gone, Goto, flowVars
  <2>2. pc'[f] = "done" /\ reply'[f] = "none" /\ signal' = signal \ {f}
    BY <2>1 DEF Gone, Goto
  <2>3. CASE session.sid # f
    BY <1>18, <2>1, <2>2, <2>3 DEF Return, Ends, RoundComplete, Finished
  <2>4. CASE session.sid = f /\ session.status = "aborting"
    <3>1. session' = Idle /\ Emit("aborted")
      BY <1>18, <2>4 DEF Return, RoundComplete, Finished
    <3>2. QED
      BY <2>1, <2>2, <2>4, <3>1, EmitReports DEF Ends
  <2>5. CASE session.sid = f /\ session.status # "aborting"
    BY <1>18, <2>1, <2>2, <2>5 DEF Return, Ends, RoundComplete, SessionType
  <2>6. QED
    BY <2>1, <2>3, <2>4, <2>5
<1>19. CASE RecordFailure(f)
  BY <1>19 DEF RecordFailure, GoesOn, ReplyIsForWaiter, Live, Goto, flowVars, turnVars, histVars
<1>20. CASE Throw(f)
  <2>1. Gone(f) /\ Finish(f) /\ pc[f] \in Live \ {"wait"}
    BY <1>20 DEF Throw, Live
  <2>2. OnlyTask(f)
    BY <1>20 DEF Throw, Gone, Goto, flowVars
  <2>3. QED
    BY <2>1, <2>2, FinishEnds
<1>21. CASE SaveFails(f)
  BY <1>21 DEF SaveFails, GoesOn, ReplyIsForWaiter, Live, Fail, Goto, flowVars, turnVars, histVars
<1>22. QED
  BY <1>1, <1>2, <1>3, <1>4, <1>5, <1>6, <1>7, <1>8, <1>9, <1>10, <1>11, <1>12, <1>13, <1>14, <1>15, <1>16, <1>17, <1>18, <1>19, <1>20, <1>21 DEF Work

-----------------------------------------------------------------------------
(* The invariant is inductive. *)

\* The fields of a session that has just been started.
LEMMA StartedFields ==
    ASSUME NEW f \in Flows, NEW r
    PROVE  /\ Started(f).sid = f /\ Labelled(Started(f), f, r).sid = f
           /\ Started(f).status = "running"
           /\ Labelled(Started(f), f, r).status = "running"
           /\ ~Started(f).waiting /\ ~Labelled(Started(f), f, r).waiting
<1>1. /\ Started(f).sid = f /\ Started(f).status = "running"
      /\ ~Started(f).waiting /\ Started(f).run = NoRun
  BY DEF Started, Idle
<1>2. DOMAIN Started(f) = {"sid", "status", "run", "queue", "waiting", "bound"}
  BY DEF Started, Idle
<1>3. /\ [Started(f) EXCEPT !.run = r].sid = f
      /\ [Started(f) EXCEPT !.run = r].status = "running"
      /\ ~[Started(f) EXCEPT !.run = r].waiting
  BY <1>1, <1>2
<1>4. QED
  BY <1>1, <1>3 DEF Labelled

\* At first there is no session.
LEMMA SlotInvInit == Init => SlotInv
<1> SUFFICES ASSUME Init PROVE SlotInv
  OBVIOUS
<1>1. TypeOK
  BY TypeInit
<1>2. QED
  BY <1>1, NoFlowAssumption
  DEF Init, SlotInv, Idle, EmptySlotIsIdle, HolderHasBegun, TaskAfterBegin,
      ReplyIsForWaiter, RoundIsOver, WaiterIsThere

\* The background task keeps the slot well formed.
LEMMA SlotInvWork ==
    ASSUME SlotInv, NEW f \in Flows, Work(f)
    PROVE  SlotInv'
<1> USE DEF SlotInv
<1>1. TypeOK'
  BY TypeWork
<1>2. OnlyTask(f) /\ (GoesOn(f) \/ Pauses(f) \/ Ends(f))
  BY WorkStep
<1>3. pc[f] \in Live /\ pc[f] # "none"
  BY <1>2 DEF GoesOn, Pauses, Ends, Live
<1>4. TaskAfterBegin'
  BY <1>2, <1>3 DEF TaskAfterBegin, OnlyTask, NotBegun
<1>5. CASE GoesOn(f)
  <2>1. EmptySlotIsIdle'
    BY <1>5, NoFlowAssumption DEF GoesOn, EmptySlotIsIdle
  <2>2. HolderHasBegun'
    BY <1>2, <1>5 DEF GoesOn, OnlyTask, HolderHasBegun, NotBegun
  <2>3. ReplyIsForWaiter'
    BY <1>2, <1>5 DEF GoesOn, OnlyTask, ReplyIsForWaiter
  <2>4. RoundIsOver'
    <3>1. ASSUME session.status = "paused", ~session.waiting
          PROVE  session.sid \in Flows /\ session.sid # f
      BY <1>5, <3>1
      DEF GoesOn, RoundIsOver, EmptySlotIsIdle, Idle, TypeOK, SessionType, Live
    <3>2. QED
      BY <1>2, <1>5, <3>1 DEF GoesOn, OnlyTask, RoundIsOver
  <2>5. WaiterIsThere'
    <3>1. ASSUME session.waiting PROVE session.sid \in Flows /\ session.sid # f
      BY <1>5, <3>1
      DEF GoesOn, WaiterIsThere, EmptySlotIsIdle, Idle, TypeOK, SessionType
    <3>2. QED
      BY <1>2, <1>5, <3>1 DEF GoesOn, OnlyTask, WaiterIsThere
  <2>6. QED
    BY <1>1, <1>4, <2>1, <2>2, <2>3, <2>4, <2>5
<1>6. CASE Pauses(f)
  <2>1. /\ session'.sid = f /\ session'.status = "paused" /\ session'.waiting
        /\ session.sid = f
    BY <1>6 DEF Pauses, CanWait, Waiting, TypeOK, SessionType
  <2>2. EmptySlotIsIdle'
    BY <2>1, NoFlowAssumption DEF EmptySlotIsIdle
  <2>3. HolderHasBegun'
    BY <1>2, <2>1 DEF OnlyTask, HolderHasBegun, NotBegun
  <2>4. ReplyIsForWaiter'
    BY <1>2, <1>6 DEF Pauses, OnlyTask, ReplyIsForWaiter
  <2>5. WaiterIsThere' /\ RoundIsOver'
    BY <1>6, <2>1 DEF Pauses, ReplyIsForWaiter, WaiterIsThere, RoundIsOver
  <2>6. QED
    BY <1>1, <1>4, <2>2, <2>3, <2>4, <2>5
<1>7. CASE Ends(f)
  <2>1. ReplyIsForWaiter'
    BY <1>2, <1>7 DEF Ends, OnlyTask, ReplyIsForWaiter
  <2>2. CASE session.sid # f /\ UNCHANGED session
    <3>1. session.sid # NoFlow => pc'[session.sid] = pc[session.sid]
                                  /\ reply'[session.sid] = reply[session.sid]
      BY <1>2, <2>2 DEF OnlyTask, TypeOK, SessionType
    <3>2. session.sid = NoFlow => ~session.waiting /\ session.status = "idle"
      BY DEF EmptySlotIsIdle, Idle
    <3>3. QED
      BY <1>1, <1>2, <1>4, <2>1, <2>2, <3>1, <3>2
      DEF OnlyTask, EmptySlotIsIdle, HolderHasBegun, RoundIsOver, WaiterIsThere
  <2>3. CASE session' = Idle
    BY <1>1, <1>4, <2>1, <2>3, NoFlowAssumption
    DEF Idle, EmptySlotIsIdle, HolderHasBegun, RoundIsOver, WaiterIsThere
  <2>4. CASE /\ session.sid = f
             /\ session' = [session EXCEPT !.status = "paused", !.bound = FALSE,
                                           !.waiting = FALSE]
    <3>1. session'.sid = f /\ session'.status = "paused" /\ ~session'.waiting
      BY <2>4 DEF TypeOK, SessionType
    <3>2. EmptySlotIsIdle' /\ HolderHasBegun'
      BY <1>2, <2>4, <3>1, NoFlowAssumption
      DEF OnlyTask, EmptySlotIsIdle, HolderHasBegun, NotBegun
    <3>3. RoundIsOver' /\ WaiterIsThere'
      BY <1>7, <3>1 DEF Ends, RoundIsOver, WaiterIsThere
    <3>4. QED
      BY <1>1, <1>4, <2>1, <3>2, <3>3
  <2>5. QED
    BY <1>7, <2>2, <2>3, <2>4 DEF Ends
<1>8. QED
  BY <1>2, <1>5, <1>6, <1>7

\* The handlers that start and resume keep the slot well formed.
LEMMA SlotInvForeground ==
    ASSUME SlotInv, NEW f \in Flows, Foreground(f)
    PROVE  SlotInv'
<1> USE DEF SlotInv, TypeOK, SessionType, EmptySlotIsIdle, HolderHasBegun,
            TaskAfterBegin, ReplyIsForWaiter, RoundIsOver, WaiterIsThere,
            NotBegun, turnVars
<1>1. TypeOK'
  BY TypeForeground
<1>2. ASSUME NEW m \in Modes, StartRun(f, m) PROVE SlotInv'
  BY <1>1, <1>2 DEF StartRun
<1>3. ASSUME NEW r \in Runs, ResumeRun(f, r) PROVE SlotInv'
  BY <1>1, <1>3 DEF ResumeRun
<1>4. CASE BeginSession(f)
  <2>1. pc[f] = "none" /\ reply[f] = "none"
    BY <1>4 DEF BeginSession
  <2>2. CASE CanStart(session)
    <3>1. /\ session'.sid = f /\ session'.status = "running" /\ ~session'.waiting
          /\ call' = [call EXCEPT ![f] = "polling"]
          /\ pc' = [pc EXCEPT ![f] = "setup"]
          /\ UNCHANGED reply
      BY <1>4, <2>2 DEF BeginSession, Started, Idle, Goto
    <3>2. QED
      BY <1>1, <2>1, <3>1, NoFlowAssumption
  <2>3. CASE ~CanStart(session)
    <3>1. /\ call' = [call EXCEPT ![f] = "rejected"]
          /\ UNCHANGED <<session, pc, reply>>
      BY <1>4, <2>3 DEF BeginSession
    <3>2. session.sid # f
      BY <1>4 DEF BeginSession
    <3>3. QED
      BY <1>1, <2>1, <3>1, <3>2
  <2>4. QED
    BY <2>2, <2>3
<1>5. CASE BeginResume(f)
  <2>1. CASE CanStart(session)
    <3>1. /\ session'.sid = f /\ session'.status = "running" /\ ~session'.waiting
          /\ call' = [call EXCEPT ![f] = "refreshing"]
          /\ UNCHANGED <<pc, reply>>
      BY <1>5, <2>1, StartedFields DEF BeginResume
    <3>2. pc[f] = "none" /\ reply[f] = "none"
      BY <1>5 DEF BeginResume
    <3>3. EmptySlotIsIdle' /\ RoundIsOver' /\ WaiterIsThere'
      BY <3>1, NoFlowAssumption
    <3>4. HolderHasBegun' /\ TaskAfterBegin' /\ ReplyIsForWaiter'
      BY <3>1, <3>2
    <3>5. QED
      BY <1>1, <3>3, <3>4
  <2>2. CASE ~CanStart(session)
    <3>1. /\ call' = [call EXCEPT ![f] = "rejected"]
          /\ UNCHANGED <<session, pc, reply>>
      BY <1>5, <2>2 DEF BeginResume
    <3>2. session.sid # f
      BY <1>5 DEF BeginResume
    <3>3. pc[f] = "none"
      BY <1>5 DEF BeginResume
    <3>4. QED
      BY <1>1, <3>1, <3>2, <3>3
  <2>3. QED
    BY <2>1, <2>2
<1>6. CASE Launch(f)
  <2>1. pc[f] = "none" /\ reply[f] = "none"
    BY <1>6 DEF Launch
  <2>2. /\ call' = [call EXCEPT ![f] = "returned"]
        /\ \A g \in Flows \ {f} : pc'[g] = pc[g]
        /\ session.sid # f => pc'[f] = "done"
        /\ UNCHANGED <<session, reply>>
    BY <1>6 DEF Launch, Goto
  <2>3. HolderHasBegun' /\ TaskAfterBegin' /\ ReplyIsForWaiter'
    BY <2>1, <2>2
  <2>4. CASE session.sid = f
    <3>1. ~session.waiting /\ session.status # "paused"
      BY <2>1, <2>4
    <3>2. QED
      BY <1>1, <2>2, <2>3, <3>1
  <2>5. CASE session.sid # f
    <3>1. session.sid \in Flows => pc'[session.sid] = pc[session.sid]
      BY <2>2, <2>5
    <3>2. session.sid \notin Flows => ~session.waiting /\ session.status = "idle"
      BY DEF Idle
    <3>3. QED
      BY <1>1, <2>2, <2>3, <3>1, <3>2
  <2>6. QED
    BY <2>4, <2>5
<1>7. CASE LaunchFails(f)
  BY <1>1, <1>7 DEF LaunchFails
<1>8. CASE FindRunId(f)
  <2>1. /\ session'.sid = session.sid /\ session'.status = session.status
        /\ session'.waiting = session.waiting
    BY <1>8 DEF FindRunId, Labelled
  <2>2. session.sid = NoFlow => session' = session
    BY <1>8, NoFlowAssumption DEF FindRunId, Labelled
  <2>3. UNCHANGED <<pc, reply>> /\ call' = [call EXCEPT ![f] = "returned"]
    BY <1>8 DEF FindRunId
  <2>4. EmptySlotIsIdle'
    BY <2>1, <2>2
  <2>5. HolderHasBegun' /\ TaskAfterBegin'
    BY <2>1, <2>3
  <2>6. RoundIsOver' /\ WaiterIsThere' /\ ReplyIsForWaiter'
    BY <2>1, <2>3
  <2>7. QED
    BY <1>1, <2>4, <2>5, <2>6
<1>9. CASE PollGivesUp(f)
  BY <1>1, <1>9 DEF PollGivesUp
<1>10. QED
  BY <1>2, <1>3, <1>4, <1>5, <1>6, <1>7, <1>8, <1>9 DEF Foreground

\* The calls that address a run keep the slot well formed.
LEMMA SlotInvAddressed ==
    ASSUME SlotInv, NEW r \in Runs, Addressed(r)
    PROVE  SlotInv'
<1> USE DEF SlotInv, TypeOK, SessionType, EmptySlotIsIdle, HolderHasBegun,
            TaskAfterBegin, ReplyIsForWaiter, RoundIsOver, WaiterIsThere,
            NotBegun, flowVars, Addresses
<1>1. TypeOK'
  BY TypeAddressed
<1>2. CASE AbortPaused(r)
  BY <1>1, <1>2, NoFlowAssumption DEF AbortPaused, Idle, turnVars
<1>3. CASE AbortWaiting(r)
  BY <1>1, <1>3 DEF AbortWaiting, AbortAnswers, AbortedWaiter
<1>4. CASE AbortRunning(r)
  BY <1>1, <1>4 DEF AbortRunning, AbortAnswers, AbortedRunning
<1>5. ASSUME NEW text \in Replies \ {"none"}, SubmitReply(r, text)
      PROVE  SlotInv'
  BY <1>1, <1>5 DEF SubmitReply, Resumes, Resumed
<1>6. ASSUME NEW f \in Flows, SubmitContinuation(r, f) PROVE SlotInv'
  BY <1>1, <1>6, NoFlowAssumption DEF SubmitContinuation, Idle, turnVars
<1>7. ASSUME NEW m \in Messages, SubmitQueued(r, m) PROVE SlotInv'
  BY <1>1, <1>7 DEF SubmitQueued, Queues, Queued
<1>8. QED
  BY <1>2, <1>3, <1>4, <1>5, <1>6, <1>7 DEF Addressed

\* complete_run keeps the slot well formed.
LEMMA SlotInvCompletion ==
    ASSUME SlotInv, NEW c \in Calls, Completion(c)
    PROVE  SlotInv'
<1> USE DEF SlotInv, TypeOK, SessionType, EmptySlotIsIdle, HolderHasBegun,
            TaskAfterBegin, ReplyIsForWaiter, RoundIsOver, WaiterIsThere,
            flowVars, turnVars
<1>1. TypeOK'
  BY TypeCompletion
<1>2. ASSUME NEW r \in Runs, CompleteRun(c, r) PROVE SlotInv'
  BY <1>1, <1>2 DEF CompleteRun
<1>3. CASE CheckCompleted(c)
  BY <1>1, <1>3 DEF CheckCompleted
<1>4. CASE FinishCompleted(c)
  BY <1>1, <1>4, NoFlowAssumption DEF FinishCompleted, Idle
<1>5. QED
  BY <1>2, <1>3, <1>4 DEF Completion

\* Every step keeps the slot well formed.
LEMMA SlotInvStep == SlotInv /\ [Next]_vars => SlotInv'
<1> SUFFICES ASSUME SlotInv, [Next]_vars
             PROVE  SlotInv'
  OBVIOUS
<1>1. CASE UNCHANGED vars
  BY <1>1
  DEF vars, flowVars, turnVars, histVars, SlotInv, TypeOK, EmptySlotIsIdle,
      HolderHasBegun, TaskAfterBegin, ReplyIsForWaiter, RoundIsOver,
      WaiterIsThere
<1>2. CASE Next
  BY <1>2, SlotInvForeground, SlotInvWork, SlotInvAddressed, SlotInvCompletion
  DEF Next
<1>3. QED
  BY <1>1, <1>2

\* The inductive invariant of the slot, which the theorems below rest on
\* (runSessionManager.ts and its callers in runsHandlers.ts).
THEOREM SlotInvariant == Spec => []SlotInv
<1>1. Init => SlotInv
  BY SlotInvInit
<1>2. SlotInv /\ [Next]_vars => SlotInv'
  BY SlotInvStep
<1>3. QED
  BY <1>1, <1>2, PTL DEF Spec

\* An answer or an abort that the slot accepts for a waiting run reaches the
\* task that waits, and reaches it once.
THEOREM WaiterIsAlwaysThere == Spec => []WaiterIsThere
<1>1. SlotInv => WaiterIsThere
  BY DEF SlotInv
<1>2. QED
  BY <1>1, SlotInvariant, PTL

-----------------------------------------------------------------------------
(***************************************************************************)
(* A session in the slot is driven, unless a resume fails while it starts. *)
(***************************************************************************)
LEMMA DrivenStep ==
    ASSUME SetupFaults = FALSE, SlotInv, SlotInv', SessionIsDriven, [Next]_vars
    PROVE  SessionIsDriven'
<1> USE DEF SlotInv, SessionIsDriven
<1>1. session' = Idle => SessionIsDriven'
  BY DEF Idle
<1>2. CASE UNCHANGED vars
  BY <1>2 DEF vars, flowVars
<1>3. ASSUME NEW f \in Flows, Work(f) PROVE SessionIsDriven'
  <2>1. OnlyTask(f) /\ (GoesOn(f) \/ Pauses(f) \/ Ends(f))
    BY <1>3, WorkStep
  <2>2. CASE GoesOn(f)
    <3>1. SessionIsDriven' \/ session.sid \in Flows
      BY <2>2 DEF GoesOn, EmptySlotIsIdle, Idle, TypeOK, SessionType
    <3>2. QED
      BY <2>1, <2>2, <3>1 DEF GoesOn, OnlyTask
  <2>3. CASE Pauses(f)
    <3>1. session'.sid = f
      BY <2>3 DEF Pauses, CanWait, Waiting, TypeOK, SessionType
    <3>2. QED
      BY <2>3, <3>1 DEF Pauses, Live
  <2>4. CASE session.sid # f /\ UNCHANGED session
    <3>1. SessionIsDriven' \/ session.sid \in Flows
      BY <2>4 DEF EmptySlotIsIdle, Idle, TypeOK, SessionType
    <3>2. QED
      BY <2>1, <2>4, <3>1 DEF OnlyTask
  <2>5. CASE session' = [session EXCEPT !.status = "paused", !.bound = FALSE,
                                       !.waiting = FALSE]
    BY <2>5 DEF TypeOK, SessionType
  <2>6. QED
    BY <1>1, <2>1, <2>2, <2>3, <2>4, <2>5 DEF Ends
<1>4. ASSUME NEW f \in Flows, Foreground(f) PROVE SessionIsDriven'
  <2>1. ASSUME NEW m \in Modes, StartRun(f, m) PROVE SessionIsDriven'
    BY <2>1 DEF StartRun, TypeOK
  <2>2. ASSUME NEW r \in Runs, ResumeRun(f, r) PROVE SessionIsDriven'
    BY <2>2 DEF ResumeRun, TypeOK
  <2>3. CASE BeginSession(f)
    <3>1. CASE CanStart(session)
      <4>1. session'.sid = f /\ pc'[f] = "setup"
        <5>1. session' = Started(f) /\ pc' = [pc EXCEPT ![f] = "setup"]
          BY <2>3, <3>1 DEF BeginSession, Goto
        <5>2. QED
          BY <5>1, StartedFields DEF TypeOK
      <4>2. QED
        BY <4>1 DEF Live
    <3>2. CASE ~CanStart(session)
      <4>1. UNCHANGED <<session, pc>> /\ call' = [call EXCEPT ![f] = "rejected"]
        BY <2>3, <3>2 DEF BeginSession
      <4>2. session.sid \in Flows /\ session.sid # f
        BY <2>3, <3>2
        DEF BeginSession, CanStart, HolderHasBegun, NotBegun, TypeOK, SessionType
      <4>3. QED
        BY <4>1, <4>2 DEF TypeOK
    <3>3. QED
      BY <3>1, <3>2
  <2>4. CASE BeginResume(f)
    <3>1. CASE CanStart(session)
      <4>1. session'.sid = f /\ call'[f] = "refreshing"
        <5>1. /\ session' = Labelled(Started(f), f, target[f])
              /\ call' = [call EXCEPT ![f] = "refreshing"]
          BY <2>4, <3>1 DEF BeginResume
        <5>2. QED
          BY <5>1, StartedFields DEF TypeOK
      <4>2. QED
        BY <4>1
    <3>2. CASE ~CanStart(session)
      <4>1. UNCHANGED <<session, pc>> /\ call' = [call EXCEPT ![f] = "rejected"]
        BY <2>4, <3>2 DEF BeginResume
      <4>2. session.sid \in Flows /\ session.sid # f
        BY <2>4, <3>2
        DEF BeginResume, CanStart, HolderHasBegun, NotBegun, TypeOK, SessionType
      <4>3. QED
        BY <4>1, <4>2 DEF TypeOK
    <3>3. QED
      BY <3>1, <3>2
  <2>5. CASE Launch(f)
    <3>1. /\ UNCHANGED session
          /\ \A g \in Flows \ {f} : pc'[g] = pc[g] /\ call'[g] = call[g]
          /\ session.sid = f => pc'[f] \in Live
      BY <2>5 DEF Launch, Goto, Live, TypeOK
    <3>2. SessionIsDriven' \/ session.sid \in Flows
      BY <3>1 DEF EmptySlotIsIdle, Idle, TypeOK, SessionType
    <3>3. QED
      BY <3>1, <3>2
  <2>6. CASE LaunchFails(f)
    BY <2>6 DEF LaunchFails
  <2>7. CASE FindRunId(f)
    <3>1. session'.sid = session.sid /\ session'.status = session.status
          /\ session'.waiting = session.waiting
      BY <2>7 DEF FindRunId, Labelled
    <3>2. QED
      BY <2>7, <3>1 DEF FindRunId, TypeOK
  <2>8. CASE PollGivesUp(f)
    BY <2>8 DEF PollGivesUp, TypeOK
  <2>9. QED
    BY <1>4, <2>1, <2>2, <2>3, <2>4, <2>5, <2>6, <2>7, <2>8 DEF Foreground
<1>5. ASSUME NEW r \in Runs, Addressed(r) PROVE SessionIsDriven'
  <2>1. CASE AbortPaused(r)
    BY <1>1, <2>1 DEF AbortPaused
  <2>2. CASE AbortWaiting(r)
    BY <2>2 DEF AbortWaiting, AbortAnswers, AbortedWaiter, flowVars, TypeOK, SessionType
  <2>3. CASE AbortRunning(r)
    <3>1. session.status \in {"running", "aborting"}
      BY <2>3
      DEF AbortRunning, Addresses, AbortClears, AbortAnswers, EmptySlotIsIdle,
          TypeOK, SessionType, Statuses
    <3>2. /\ session'.sid = session.sid
          /\ session'.waiting = session.waiting
          /\ UNCHANGED <<pc, call>>
      BY <2>3 DEF AbortRunning, AbortedRunning, flowVars, TypeOK, SessionType
    <3>3. QED
      BY <3>1, <3>2
  <2>4. ASSUME NEW text \in Replies \ {"none"}, SubmitReply(r, text)
        PROVE  SessionIsDriven'
    BY <2>4 DEF SubmitReply, Resumes, Resumed, flowVars, TypeOK, SessionType
  <2>5. ASSUME NEW f \in Flows, SubmitContinuation(r, f) PROVE SessionIsDriven'
    BY <1>1, <2>5 DEF SubmitContinuation
  <2>6. ASSUME NEW m \in Messages, SubmitQueued(r, m) PROVE SessionIsDriven'
    BY <2>6 DEF SubmitQueued, Queued, flowVars, TypeOK, SessionType
  <2>7. QED
    BY <1>5, <2>1, <2>2, <2>3, <2>4, <2>5, <2>6 DEF Addressed
<1>6. ASSUME NEW c \in Calls, Completion(c) PROVE SessionIsDriven'
  BY <1>1, <1>6
  DEF Completion, CompleteRun, CheckCompleted, FinishCompleted, flowVars
<1>7. QED
  BY <1>2, <1>3, <1>4, <1>5, <1>6 DEF Next

\* The slot is never held by a run that nobody works on.
THEOREM SessionIsAlwaysDriven ==
    ASSUME SetupFaults = FALSE
    PROVE  Spec => []SessionIsDriven
<1>1. Init => SessionIsDriven
  BY DEF Init, SessionIsDriven, Idle
<1>2. SlotInv /\ SlotInv' /\ SessionIsDriven /\ [Next]_vars => SessionIsDriven'
  BY DrivenStep
<1>3. QED
  BY <1>1, <1>2, SlotInvariant, PTL DEF Spec

-----------------------------------------------------------------------------
(***************************************************************************)
(* Aborts.                                                                 *)
(***************************************************************************)
LEMMA StopSticksStep ==
    ASSUME SlotInv, SlotInv', StopSticks, [Next]_vars
    PROVE  StopSticks'
<1> USE DEF SlotInv, StopSticks
<1>1. CASE UNCHANGED vars
  BY <1>1 DEF vars, flowVars, turnVars, histVars
<1>2. ASSUME NEW f \in Flows, Work(f) PROVE StopSticks'
  <2>1. OnlyTask(f) /\ (GoesOn(f) \/ Pauses(f) \/ Ends(f))
    BY <1>2, WorkStep
  <2>2. ASSUME NEW g \in acked', g # f
        PROVE  \/ g \in signal'
               \/ pc'[g] \in {"failing", "failed", "done"}
               \/ reply'[g] = "/abort"
    BY <2>1, <2>2 DEF OnlyTask, GoesOn, Pauses, Ends, TypeOK
  <2>3. ASSUME f \in acked'
        PROVE  \/ f \in signal'
               \/ pc'[f] \in {"failing", "failed", "done"}
               \/ reply'[f] = "/abort"
    BY <2>1, <2>3
    DEF OnlyTask, GoesOn, Pauses, Ends, ReplyIsForWaiter, Live, TypeOK
  <2>4. QED
    BY <2>2, <2>3
<1>3. ASSUME NEW f \in Flows, Foreground(f) PROVE StopSticks'
  <2>1. UNCHANGED <<acked, signal, reply>>
    BY <1>3
    DEF Foreground, StartRun, ResumeRun, BeginSession, BeginResume, Launch,
        LaunchFails, FindRunId, PollGivesUp, turnVars, histVars
  <2>2. \A g \in Flows : pc[g] # "none" => pc'[g] = pc[g]
    BY <1>3
    DEF Foreground, StartRun, ResumeRun, BeginSession, BeginResume, Launch,
        LaunchFails, FindRunId, PollGivesUp, Goto, TaskAfterBegin, NotBegun,
        TypeOK
  <2>3. QED
    BY <2>1, <2>2 DEF TypeOK
<1>4. ASSUME NEW r \in Runs, Addressed(r) PROVE StopSticks'
  <2>1. CASE AbortPaused(r)
    BY <2>1
    DEF AbortPaused, AbortClears, RoundIsOver, turnVars, TypeOK
  <2>2. CASE AbortWaiting(r)
    BY <2>2 DEF AbortWaiting, TypeOK
  <2>3. CASE AbortRunning(r)
    BY <2>3 DEF AbortRunning, TypeOK
  <2>4. ASSUME NEW text \in Replies \ {"none"}, SubmitReply(r, text)
        PROVE  StopSticks'
    <3>1. reply[session.sid] = "none" /\ pc[session.sid] = "wait"
      BY <2>4 DEF SubmitReply, Resumes, WaiterIsThere
    <3>2. QED
      BY <2>4, <3>1 DEF SubmitReply, histVars, TypeOK
  <2>5. ASSUME NEW f \in Flows, SubmitContinuation(r, f) PROVE StopSticks'
    BY <2>5 DEF SubmitContinuation, turnVars
  <2>6. ASSUME NEW m \in Messages, SubmitQueued(r, m) PROVE StopSticks'
    BY <2>6 DEF SubmitQueued, histVars
  <2>7. QED
    BY <1>4, <2>1, <2>2, <2>3, <2>4, <2>5, <2>6 DEF Addressed
<1>5. ASSUME NEW c \in Calls, Completion(c) PROVE StopSticks'
  BY <1>5
  DEF Completion, CompleteRun, CheckCompleted, FinishCompleted, turnVars, histVars
<1>6. QED
  BY <1>1, <1>2, <1>3, <1>4, <1>5 DEF Next

\* No step takes a task whose abort was accepted into a turn.
LEMMA StopStepsNoTurn ==
    ASSUME SlotInv, StopSticks, [Next]_vars
    PROVE  \A f \in acked : pc'[f] = "prep" => pc[f] = "prep"
<1> USE DEF SlotInv
<1>1. SUFFICES ASSUME NEW g \in acked, pc'[g] = "prep"
               PROVE  pc[g] = "prep"
  OBVIOUS
<1>2. g \in Flows
  BY DEF TypeOK
<1>3. ASSUME NEW f \in Flows, Work(f) PROVE pc[g] = "prep"
  <2>1. OnlyTask(f) /\ (GoesOn(f) \/ Pauses(f) \/ Ends(f))
    BY <1>3, WorkStep
  <2>2. CASE g # f
    BY <1>1, <1>2, <2>1, <2>2 DEF OnlyTask
  <2>3. CASE g = f
    BY <1>1, <1>2, <2>1, <2>3
    DEF StopSticks, GoesOn, Pauses, Ends, ReplyIsForWaiter, Live
  <2>4. QED
    BY <2>2, <2>3
<1>4. ASSUME NEW f \in Flows, Foreground(f) PROVE pc[g] = "prep"
  BY <1>1, <1>2, <1>4
  DEF Foreground, StartRun, ResumeRun, BeginSession, BeginResume, Launch,
      LaunchFails, FindRunId, PollGivesUp, Goto, TypeOK
<1>5. CASE UNCHANGED vars
  BY <1>1, <1>5 DEF vars
<1>6. ASSUME NEW r \in Runs, Addressed(r) PROVE pc[g] = "prep"
  BY <1>1, <1>6
  DEF Addressed, AbortPaused, AbortWaiting, AbortRunning, SubmitReply,
      SubmitContinuation, SubmitQueued
<1>7. ASSUME NEW c \in Calls, Completion(c) PROVE pc[g] = "prep"
  BY <1>1, <1>7 DEF Completion, CompleteRun, CheckCompleted, FinishCompleted
<1>8. QED
  BY <1>3, <1>4, <1>5, <1>6, <1>7 DEF Next

\* No provider turn is entered for a session once its abort was accepted.
THEOREM AbortStopsTurns == Spec => NoTurnAfterAbort
<1>1. Init => StopSticks
  BY DEF Init, StopSticks
<1>2. SlotInv /\ SlotInv' /\ StopSticks /\ [Next]_vars => StopSticks'
  BY StopSticksStep
<1>3. SlotInv /\ StopSticks /\ [Next]_vars
        => [\A f \in acked : pc'[f] = "prep" => pc[f] = "prep"]_vars
  BY StopStepsNoTurn
<1>4. QED
  BY <1>1, <1>2, <1>3, SlotInvariant, PTL DEF Spec, NoTurnAfterAbort

-----------------------------------------------------------------------------
(***************************************************************************)
(* A task whose session left the slot cannot touch the next one.           *)
(***************************************************************************)
LEMMA ForeignStep ==
    ASSUME SlotInv, [Next]_vars
    PROVE  \A f \in Flows : pc[f] \in Live /\ pc'[f] # pc[f] /\ session.sid # f
                               => session' = session
<1> USE DEF SlotInv
<1>1. SUFFICES ASSUME NEW g \in Flows, pc[g] \in Live, pc'[g] # pc[g],
                      session.sid # g
               PROVE  session' = session
  OBVIOUS
<1>2. ASSUME NEW f \in Flows, Work(f) PROVE session' = session
  <2>1. OnlyTask(f) /\ (GoesOn(f) \/ Pauses(f) \/ Ends(f))
    BY <1>2, WorkStep
  <2>2. g = f
    BY <1>1, <2>1 DEF OnlyTask
  <2>3. QED
    BY <1>1, <2>1, <2>2 DEF GoesOn, Pauses, CanWait, Ends
<1>3. ASSUME NEW f \in Flows, Foreground(f) PROVE FALSE
  <2>1. pc[g] # "none"
    BY <1>1 DEF Live
  <2>2. QED
    BY <1>1, <1>3, <2>1
    DEF Foreground, StartRun, ResumeRun, BeginSession, BeginResume, Launch,
        LaunchFails, FindRunId, PollGivesUp, Goto, TaskAfterBegin, NotBegun,
        TypeOK
<1>4. CASE UNCHANGED vars
  BY <1>1, <1>4 DEF vars
<1>5. ASSUME NEW r \in Runs, Addressed(r) PROVE FALSE
  BY <1>1, <1>5
  DEF Addressed, AbortPaused, AbortWaiting, AbortRunning, SubmitReply,
      SubmitContinuation, SubmitQueued
<1>6. ASSUME NEW c \in Calls, Completion(c) PROVE FALSE
  BY <1>1, <1>6 DEF Completion, CompleteRun, CheckCompleted, FinishCompleted
<1>7. QED
  BY <1>2, <1>3, <1>4, <1>5, <1>6 DEF Next

\* Stale tasks leave the slot of a newer session alone.
THEOREM ForeignSlotIsUntouched == Spec => ForeignSlotUntouched
<1>1. SlotInv /\ [Next]_vars
        => [\A f \in Flows : pc[f] \in Live /\ pc'[f] # pc[f] /\ session.sid # f
                               => session' = session]_vars
  BY ForeignStep
<1>2. QED
  BY <1>1, SlotInvariant, PTL DEF Spec, ForeignSlotUntouched

-----------------------------------------------------------------------------
(***************************************************************************)
(* What a step does to the slot's holder: the view RunSlot takes of it.    *)
(***************************************************************************)
Keeps ==
    /\ session'.sid = session.sid
    /\ UNCHANGED emitted
    /\ \A f \in Flows : call'[f] \in NotBegun <=> call[f] \in NotBegun

Takes(f) ==
    /\ session.sid = NoFlow /\ session'.sid = f
    /\ UNCHANGED emitted
    /\ call[f] \in NotBegun /\ call'[f] \notin NotBegun
    /\ \A g \in Flows \ {f} : call'[g] = call[g]

Leaves ==
    /\ session.sid # NoFlow /\ session' = Idle
    /\ Reports
    /\ \A f \in Flows : call'[f] \in NotBegun <=> call[f] \in NotBegun

\* A step keeps the holder of the slot, lets it leave, or seats a new one.
LEMMA HolderStep ==
    ASSUME SlotInv, [Next]_vars
    PROVE  Keeps \/ Leaves \/ \E f \in Flows : Takes(f)
<1> USE DEF SlotInv, TypeOK
<1>1. CASE UNCHANGED vars
  BY <1>1 DEF vars, flowVars, histVars, Keeps
<1>2. ASSUME NEW f \in Flows, Work(f) PROVE Keeps \/ Leaves
  <2>1. OnlyTask(f) /\ (GoesOn(f) \/ Pauses(f) \/ Ends(f))
    BY <1>2, WorkStep
  <2>2. CASE GoesOn(f)
    BY <2>1, <2>2 DEF OnlyTask, GoesOn, Keeps
  <2>3. CASE Pauses(f)
    <3>1. session'.sid = session.sid
      BY <2>3 DEF Pauses, CanWait, Waiting, SessionType
    <3>2. QED
      BY <2>1, <2>3, <3>1 DEF OnlyTask, Pauses, Keeps
  <2>4. CASE Ends(f)
    <3>1. CASE session.sid = f /\ session' = Idle /\ Reports
      BY <2>1, <3>1, NoFlowAssumption DEF OnlyTask, Leaves
    <3>2. CASE ~(session.sid = f /\ session' = Idle /\ Reports)
      <4>1. session'.sid = session.sid /\ UNCHANGED emitted
        BY <2>4, <3>2 DEF Ends, SessionType
      <4>2. QED
        BY <2>1, <4>1 DEF OnlyTask, Keeps
    <3>3. QED
      BY <3>1, <3>2
  <2>5. QED
    BY <2>1, <2>2, <2>3, <2>4
<1>3. ASSUME NEW f \in Flows, Foreground(f) PROVE Keeps \/ Takes(f)
  <2>1. ASSUME NEW m \in Modes, StartRun(f, m) PROVE Keeps
    BY <2>1 DEF StartRun, histVars, Keeps, NotBegun
  <2>2. ASSUME NEW r \in Runs, ResumeRun(f, r) PROVE Keeps
    BY <2>2 DEF ResumeRun, histVars, Keeps, NotBegun
  <2>3. CASE BeginSession(f)
    <3>1. CASE CanStart(session)
      <4>1. /\ session.sid = NoFlow /\ session' = Started(f)
            /\ call' = [call EXCEPT ![f] = "polling"] /\ call[f] = "listing"
            /\ UNCHANGED emitted
        BY <2>3, <3>1 DEF BeginSession, CanStart, histVars
      <4>2. QED
        BY <4>1, StartedFields DEF Takes, NotBegun
    <3>2. CASE ~CanStart(session)
      <4>1. /\ UNCHANGED <<session, emitted>> /\ call[f] = "listing"
            /\ call' = [call EXCEPT ![f] = "rejected"]
        BY <2>3, <3>2 DEF BeginSession, histVars
      <4>2. QED
        BY <4>1 DEF Keeps, NotBegun
    <3>3. QED
      BY <3>1, <3>2
  <2>4. CASE BeginResume(f)
    <3>1. CASE CanStart(session)
      <4>1. /\ session.sid = NoFlow
            /\ session' = Labelled(Started(f), f, target[f])
            /\ call' = [call EXCEPT ![f] = "refreshing"] /\ call[f] = "loading"
            /\ UNCHANGED emitted
        BY <2>4, <3>1 DEF BeginResume, CanStart, histVars
      <4>2. QED
        BY <4>1, StartedFields DEF Takes, NotBegun
    <3>2. CASE ~CanStart(session)
      <4>1. /\ UNCHANGED <<session, emitted>> /\ call[f] = "loading"
            /\ call' = [call EXCEPT ![f] = "rejected"]
        BY <2>4, <3>2 DEF BeginResume, histVars
      <4>2. QED
        BY <4>1 DEF Keeps, NotBegun
    <3>3. QED
      BY <3>1, <3>2
  <2>5. CASE Launch(f)
    BY <2>5 DEF Launch, histVars, Keeps, NotBegun
  <2>6. CASE LaunchFails(f)
    BY <2>6 DEF LaunchFails, histVars, Keeps, NotBegun
  <2>7. CASE FindRunId(f)
    <3>1. session'.sid = session.sid
      BY <2>7 DEF FindRunId, Labelled
    <3>2. QED
      BY <2>7, <3>1 DEF FindRunId, histVars, Keeps, NotBegun
  <2>8. CASE PollGivesUp(f)
    BY <2>8 DEF PollGivesUp, histVars, Keeps, NotBegun
  <2>9. QED
    BY <1>3, <2>1, <2>2, <2>3, <2>4, <2>5, <2>6, <2>7, <2>8 DEF Foreground
<1>4. ASSUME NEW r \in Runs, Addressed(r) PROVE Keeps \/ Leaves
  <2>1. CASE AbortPaused(r)
    BY <2>1, EmitReports DEF AbortPaused, Addresses, Leaves, flowVars
  <2>2. CASE AbortWaiting(r)
    BY <2>2 DEF AbortWaiting, AbortedWaiter, SessionType, Keeps, flowVars
  <2>3. CASE AbortRunning(r)
    BY <2>3 DEF AbortRunning, AbortedRunning, SessionType, Keeps, flowVars
  <2>4. ASSUME NEW text \in Replies \ {"none"}, SubmitReply(r, text) PROVE Keeps
    BY <2>4 DEF SubmitReply, Resumed, SessionType, Keeps, flowVars, histVars
  <2>5. ASSUME NEW f \in Flows, SubmitContinuation(r, f) PROVE Leaves
    <3>1. Reports
      BY <2>5, EmitReports DEF SubmitContinuation, FinishStatus
    <3>2. QED
      BY <2>5, <3>1 DEF SubmitContinuation, Addresses, Leaves, NotBegun
  <2>6. ASSUME NEW m \in Messages, SubmitQueued(r, m) PROVE Keeps
    BY <2>6 DEF SubmitQueued, Queued, SessionType, Keeps, flowVars, histVars
  <2>7. QED
    BY <1>4, <2>1, <2>2, <2>3, <2>4, <2>5, <2>6 DEF Addressed
<1>5. ASSUME NEW c \in Calls, Completion(c) PROVE Keeps \/ Leaves
  <2>1. ASSUME NEW r \in Runs, CompleteRun(c, r) PROVE Keeps
    BY <2>1 DEF CompleteRun, flowVars, histVars, Keeps
  <2>2. CASE CheckCompleted(c)
    BY <2>2 DEF CheckCompleted, flowVars, histVars, Keeps
  <2>3. CASE FinishCompleted(c)
    <3>1. CASE Addresses(session, complete[c].run)
      <4>1. session' = Idle /\ Reports
        BY <2>3, <3>1, EmitReports DEF FinishCompleted, FinishStatus
      <4>2. QED
        BY <2>3, <3>1, <4>1 DEF FinishCompleted, Addresses, Leaves, flowVars
    <3>2. CASE ~Addresses(session, complete[c].run)
      BY <2>3, <3>2 DEF FinishCompleted, Keeps, flowVars
    <3>3. QED
      BY <3>1, <3>2
  <2>4. QED
    BY <1>5, <2>1, <2>2, <2>3 DEF Completion
<1>6. QED
  BY <1>1, <1>2, <1>3, <1>4, <1>5 DEF Next

\* One run_finished per session, after which the session is gone.
THEOREM FinishedOnce == Spec => []OneFinishPerSession
<1>1. Init => FinishedHasBegun /\ OneFinishPerSession
  BY DEF Init, FinishedHasBegun, OneFinishPerSession
<1>2. ASSUME SlotInv, SlotInv', FinishedHasBegun, OneFinishPerSession, [Next]_vars
      PROVE  FinishedHasBegun' /\ OneFinishPerSession'
  <2>1. \A e \in emitted : e.sid \in Flows
    BY <1>2 DEF SlotInv, TypeOK, FinishEvents
  <2>2. CASE Keeps
    BY <1>2, <2>1, <2>2 DEF Keeps, FinishedHasBegun, OneFinishPerSession
  <2>3. CASE Leaves
    <3>1. session.sid \in Flows /\ session'.sid = NoFlow
          /\ call[session.sid] \notin NotBegun
      BY <1>2, <2>3
      DEF Leaves, Idle, SlotInv, TypeOK, SessionType, HolderHasBegun
    <3>2. QED
      BY <1>2, <2>1, <2>3, <3>1, NoFlowAssumption
      DEF Leaves, Reports, FinishedHasBegun, OneFinishPerSession
  <2>4. ASSUME NEW f \in Flows, Takes(f)
        PROVE  FinishedHasBegun' /\ OneFinishPerSession'
    BY <1>2, <2>1, <2>4 DEF Takes, FinishedHasBegun, OneFinishPerSession
  <2>5. QED
    BY <1>2, <2>2, <2>3, <2>4, HolderStep
<1>3. SlotInv /\ SlotInv' /\ FinishedHasBegun /\ OneFinishPerSession /\ [Next]_vars
        => FinishedHasBegun' /\ OneFinishPerSession'
  BY <1>2
<1>4. QED
  BY <1>1, <1>3, SlotInvariant, PTL DEF Spec

\* The slot of the runner is the slot RunSlot describes.
THEOREM SlotRefinement == Spec => SlotSpec
<1>1. Init => Slot!Init
  BY DEF Init, Slot!Init, Idle, Taken, NotBegun
<1>2. ASSUME SlotInv, SlotInv', [Next]_vars
      PROVE  [Slot!Next]_<<session.sid, Taken>>
  <2>1. Keeps \/ Leaves \/ \E f \in Flows : Takes(f)
    BY <1>2, HolderStep
  <2>2. CASE Keeps
    <3>1. Taken' = Taken
      BY <2>2 DEF Keeps, Taken
    <3>2. QED
      BY <2>2, <3>1 DEF Keeps
  <2>3. CASE Leaves
    <3>1. Taken' = Taken
      BY <2>3 DEF Leaves, Taken
    <3>2. QED
      BY <2>3, <3>1 DEF Leaves, Idle, Slot!Next, Slot!Release
  <2>4. ASSUME NEW f \in Flows, Takes(f) PROVE Slot!Acquire(f)
    <3>1. Taken' = Taken \cup {f} /\ f \notin Taken
      BY <2>4 DEF Takes, Taken
    <3>2. QED
      BY <2>4, <3>1 DEF Takes, Slot!Acquire
  <2>5. QED
    BY <2>1, <2>2, <2>3, <2>4 DEF Slot!Next
<1>3. SlotInv /\ SlotInv' /\ [Next]_vars => [Slot!Next]_<<session.sid, Taken>>
  BY <1>2
<1>4. QED
  BY <1>1, <1>3, SlotInvariant, PTL DEF Spec, SlotSpec, Slot!Spec

-----------------------------------------------------------------------------
(***************************************************************************)
(* Without complete_run calls in flight, a live task holds the slot.  With *)
(* one, the theorems below fail: run FindTwoRuns shows how.                *)
(***************************************************************************)
LEMMA HoldsStep ==
    ASSUME Calls = {}, SlotInv, SlotInv', TaskHoldsSlot, [Next]_vars
    PROVE  TaskHoldsSlot'
<1> USE DEF SlotInv, TaskHoldsSlot
<1>1. CASE UNCHANGED vars
  BY <1>1 DEF vars
<1>2. ASSUME NEW f \in Flows, Work(f) PROVE TaskHoldsSlot'
  <2>1. OnlyTask(f) /\ (GoesOn(f) \/ Pauses(f) \/ Ends(f))
    BY <1>2, WorkStep
  <2>2. session.sid = f /\ \A g \in Flows \ {f} : pc[g] \notin Live
    BY <2>1 DEF GoesOn, Pauses, Ends, Live
  <2>3. \A g \in Flows \ {f} : pc'[g] \notin Live
    BY <2>1, <2>2 DEF OnlyTask
  <2>4. pc'[f] \in Live => session'.sid = f
    BY <2>1, <2>2
    DEF GoesOn, Pauses, Ends, Waiting, Live, TypeOK, SessionType
  <2>5. QED
    BY <2>3, <2>4
<1>3. ASSUME NEW f \in Flows, Foreground(f) PROVE TaskHoldsSlot'
  <2>1. CASE UNCHANGED <<pc, session>>
    BY <2>1
  <2>2. CASE BeginSession(f) /\ CanStart(session)
    <3>1. session' = Started(f) /\ pc' = [pc EXCEPT ![f] = "setup"]
          /\ session.sid = NoFlow
      BY <2>2 DEF BeginSession, CanStart, Goto
    <3>2. session'.sid = f /\ \A g \in Flows : pc[g] \notin Live
      BY <3>1, StartedFields, NoFlowAssumption
    <3>3. QED
      BY <3>1, <3>2 DEF TypeOK
  <2>3. CASE BeginResume(f) /\ CanStart(session)
    <3>1. session.sid = NoFlow /\ UNCHANGED pc
      BY <2>3 DEF BeginResume, CanStart
    <3>2. QED
      BY <3>1, NoFlowAssumption
  <2>4. CASE Launch(f)
    <3>1. /\ pc' = [pc EXCEPT ![f] = IF session.sid = f THEN "setup" ELSE "done"]
          /\ UNCHANGED session
      BY <2>4 DEF Launch, Goto
    <3>2. QED
      BY <3>1 DEF TypeOK, Live
  <2>5. CASE FindRunId(f)
    <3>1. session'.sid = session.sid /\ UNCHANGED pc
      BY <2>5 DEF FindRunId, Labelled
    <3>2. QED
      BY <3>1
  <2>6. QED
    BY <1>3, <2>1, <2>2, <2>3, <2>4, <2>5
    DEF Foreground, StartRun, ResumeRun, BeginSession, BeginResume, LaunchFails,
        PollGivesUp
<1>4. ASSUME NEW r \in Runs, Addressed(r) PROVE TaskHoldsSlot'
  <2>1. UNCHANGED pc
    BY <1>4
    DEF Addressed, AbortPaused, AbortWaiting, AbortRunning, SubmitReply,
        SubmitContinuation, SubmitQueued
  <2>2. \/ session'.sid = session.sid
        \/ session.status = "paused" /\ ~session.waiting
    BY <1>4
    DEF Addressed, AbortPaused, AbortWaiting, AbortRunning, SubmitReply,
        SubmitContinuation, SubmitQueued, AbortClears, Continues, AbortedWaiter,
        AbortedRunning, Resumed, Queued, TypeOK, SessionType
  <2>3. session.status = "paused" /\ ~session.waiting
          => \A f \in Flows : pc[f] \notin Live
    BY DEF RoundIsOver, Live
  <2>4. QED
    BY <2>1, <2>2, <2>3
<1>5. QED
  BY <1>1, <1>2, <1>3, <1>4 DEF Next

\* Only one orchestrator is alive.
THEOREM OneOrchestrator ==
    ASSUME Calls = {}
    PROVE  Spec => []SingleOrchestrator
<1>1. Init => TaskHoldsSlot
  BY DEF Init, TaskHoldsSlot, Live
<1>2. SlotInv /\ SlotInv' /\ TaskHoldsSlot /\ [Next]_vars => TaskHoldsSlot'
  BY HoldsStep
<1>3. TaskHoldsSlot => SingleOrchestrator
  BY DEF TaskHoldsSlot, SingleOrchestrator
<1>4. QED
  BY <1>1, <1>2, <1>3, SlotInvariant, PTL DEF Spec

\* No step leaves a waiting task without the session that answers it.
LEMMA StrandedStep ==
    ASSUME Calls = {}, SlotInv, SlotInv', NoStrandedWaiter, [Next]_vars
    PROVE  NoStrandedWaiter'
<1> USE DEF SlotInv, NoStrandedWaiter
<1>1. CASE UNCHANGED vars
  BY <1>1 DEF vars, turnVars
<1>2. ASSUME NEW f \in Flows, Work(f) PROVE NoStrandedWaiter'
  <2>1. OnlyTask(f) /\ (GoesOn(f) \/ Pauses(f) \/ Ends(f))
    BY <1>2, WorkStep
  <2>2. CASE GoesOn(f)
    BY <2>1, <2>2 DEF OnlyTask, GoesOn
  <2>3. CASE Pauses(f)
    <3>1. session.sid = f /\ ~session.waiting
      BY <2>3 DEF Pauses, CanWait
    <3>2. session'.sid = f /\ session'.waiting
      BY <2>3 DEF Pauses, Waiting, TypeOK, SessionType
    <3>3. QED
      BY <2>1, <3>1, <3>2 DEF OnlyTask
  <2>4. CASE Ends(f)
    <3>1. pc[f] # "wait" /\ pc'[f] # "wait"
      BY <2>4 DEF Ends
    <3>2. session.sid # f => UNCHANGED session
      BY <2>4 DEF Ends
    <3>3. QED
      BY <2>1, <3>1, <3>2 DEF OnlyTask
  <2>5. QED
    BY <2>1, <2>2, <2>3, <2>4
<1>3. ASSUME NEW f \in Flows, Foreground(f) PROVE NoStrandedWaiter'
  <2>1. UNCHANGED reply
    BY <1>3
    DEF Foreground, StartRun, ResumeRun, BeginSession, BeginResume, Launch,
        LaunchFails, FindRunId, PollGivesUp, turnVars
  <2>2. \A g \in Flows : pc'[g] = "wait" => pc[g] = "wait"
    BY <1>3
    DEF Foreground, StartRun, ResumeRun, BeginSession, BeginResume, Launch,
        LaunchFails, FindRunId, PollGivesUp, Goto, TypeOK
  <2>3. \/ session.sid = NoFlow
        \/ session'.sid = session.sid /\ session'.waiting = session.waiting
    <3>1. CASE FindRunId(f)
      BY <3>1 DEF FindRunId, Labelled
    <3>2. CASE ~FindRunId(f)
      BY <1>3, <3>2
      DEF Foreground, StartRun, ResumeRun, BeginSession, BeginResume, Launch,
          LaunchFails, PollGivesUp, CanStart
    <3>3. QED
      BY <3>1, <3>2
  <2>4. QED
    BY <2>1, <2>2, <2>3, NoFlowAssumption
<1>4. ASSUME NEW r \in Runs, Addressed(r) PROVE NoStrandedWaiter'
  <2>1. CASE session.waiting
    <3>1. AbortWaiting(r) \/ (\E text \in Replies \ {"none"} : SubmitReply(r, text))
      BY <1>4, <2>1
      DEF Addressed, AbortPaused, AbortRunning, SubmitContinuation, SubmitQueued,
          AbortClears, AbortAnswers, Continues, Queues
    <3>2. session.sid \in Flows /\ reply'[session.sid] # "none"
          /\ UNCHANGED pc
          /\ \A f \in Flows \ {session.sid} : reply'[f] = reply[f]
      BY <3>1 DEF AbortWaiting, SubmitReply, Addresses, TypeOK, SessionType
    <3>3. QED
      BY <3>2
  <2>2. CASE ~session.waiting
    <3>1. \A f \in Flows : ~(pc[f] = "wait" /\ reply[f] = "none")
      BY <2>2
    <3>2. UNCHANGED <<pc, reply>>
      BY <1>4, <2>2
      DEF Addressed, AbortPaused, AbortWaiting, AbortRunning, SubmitReply,
          SubmitContinuation, SubmitQueued, AbortAnswers, Resumes, turnVars
    <3>3. QED
      BY <3>1, <3>2
  <2>3. QED
    BY <2>1, <2>2 DEF TypeOK, SessionType
<1>5. QED
  BY <1>1, <1>2, <1>3, <1>4 DEF Next

\* A task that waits for its user can be answered.
THEOREM WaitersCanBeAnswered ==
    ASSUME Calls = {}
    PROVE  Spec => []NoStrandedWaiter
<1>1. Init => NoStrandedWaiter
  BY DEF Init, NoStrandedWaiter
<1>2. SlotInv /\ SlotInv' /\ NoStrandedWaiter /\ [Next]_vars => NoStrandedWaiter'
  BY StrandedStep
<1>3. QED
  BY <1>1, <1>2, SlotInvariant, PTL DEF Spec
=============================================================================
