---------------------------- MODULE RunLifecycle ----------------------------
(***************************************************************************)
(* The life of a review run on the runner: the RPC handlers of             *)
(* packages/runner/src/routes/runsHandlers.ts, the background task they    *)
(* start (ReviewOrchestrator.run, packages/shared/src/core/                *)
(* orchestrator.ts) and the session slot of module RunSession they share.  *)
(*                                                                         *)
(* The runner is one JavaScript thread.  An action is the code between two *)
(* awaits; between two actions any other handler may run.  pushState and   *)
(* the in-memory stateStore calls do not wait, so they cut nothing.        *)
(*                                                                         *)
(* A flow is one call of startRunInternal: its foreground ("call") looks   *)
(* for the id of the run it started, its background ("pc") drives it.      *)
(*                                                                         *)
(* Abstracted: the texts, ledger and artifacts of a run (what a turn       *)
(* answers is a choice), the round number (nothing is decided by it), the  *)
(* number of reviewers (one "review" stage stands for the whole pass, with *)
(* or without reviewers left when one fails).                              *)
(***************************************************************************)
EXTENDS RunSession, FiniteSets

CONSTANTS
    Calls,          \* complete_run RPCs that may be in flight
    Modes,          \* review modes in use, a subset of AllModes
    SetupFaults,    \* whether refreshProjects may fail while a resume starts
    StorageFaults   \* whether saving a run's files may fail

AllModes == {"realtime", "deepFeedback"}

ASSUME ModesAssumption  == Modes \subseteq AllModes /\ "realtime" \in Modes
ASSUME FaultsAssumption == SetupFaults \in BOOLEAN /\ StorageFaults \in BOOLEAN

VARIABLES
    session,    \* RunSessionManager.activeSession
    mode,       \* f -> review mode of the request
    target,     \* f -> existingRunId, NoRun for a new run
    call,       \* f -> where the foreground of startRunInternal is
    before,     \* f -> the run ids listed before the session started
    pc,         \* f -> where the orchestrator is
    turn,       \* f -> the last provider turn it entered
    seeded,     \* f -> a redirect answer stands in for the next brief
    preempted,  \* f -> its turn's controller was aborted by a user message
    signal,     \* flows whose session abort signal has fired
    reply,      \* f -> what resolved its waitForIntervention promise
    why,        \* f -> the error that is ending the orchestrator
    owns,       \* f -> the run the orchestrator writes
    record,     \* r -> status in the run's input.json
    complete,   \* c -> where a complete_run call is
    emitted,    \* history: run_finished events, with the session they end
    acked       \* history: flows whose abort_run was answered with ok

flowVars == <<mode, target, call, before>>
turnVars == <<turn, seeded, preempted, signal, reply, why, owns>>
histVars == <<emitted, acked>>
vars == <<session, flowVars, pc, turnVars, record, complete, histVars>>

\* Where a foreground is.  "rejected": start threw, no session was taken;
\* "failed": the caller got an error although a session was taken.
CallStates == {"unused", "listing", "loading", "refreshing", "polling",
               "returned", "rejected", "failed"}

\* The calls that have not taken a session.
NotBegun == {"unused", "listing", "loading", "rejected"}

\* Where an orchestrator is between two awaits.
\*   setup     before createRun / updateRun        opened   run written
\*   top       the head of the round loop          prep     turn entered
\*   exec      the provider runs, controller bound gap      turn returned
\*   handling  a user message preempted the turn   asking   about to ask
\*   wait      waitForIntervention is pending      closing  last saves
\*   parked    last saves of a blocked run         failing  in the catch
\*   completed, failed   status saved, event pending        done  task over
Live == {"setup", "opened", "top", "prep", "exec", "gap", "handling",
         "asking", "wait", "closing", "parked", "completed", "failing",
         "failed"}
Places == Live \cup {"none", "done"}

Turns == {"notion", "brief", "draft", "review", "decide", "final", "block",
          "redirect", "intervene"}

Replies  == {"none", "text", "blank", "/abort", "/done"}
Causes   == {"none", "aborted", "error", "intervention", "sessionLost"}
RunStatuses == {"absent", "running", "awaiting-user-input", "completed",
                "aborted", "failed"}

FinishEvents == [sid : Flows, run : Runs, status : {"completed", "aborted"}]

TypeOK ==
    /\ session   \in SessionType
    /\ mode      \in [Flows -> AllModes]
    /\ target    \in [Flows -> Runs \cup {NoRun}]
    /\ call      \in [Flows -> CallStates]
    /\ before    \in [Flows -> SUBSET Runs]
    /\ pc        \in [Flows -> Places]
    /\ turn      \in [Flows -> Turns \cup {"none"}]
    /\ seeded    \in [Flows -> BOOLEAN]
    /\ preempted \in [Flows -> BOOLEAN]
    /\ signal    \in SUBSET Flows
    /\ reply     \in [Flows -> Replies]
    /\ why       \in [Flows -> Causes]
    /\ owns      \in [Flows -> Runs \cup {NoRun}]
    /\ record    \in [Runs -> RunStatuses]
    /\ complete  \in [Calls -> [at  : {"unused", "loading", "saving", "over"},
                                run : Runs \cup {NoRun}]]
    /\ emitted   \in SUBSET FinishEvents
    /\ acked     \in SUBSET Flows

Init ==
    /\ session   = Idle
    /\ mode      = [f \in Flows |-> "realtime"]
    /\ target    = [f \in Flows |-> NoRun]
    /\ call      = [f \in Flows |-> "unused"]
    /\ before    = [f \in Flows |-> {}]
    /\ pc        = [f \in Flows |-> "none"]
    /\ turn      = [f \in Flows |-> "none"]
    /\ seeded    = [f \in Flows |-> FALSE]
    /\ preempted = [f \in Flows |-> FALSE]
    /\ signal    = {}
    /\ reply     = [f \in Flows |-> "none"]
    /\ why       = [f \in Flows |-> "none"]
    /\ owns      = [f \in Flows |-> NoRun]
    /\ record    = [r \in Runs |-> "absent"]
    /\ complete  = [c \in Calls |-> [at |-> "unused", run |-> NoRun]]
    /\ emitted   = {}
    /\ acked     = {}

-----------------------------------------------------------------------------
(* Helpers. *)

Stored == {r \in Runs : record[r] # "absent"}

\* emitRunFinished for the session being cleared; silent while it has no id.
Emit(status) ==
    emitted' = IF session.sid \in Flows /\ session.run # NoRun
               THEN emitted \cup {[sid |-> session.sid, run |-> session.run,
                                   status |-> status]}
               ELSE emitted

Goto(f, place) == pc' = [pc EXCEPT ![f] = place]

\* An error leaves the loop: the catch block of run() starts saving.
Fail(f, cause) ==
    /\ Goto(f, "failing")
    /\ why' = [why EXCEPT ![f] = cause]

\* bindExecutionAbortController throws once the session changed.  The synthesis
\* of blocking feedback survives any error but an abort.
LoseSession(f) ==
    IF turn[f] = "block" THEN Goto(f, "gap") /\ UNCHANGED why
                         ELSE Fail(f, "sessionLost")

Enter_Unchecked(f, kind) ==
    /\ Goto(f, "prep")
    /\ turn' = [turn EXCEPT ![f] = kind]
    /\ UNCHANGED why

\* executeTurn throws at its entry when the session signal has fired.
Enter(f, kind) ==
    IF f \in signal
    THEN Fail(f, "aborted") /\ UNCHANGED turn
    ELSE /\ Goto(f, "prep")
         /\ turn' = [turn EXCEPT ![f] = kind]
         /\ UNCHANGED why

\* The task is over and its local variables are gone.
Gone(f) ==
    /\ Goto(f, "done")
    /\ turn'      = [turn EXCEPT ![f] = "none"]
    /\ seeded'    = [seeded EXCEPT ![f] = FALSE]
    /\ preempted' = [preempted EXCEPT ![f] = FALSE]
    /\ signal'    = signal \ {f}
    /\ reply'     = [reply EXCEPT ![f] = "none"]
    /\ why'       = [why EXCEPT ![f] = "none"]
    /\ owns'      = [owns EXCEPT ![f] = NoRun]

\* RunSessionManager.finish and the event it fires.
Finish(f) ==
    /\ session' = Finished(session, f)
    /\ IF session.sid = f THEN Emit(FinishStatus(session)) ELSE UNCHANGED emitted

-----------------------------------------------------------------------------
(* The foreground: start_run, resume_run and the search for the run id. *)

\* startRun: the slot must be idle, then the existing runs are listed.
StartRun(f, m) ==
    /\ call[f] = "unused"
    /\ session.status = "idle"
    /\ call'   = [call EXCEPT ![f] = "listing"]
    /\ mode'   = [mode EXCEPT ![f] = m]
    /\ before' = [before EXCEPT ![f] = Stored]
    /\ UNCHANGED <<session, target, pc, turnVars, record, complete, histVars>>

\* startRunInternal after the listing: the session is taken, or start throws.
BeginSession(f) ==
    /\ call[f] = "listing"
    /\ IF CanStart(session)
       THEN /\ session' = Started(f)
            /\ call'    = [call EXCEPT ![f] = "polling"]
            /\ Goto(f, "setup")
       ELSE /\ call' = [call EXCEPT ![f] = "rejected"]
            /\ UNCHANGED <<session, pc>>
    /\ UNCHANGED <<mode, target, before, turnVars, record, complete, histVars>>

\* resumeRun: finds the run and loads its continuation context.
ResumeRun(f, r) ==
    /\ call[f] = "unused"
    /\ r \in Stored
    /\ call'   = [call EXCEPT ![f] = "loading"]
    /\ mode'   = [mode EXCEPT ![f] = mode[r]]
    /\ target' = [target EXCEPT ![f] = r]
    /\ UNCHANGED <<session, before, pc, turnVars, record, complete, histVars>>

\* A resumed session carries its run id from the start, and the projects are
\* refreshed before the background task is launched.
BeginResume(f) ==
    /\ call[f] = "loading"
    /\ IF CanStart(session)
       THEN /\ session' = Labelled(Started(f), f, target[f])
            /\ call'    = [call EXCEPT ![f] = "refreshing"]
       ELSE /\ call' = [call EXCEPT ![f] = "rejected"]
            /\ UNCHANGED session
    /\ UNCHANGED <<mode, target, before, pc, turnVars, record, complete, histVars>>

\* abortSignal(sessionId), evaluated as the task starts, throws when the
\* session changed during the refresh.
Launch(f) ==
    /\ call[f] = "refreshing"
    /\ call' = [call EXCEPT ![f] = "returned"]
    /\ Goto(f, IF session.sid = f THEN "setup" ELSE "done")
    /\ UNCHANGED <<session, mode, target, before, turnVars, record, complete,
                   histVars>>

\* refreshProjects threw: resumeRun reports an error and nothing was launched.
LaunchFails(f) ==
    /\ SetupFaults
    /\ call[f] = "refreshing"
    /\ call' = [call EXCEPT ![f] = "failed"]
    /\ UNCHANGED <<session, mode, target, before, pc, turnVars, record,
                   complete, histVars>>

\* The poll takes any run that was not listed before as the one it started.
FindRunId(f) ==
    /\ call[f] = "polling"
    /\ \E r \in Stored \ before[f] : session' = Labelled(session, f, r)
    /\ call'   = [call EXCEPT ![f] = "returned"]
    /\ before' = [before EXCEPT ![f] = {}]
    /\ UNCHANGED <<mode, target, pc, turnVars, record, complete, histVars>>

\* Five seconds passed, or a listing failed: the caller gets an error while the
\* background task goes on.
PollGivesUp(f) ==
    /\ call[f] = "polling"
    /\ call'   = [call EXCEPT ![f] = "failed"]
    /\ before' = [before EXCEPT ![f] = {}]
    /\ UNCHANGED <<session, mode, target, pc, turnVars, record, complete,
                   histVars>>

-----------------------------------------------------------------------------
(* The background: ReviewOrchestrator.run. *)

\* Providers, documents and context are read, then the run is written.
OpenRun(f) ==
    LET r == IF target[f] = NoRun THEN f ELSE target[f] IN
    /\ pc[f] = "setup"
    /\ Goto(f, "opened")
    /\ owns'   = [owns EXCEPT ![f] = r]
    /\ record' = [record EXCEPT ![r] = "running"]
    /\ UNCHANGED <<session, flowVars, turn, seeded, preempted, signal, reply,
                   why, complete, histVars>>

\* An error outside the try block ends the task with the record as it is: no
\* healthy provider before the run is written, or a failed save after it.
SetupThrows(f) ==
    /\ pc[f] = "setup" \/ (pc[f] = "opened" /\ StorageFaults)
    /\ Gone(f)
    /\ Finish(f)
    /\ UNCHANGED <<flowVars, record, complete, acked>>

\* The run-started events are out; the Notion pre-pass runs when there is a
\* Notion request.
BeginWork(f) ==
    /\ pc[f] = "opened"
    /\ \/ Enter(f, "notion")
       \/ /\ f \notin signal
          /\ Goto(f, "top")
          /\ UNCHANGED <<turn, why>>
    /\ UNCHANGED <<session, flowVars, seeded, preempted, signal, reply, owns,
                   record, complete, histVars>>

\* The head of both loops: throwIfAborted, then the coordinator's brief unless
\* a redirect answer stands in for it.
LoopTop(f) ==
    /\ pc[f] = "top"
    /\ IF f \notin signal /\ seeded[f]
       THEN /\ Goto(f, "gap")
            /\ turn' = [turn EXCEPT ![f] = "brief"]
            /\ UNCHANGED why
       ELSE Enter(f, "brief")
    /\ seeded' = [seeded EXCEPT ![f] = FALSE]
    /\ UNCHANGED <<session, flowVars, preempted, signal, reply, owns, record,
                   complete, histVars>>

\* executeTurn binds its controller and calls the provider.  When the session
\* changed, bind throws, and throws again in the finally block.
BindTurn(f) ==
    /\ pc[f] = "prep"
    /\ IF CanBind(session, f)
       THEN /\ session' = Bound(session, TRUE)
            /\ Goto(f, "exec")
            /\ UNCHANGED why
       ELSE LoseSession(f) /\ UNCHANGED session
    /\ UNCHANGED <<flowVars, turn, seeded, preempted, signal, reply, owns,
                   record, complete, histVars>>

\* The provider answered.  Its answer may have been on its way when the
\* controller was aborted, so this is possible in every exec state.
TurnAnswers(f) ==
    /\ pc[f] = "exec"
    /\ IF CanBind(session, f)
       THEN /\ session' = Bound(session, FALSE)
            /\ Goto(f, "gap")
            /\ UNCHANGED why
       ELSE LoseSession(f) /\ UNCHANGED session
    /\ preempted' = [preempted EXCEPT ![f] = FALSE]
    /\ UNCHANGED <<flowVars, turn, seeded, signal, reply, owns, record,
                   complete, histVars>>

\* Turns whose failure the loop survives: a realtime drafter, the synthesis of
\* blocking feedback, a reviewer when others are left.
Survivable(f) ==
    turn[f] = "review" \/ (mode[f] = "realtime" /\ turn[f] \in {"draft", "block"})

\* Turns inside the try block of the realtime round loop, where a preemption is
\* caught; the pre-pass and the intervention coordinator run outside of it.
Caught(f) == turn[f] \notin {"notion", "intervene"}

\* The provider failed or was killed.  executeTurn looks first at the reason of
\* its own controller, then for an abort error (the killed process; a provider
\* that failed by itself just before the abort still counts as failed), and
\* otherwise reports a failed turn.
TurnBreaks(f) ==
    /\ pc[f] = "exec"
    /\ IF CanBind(session, f)
       THEN /\ session' = Bound(session, FALSE)
            /\ \/ /\ preempted[f] /\ Caught(f)
                  /\ Goto(f, "handling") /\ UNCHANGED why
               \/ /\ preempted[f] /\ ~Caught(f)
                  /\ Fail(f, "intervention")
               \/ /\ ~preempted[f] /\ f \in signal
                  /\ Fail(f, "aborted")
               \/ /\ ~preempted[f] /\ Survivable(f)
                  /\ Goto(f, "gap") /\ UNCHANGED why
               \/ /\ ~preempted[f] /\ (~Survivable(f) \/ turn[f] = "review")
                  /\ Fail(f, "error")
       ELSE LoseSession(f) /\ UNCHANGED session
    /\ preempted' = [preempted EXCEPT ![f] = FALSE]
    /\ UNCHANGED <<flowVars, turn, seeded, signal, reply, owns, record,
                   complete, histVars>>

\* What comes after a turn when no user message is waiting.
Follows(m, k) ==
    IF m = "realtime"
    THEN CASE k = "brief"  -> {"draft", "review"}
           [] k = "draft"  -> {"review"}
           [] k = "review" -> {"block", "final"}
           [] OTHER        -> {}
    ELSE CASE k = "brief"  -> {"draft"}
           [] k = "draft"  -> {"review"}
           [] k = "review" -> {"decide"}
           [] k = "decide" -> {"final"}
           [] OTHER        -> {}

\* Before the drafter the realtime loop does not look at the queue; after it
\* (or after a brief that left no ledger) and after each reviewer it does.
QueueWaits(f) == mode[f] = "realtime" /\ Drainable(session, f) # {}

NextTurn(f) ==
    /\ pc[f] = "gap"
    /\ \E k \in Follows(mode[f], turn[f]) :
          /\ QueueWaits(f) => k = "draft"
          /\ Enter(f, k)
    /\ UNCHANGED <<session, flowVars, seeded, preempted, signal, reply, owns,
                   record, complete, histVars>>

\* Queued messages are drained and handed to a redirect turn.
Redirect(f) ==
    /\ pc[f] = "gap"
    /\ turn[f] \in {"brief", "draft", "review"}
    /\ QueueWaits(f)
    /\ session' = Drained(session, f)
    /\ Enter(f, "redirect")
    /\ UNCHANGED <<flowVars, seeded, preempted, signal, reply, owns, record,
                   complete, histVars>>

\* Back to the head of the loop: after the pre-pass, a redirect turn, or an
\* intervention the coordinator accepted or turned into a redirect.
BackToTop(f) ==
    /\ pc[f] = "gap"
    /\ turn[f] \in {"notion", "redirect", "intervene"}
    /\ Goto(f, "top")
    /\ \E s \in BOOLEAN :
          /\ turn[f] = "notion"   => ~s
          /\ turn[f] = "redirect" => s
          /\ seeded' = [seeded EXCEPT ![f] = s]
    /\ UNCHANGED <<session, flowVars, turn, preempted, signal, reply, why, owns,
                   record, complete, histVars>>

\* An intervention coordinator that redirects without a ledger ends the run.
NoReplacement(f) ==
    /\ pc[f] = "gap"
    /\ turn[f] = "intervene"
    /\ Fail(f, "error")
    /\ UNCHANGED <<session, flowVars, turn, seeded, preempted, signal, reply,
                   owns, record, complete, histVars>>

\* The final draft of a realtime run is in.
Conclude(f) ==
    /\ pc[f] = "gap"
    /\ mode[f] = "realtime" /\ turn[f] = "final"
    /\ Goto(f, "closing")
    /\ UNCHANGED <<session, flowVars, turnVars, record, complete, histVars>>

\* The catch block of the round loop: drain, tell the user, save, then close
\* the section by force or ask the intervention coordinator.
HandleIntervention(f) ==
    /\ pc[f] = "handling"
    /\ session' = Drained(session, f)
    /\ \/ /\ Goto(f, "top")
          /\ seeded' = [seeded EXCEPT ![f] = FALSE]
          /\ UNCHANGED <<turn, why>>
       \/ /\ Enter(f, "intervene")
          /\ UNCHANGED seeded
    /\ UNCHANGED <<flowVars, preempted, signal, reply, owns, record, complete,
                   histVars>>

\* A deep cycle ended, reviewers block, or the coordinator needs to know more:
\* the awaiting-user-input event, preceded for a block by the run's status.
AskUser(f) ==
    /\ pc[f] = "gap"
    /\ \/ turn[f] \in {"block", "intervene"}
       \/ mode[f] = "deepFeedback" /\ turn[f] = "final"
    /\ Goto(f, "asking")
    /\ record' = IF turn[f] = "block"
                 THEN [record EXCEPT ![owns[f]] = "awaiting-user-input"]
                 ELSE record
    /\ UNCHANGED <<session, flowVars, turnVars, complete, histVars>>

Pause(f) ==
    /\ pc[f] = "asking"
    /\ IF CanWait(session, f)
       THEN /\ session' = Waiting(session, f, owns[f])
            /\ Goto(f, "wait")
            /\ UNCHANGED why
       ELSE Fail(f, "sessionLost") /\ UNCHANGED session
    /\ UNCHANGED <<flowVars, turn, seeded, preempted, signal, reply, owns,
                   record, complete, histVars>>

\* The promise resolved.  "/abort" throws; "/done" leaves the loop, and a run
\* blocked by its reviewers then keeps its awaiting status; anything else starts
\* the next deep cycle, leaves the loop of a blocked realtime run, or asks the
\* intervention coordinator again.
TakeReply(f) ==
    /\ pc[f] = "wait"
    /\ \/ /\ reply[f] = "/abort"
          /\ Fail(f, "aborted")
          /\ UNCHANGED <<turn, record>>
       \/ /\ reply[f] = "/done"
          /\ Goto(f, IF turn[f] = "block" THEN "parked" ELSE "closing")
          /\ UNCHANGED <<turn, why, record>>
       \/ /\ reply[f] \in {"text", "blank"} /\ turn[f] = "block"
          /\ Goto(f, "closing")
          /\ record' = [record EXCEPT ![owns[f]] = "running"]
          /\ UNCHANGED <<turn, why>>
       \/ /\ reply[f] \in {"text", "blank"} /\ turn[f] = "final"
          /\ Goto(f, "top")
          /\ UNCHANGED <<turn, why, record>>
       \/ /\ reply[f] \in {"text", "blank"} /\ turn[f] = "intervene"
          /\ Enter(f, "intervene")
          /\ UNCHANGED record
    /\ reply' = [reply EXCEPT ![f] = "none"]
    /\ UNCHANGED <<session, flowVars, seeded, preempted, signal, owns,
                   complete, histVars>>

\* The last saves; a parked run returns without being completed.
Close(f) ==
    /\ pc[f] \in {"closing", "parked"}
    /\ Goto(f, "completed")
    /\ record' = IF pc[f] = "parked" THEN record
                 ELSE [record EXCEPT ![owns[f]] = "completed"]
    /\ UNCHANGED <<session, flowVars, turnVars, complete, histVars>>

Return_WithoutTeardown(f) ==
    /\ pc[f] = "completed"
    /\ Gone(f)
    /\ session' = RoundComplete(session, f)
    /\ UNCHANGED <<flowVars, record, complete, histVars>>

\* run() returned: markRoundComplete, then the finally block, which finishes
\* the session when the slot shows an abort.
Return(f) ==
    LET s == RoundComplete(session, f) IN
    /\ pc[f] = "completed"
    /\ Gone(f)
    /\ IF s.status = "aborting"
       THEN /\ session' = Finished(s, f)
            /\ IF s.sid = f THEN Emit("aborted") ELSE UNCHANGED emitted
       ELSE session' = s /\ UNCHANGED emitted
    /\ UNCHANGED <<flowVars, record, complete, acked>>

\* The catch block of run(): turns and chat are saved, then the status.
RecordFailure(f) ==
    /\ pc[f] = "failing"
    /\ Goto(f, "failed")
    /\ record' = [record EXCEPT ![owns[f]] =
                    IF why[f] = "aborted" THEN "aborted" ELSE "failed"]
    /\ UNCHANGED <<session, flowVars, turnVars, complete, histVars>>

\* The error reaches startRunInternal, whose finally block tears the session
\* down.  A save that throws in the catch block skips the status.
Throw(f) ==
    /\ \/ pc[f] = "failed"
       \/ pc[f] = "failing" /\ StorageFaults
    /\ Gone(f)
    /\ Finish(f)
    /\ UNCHANGED <<flowVars, record, complete, acked>>

\* Any save between two turns may fail; the error goes to the catch block.
SaveFails(f) ==
    /\ StorageFaults
    /\ pc[f] \in {"top", "gap", "handling", "asking", "closing", "parked",
                 "completed"}
    /\ Fail(f, "error")
    /\ UNCHANGED <<session, flowVars, turn, seeded, preempted, signal, reply,
                   owns, record, complete, histVars>>

Work(f) ==
    \/ OpenRun(f) \/ SetupThrows(f) \/ BeginWork(f) \/ LoopTop(f)
    \/ BindTurn(f) \/ TurnAnswers(f) \/ TurnBreaks(f)
    \/ NextTurn(f) \/ Redirect(f) \/ BackToTop(f) \/ NoReplacement(f)
    \/ Conclude(f) \/ HandleIntervention(f) \/ AskUser(f) \/ Pause(f)
    \/ TakeReply(f) \/ Close(f) \/ Return(f) \/ RecordFailure(f) \/ Throw(f)
    \/ SaveFails(f)

-----------------------------------------------------------------------------
(* Calls addressed to a run. *)

\* abort_run on a round-complete session: it is over at once.
AbortPaused(r) ==
    /\ Addresses(session, r)
    /\ AbortClears(session)
    /\ session' = Idle
    /\ acked' = acked \cup {session.sid}
    /\ Emit("aborted")
    /\ UNCHANGED <<flowVars, pc, turnVars, record, complete>>

\* abort_run while the run waits for its user.
AbortWaiting(r) ==
    /\ Addresses(session, r)
    /\ AbortAnswers(session)
    /\ session' = AbortedWaiter(session)
    /\ reply' = [reply EXCEPT ![session.sid] = "/abort"]
    /\ acked' = acked \cup {session.sid}
    /\ UNCHANGED <<flowVars, pc, turn, seeded, preempted, signal, why, owns,
                   record, complete, emitted>>

\* abort_run while the run works: both controllers fire.
AbortRunning(r) ==
    /\ Addresses(session, r)
    /\ ~AbortClears(session) /\ ~AbortAnswers(session)
    /\ session' = AbortedRunning(session)
    /\ signal' = signal \cup {session.sid}
    /\ acked'  = acked \cup {session.sid}
    /\ UNCHANGED <<flowVars, pc, turn, seeded, preempted, reply, why, owns,
                   record, complete, emitted>>

\* submit_intervention answers a waiting run.
SubmitReply(r, text) ==
    /\ Addresses(session, r)
    /\ Resumes(session)
    /\ session' = Resumed(session)
    /\ reply' = [reply EXCEPT ![session.sid] = text]
    /\ UNCHANGED <<flowVars, pc, turn, seeded, preempted, signal, why, owns,
                   record, complete, histVars>>

\* submit_intervention on a round-complete session: the session is finished
\* and a new realtime run is started that continues from it.
SubmitContinuation(r, f) ==
    /\ Addresses(session, r)
    /\ Continues(session)
    /\ call[f] = "unused"
    /\ session' = Idle
    /\ Emit(FinishStatus(session))
    /\ call'   = [call EXCEPT ![f] = "listing"]
    /\ mode'   = [mode EXCEPT ![f] = "realtime"]
    /\ before' = [before EXCEPT ![f] = Stored]
    /\ UNCHANGED <<target, pc, turnVars, record, complete, acked>>

\* submit_intervention to a working run: the message is queued, and a realtime
\* turn that is executing is preempted.
SubmitQueued(r, m) ==
    /\ Addresses(session, r)
    /\ Queues(session)
    /\ session' = Queued(session, m)
    /\ preempted' = [preempted EXCEPT ![session.sid] =
                        @ \/ (mode[session.sid] = "realtime" /\ session.bound)]
    /\ UNCHANGED <<flowVars, pc, turn, seeded, signal, reply, why, owns, record,
                   complete, histVars>>

\* complete_run: the slot is checked, the record is loaded and checked, the
\* essay answer is saved, and only then the session is finished.
CompleteRun(c, r) ==
    /\ complete[c].at = "unused"
    /\ session.run = r /\ session.status = "paused"
    /\ complete' = [complete EXCEPT ![c] = [at |-> "loading", run |-> r]]
    /\ UNCHANGED <<session, flowVars, pc, turnVars, record, histVars>>

CheckCompleted(c) ==
    /\ complete[c].at = "loading"
    /\ complete' = [complete EXCEPT ![c].at =
                      IF record[complete[c].run] = "completed"
                      THEN "saving" ELSE "over"]
    /\ UNCHANGED <<session, flowVars, pc, turnVars, record, histVars>>

FinishCompleted(c) ==
    /\ complete[c].at = "saving"
    /\ complete' = [complete EXCEPT ![c].at = "over"]
    /\ IF Addresses(session, complete[c].run)
       THEN session' = Idle /\ Emit(FinishStatus(session))
       ELSE UNCHANGED <<session, emitted>>
    /\ UNCHANGED <<flowVars, pc, turnVars, record, acked>>

-----------------------------------------------------------------------------
Foreground(f) ==
    \/ \E m \in Modes : StartRun(f, m)
    \/ \E r \in Runs  : ResumeRun(f, r)
    \/ BeginSession(f) \/ BeginResume(f) \/ Launch(f) \/ LaunchFails(f)
    \/ FindRunId(f) \/ PollGivesUp(f)

Addressed(r) ==
    \/ AbortPaused(r) \/ AbortWaiting(r) \/ AbortRunning(r)
    \/ \E text \in Replies \ {"none"} : SubmitReply(r, text)
    \/ \E f \in Flows : SubmitContinuation(r, f)
    \/ \E m \in Messages : SubmitQueued(r, m)

Completion(c) ==
    \/ \E r \in Runs : CompleteRun(c, r)
    \/ CheckCompleted(c)
    \/ FinishCompleted(c)

Next ==
    \/ \E f \in Flows : Foreground(f) \/ Work(f)
    \/ \E r \in Runs  : Addressed(r)
    \/ \E c \in Calls : Completion(c)

Spec == Init /\ [][Next]_vars

\* The orchestrator's own steps are taken (nothing in the process starves), and
\* a provider that was sent SIGTERM, then SIGKILL 250 ms later, ends.  Nothing
\* is assumed of users, of the poll, or of a provider nobody stopped.
TurnEnds(f) == f \in signal /\ (TurnAnswers(f) \/ TurnBreaks(f))
Errands(f)  == Work(f) /\ pc[f] # "exec"

Fairness ==
    \A f \in Flows : /\ WF_vars(Errands(f))
                     /\ WF_vars(TurnEnds(f))
                     /\ WF_vars(Launch(f))

FairSpec == Spec /\ Fairness

-----------------------------------------------------------------------------
(* Safety. *)

\* A session that is running, stopping or waiting for its user is driven by a
\* task of its own that is still alive or about to be launched: the slot is
\* never held by a run nobody works on.  (startRunInternal's finally block,
\* markRoundComplete and the teardown after an error.)
SessionIsDriven ==
    session.status \in {"running", "aborting"} \/ session.waiting
        => \/ pc[session.sid] \in Live
           \/ call[session.sid] = "refreshing"

\* A resolver in the slot belongs to the task of that session, which sits in
\* waitForIntervention with no answer yet: an answer or an abort that the slot
\* accepts for a waiting run is never given to nobody, nor given twice.
WaiterIsThere ==
    session.waiting => /\ pc[session.sid] = "wait"
                       /\ reply[session.sid] = "none"

\* Conversely, a task that waits for an answer can still be given one.
NoStrandedWaiter ==
    \A f \in Flows : pc[f] = "wait" /\ reply[f] = "none"
                        => session.sid = f /\ session.waiting

\* "Only one run can be active at a time": no two orchestrators are alive.
SingleOrchestrator ==
    \A f, g \in Flows : pc[f] \in Live /\ pc[g] \in Live => f = g

\* A session is reported finished at most once, and then it is gone.
OneFinishPerSession ==
    /\ \A e \in emitted : e.sid # session.sid
    /\ \A d, e \in emitted : d.sid = e.sid => d = e

-----------------------------------------------------------------------------
(* Action properties. *)

\* Once abort_run was answered with ok, no further provider turn is entered
\* for that session, whichever branch of abort took it and whatever a user
\* answers afterwards.
NoTurnAfterAbort ==
    [][\A f \in acked : pc'[f] = "prep" => pc[f] = "prep"]_vars

\* A task whose session is no longer the one in the slot cannot change the
\* slot, although it goes on calling the session manager until it ends
\* ("stale finish calls do not clear a newer session").
ForeignSlotUntouched ==
    [][\A f \in Flows : pc[f] \in Live /\ pc'[f] # pc[f] /\ session.sid # f
                           => session' = session]_vars

-----------------------------------------------------------------------------
(* Refinement and liveness. *)

Taken == {f \in Flows : call[f] \notin NotBegun}

Slot == INSTANCE RunSlot WITH Sessions <- Flows, None <- NoFlow,
                              holder <- session.sid, used <- Taken

\* The slot keeps what RunSlot promises.
SlotSpec == Slot!Spec

\* A stopping session does not hold the slot for ever.
AbortingEnds ==
    \A f \in Flows : (session.sid = f /\ session.status = "aborting")
                        ~> ~(session.sid = f /\ session.status = "aborting")

-----------------------------------------------------------------------------
(* What the repository says and the code does not do. *)

\* "Only one run can be active at a time": the providers of two runs are never
\* at work together.
OneRunWorks ==
    \A f, g \in Flows : pc[f] = "exec" /\ pc[g] = "exec" => f = g
=============================================================================
