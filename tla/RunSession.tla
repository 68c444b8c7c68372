----------------------------- MODULE RunSession -----------------------------
(***************************************************************************)
(* The session slot of the runner: class RunSessionManager                 *)
(* (packages/shared/src/controller/runSessionManager.ts).                  *)
(*                                                                         *)
(* The class keeps one field, activeSession.  Every method runs to its end *)
(* without awaiting, so a method is a function from the slot before the    *)
(* call to the slot after it, with a guard for the conditions under which  *)
(* it throws.  RunLifecycle calls these functions from its actions.        *)
(*                                                                         *)
(* Messages shown to the user, the project slug and the round number are   *)
(* left out: no method decides anything by them.  The review mode and the  *)
(* abort controllers belong to the flow that owns the session and are kept *)
(* by RunLifecycle; "bound" says whether executionAbortController is set,  *)
(* "waiting" whether resolveIntervention (set and cleared together with    *)
(* pendingInterventionRequest) is.                                         *)
(***************************************************************************)
CONSTANTS
    Flows,      \* the calls of startRunInternal; each creates one sessionId
    Messages,   \* texts a user may type while a run is active
    NoFlow,     \* "no session": the slot is free
    NoRun       \* runId is undefined

ASSUME NoFlowAssumption == NoFlow \notin Flows
ASSUME NoRunAssumption  == NoRun \notin Flows

\* A run created by a flow is named after it; a resumed run keeps its name.
Runs == Flows

Statuses == {"idle", "running", "paused", "aborting"}

SessionType ==
    [sid     : Flows \cup {NoFlow},
     status  : Statuses,
     run     : Runs \cup {NoRun},
     queue   : SUBSET Messages,
     waiting : BOOLEAN,
     bound   : BOOLEAN]

\* snapshot() of an empty slot: { status: "idle" }.
Idle == [sid |-> NoFlow, status |-> "idle", run |-> NoRun,
         queue |-> {}, waiting |-> FALSE, bound |-> FALSE]

-----------------------------------------------------------------------------
(* Starting and labelling a session. *)

CanStart_WhileAborting(s) == s.status \in {"idle", "aborting"}

\* assertCanStart throws for any active session, whatever its status.
CanStart(s) == s.sid = NoFlow

Started(f) == [Idle EXCEPT !.sid = f, !.status = "running"]

\* setRunId: only the owner, only while running or paused, only once.
Labelled(s, f, r) ==
    IF /\ s.sid = f
       /\ s.status \in {"running", "paused"}
       /\ s.run = NoRun
    THEN [s EXCEPT !.run = r]
    ELSE s

-----------------------------------------------------------------------------
(* The owner's background task. *)

CanWait_AnySession(s, f) == ~s.waiting

\* waitForIntervention throws when the session changed or a waiter exists.
CanWait(s, f) == s.sid = f /\ ~s.waiting

\* It replaces the session object: whatever the status was, it becomes
\* "paused", and the run id is the one of the request.
Waiting(s, f, r) ==
    [s EXCEPT !.sid = f, !.status = "paused", !.run = r, !.waiting = TRUE, !.bound = FALSE]

\* bindExecutionAbortController throws when the session changed.
CanBind(s, f) == s.sid = f
Bound(s, b)   == [s EXCEPT !.bound = b]

\* drainQueuedMessages returns nothing for a session that is not its own.
Drainable(s, f) == IF s.sid = f THEN s.queue ELSE {}
Drained(s, f)   == IF s.sid = f THEN [s EXCEPT !.queue = {}] ELSE s

\* markRoundComplete leaves an aborting session alone.
RoundComplete(s, f) ==
    IF s.sid = f /\ s.status # "aborting"
    THEN [s EXCEPT !.status = "paused", !.bound = FALSE, !.waiting = FALSE]
    ELSE s

Finished_AnySession(s, f) == Idle

Finished_Never(s, f) == s

\* finish(sessionId) clears only the session it names.
Finished(s, f) == IF s.sid = f THEN Idle ELSE s

\* finish and finishAddressedRun report "aborted" for an aborting session and
\* "completed" for any other.
FinishStatus(s) == IF s.status = "aborting" THEN "aborted" ELSE "completed"

-----------------------------------------------------------------------------
(* Calls addressed to a run by a client. *)

\* assertAddressedRun lets any run id through while the session has none.
Addresses(s, r) == s.sid # NoFlow /\ s.run \in {NoRun, r}

AbortClears_AnyPause(s) == s.status = "paused"

\* abort, first branch: a round-complete session is cleared on the spot.
AbortClears(s) == s.status = "paused" /\ ~s.waiting

\* abort, second branch: the waiter is answered with "/abort".
AbortAnswers(s) == s.waiting
AbortedWaiter(s) ==
    [s EXCEPT !.status = "aborting", !.waiting = FALSE, !.bound = FALSE]

\* abort, third branch: the abort controllers fire (RunLifecycle).
AbortedRunning(s) == [s EXCEPT !.status = "aborting"]

Resumed_KeepsResolver(s) == [s EXCEPT !.status = "running", !.bound = FALSE]

\* submitIntervention: the three outcomes and their guards.
Resumes(s)   == s.waiting /\ s.status # "aborting"
Resumed(s)   == [s EXCEPT !.status = "running", !.waiting = FALSE, !.bound = FALSE]
Continues(s) == s.status = "paused" /\ ~s.waiting /\ s.run # NoRun
Queues(s)    == s.status = "running" /\ ~s.waiting
Queued(s, m) == [s EXCEPT !.queue = @ \cup {m}]
=============================================================================
