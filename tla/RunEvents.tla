------------------------------ MODULE RunEvents ------------------------------
(***************************************************************************)
(* The events of a run on their way from the orchestrator to the socket:   *)
(* startRunInternal (runsHandlers.ts) holds the events of a run whose id   *)
(* it does not know yet, looks for the id among the project's runs, and    *)
(* then forwards; snapshots of the session leave by the same wire.  What   *)
(* is kept on the disk (RunRepository) is what a page reads later.         *)
(*                                                                         *)
(* One task works at a time (module RunLifecycle is about the slot).  A    *)
(* turn is one participant's; its text is a sequence of parts.             *)
(***************************************************************************)
EXTENDS Naturals, Sequences, FiniteSets

CONSTANTS
  Runs,        \* run ids
  NoRun,       \* no id
  MaxTasks,    \* bound: tasks that are started
  MaxTurns,    \* bound: turns of a task
  MaxParts,    \* bound: parts of a message
  MaxWire,     \* bound: frames under way to the page
  SlowFlush    \* may a round end while the events held at its start are sent?

ASSUME EventsAssumption ==
  /\ NoRun \notin Runs
  /\ {MaxTasks, MaxTurns, MaxParts, MaxWire} \subseteq Nat
  /\ SlowFlush \in BOOLEAN

VARIABLES
  session,   \* RunSessionManager: status, run id, is its task waiting?
  task,      \* the task of the session that was started last
  disk,      \* per run: status in input.json, messages, ledgers
  cache,     \* per run: the status in the state store's projects
  wire,      \* frames on their way to the page
  tasks,     \* how many tasks were started
  sent       \* history: events of the task, and how often each was sent

runner == <<session, task, disk, cache, wire, tasks, sent>>

-----------------------------------------------------------------------------
Free == [status |-> "idle", run |-> NoRun, waiting |-> FALSE]

\* Where a task is (pc): setup, opened, top, turn, writing, said, ledgered,
\* asking, pausing, wait, closing, over, failing, thrown, done.  Where the call
\* that started it is (call): polling, adopted, flushing, returned, failed.
\* active is the id events are forwarded under; sink holds a ledger's event
\* while its file is written; memory has the completed messages.
NoTask == [pc |-> "done", run |-> NoRun, active |-> NoRun, before |-> {},
           call |-> "returned", buffer |-> << >>, flush |-> << >>, sink |-> << >>,
           msg |-> 0, left |-> MaxTurns, text |-> << >>, memory |-> {}, why |-> "none"]

Stored == {r \in Runs : disk[r].status # "absent"}
\* What refreshProjects reads: the record's status, and whether a completed
\* answer names the run.
Statuses == [r \in Runs |-> [status |-> disk[r].status, fixed |-> disk[r].fixed]]
NoFiles == [status |-> "absent", fixed |-> FALSE, msgs |-> {}, ledgers |-> {}]

Event(type) == [type |-> type, msg |-> task.msg, part |-> Len(task.text)]

StateFrame(s, c) == [kind |-> "state_snapshot", status |-> s.status,
                     run |-> s.run, cache |-> c]
EventFrame(r, e) == [kind |-> "run_event", run |-> r, event |-> e]
PromptFrame(r) == [kind |-> "intervention_request", run |-> r]

Room(n) == Len(wire) + n <= MaxWire
Sends(frames) == Room(Len(frames)) /\ wire' = wire \o frames

Times(e) == IF e \in DOMAIN sent THEN sent[e] ELSE 0
Counts(made, out) ==
  sent' = [e \in DOMAIN sent \cup made |-> Times(e) + IF e \in out THEN 1 ELSE 0]

IsLedger(e) == e.type = "discussion-ledger-updated"

RunnerInit ==
  /\ session = Free
  /\ task = NoTask
  /\ \E old \in Runs :
       disk = [r \in Runs |->
         IF r = old
         THEN [status |-> "completed", fixed |-> TRUE, ledgers |-> {0},
               msgs |-> {[id |-> 0, text |-> <<1>>]}]
         ELSE NoFiles]
  /\ cache = Statuses
  /\ wire = << >>
  /\ tasks = 0
  /\ sent = << >>

(***************************************************************************)
(* The sink startRunInternal gives to the orchestrator: an event is held   *)
(* while the run's id is not known; a ledger is saved before its event     *)
(* goes on.  t is what becomes of the task.                                *)
(***************************************************************************)
Emits(e, t) ==
  IF task.active = NoRun
  THEN task' = [t EXCEPT !.buffer = Append(@, e)] /\ Counts({e}, {}) /\ UNCHANGED wire
  ELSE IF IsLedger(e)
  THEN task' = [t EXCEPT !.sink = <<e>>] /\ Counts({e}, {}) /\ UNCHANGED wire
  ELSE task' = t /\ Counts({e}, {e}) /\ Sends(<<EventFrame(task.active, e)>>)

WithLedger(e) == [disk EXCEPT ![task.active].ledgers = @ \cup {e.msg}]

LedgerSaved ==
  /\ task.sink # << >>
  /\ LET e == task.sink[1]
     IN  /\ disk' = WithLedger(e)
         /\ Sends(<<EventFrame(task.active, e)>>)
         /\ Counts({}, {e})
  /\ task' = [task EXCEPT !.sink = << >>]
  /\ UNCHANGED <<session, cache, tasks>>

(***************************************************************************)
(* startRunInternal: the session is taken, the task launched.              *)
(***************************************************************************)
Launch(t, s, c) ==
  /\ task.pc = "done" /\ task.call \in {"returned", "failed"}
  /\ tasks < MaxTasks
  /\ tasks' = tasks + 1
  /\ session' = s
  /\ cache' = c
  /\ Sends(<<StateFrame(s, c)>>)
  /\ task' = [t EXCEPT !.pc = "setup", !.msg = tasks * MaxTurns]
  /\ sent' = << >>
  /\ UNCHANGED disk

Launches ==
  \E r \in Runs \ Stored :
    Launch([NoTask EXCEPT !.run = r, !.before = Stored, !.call = "polling"],
           [Free EXCEPT !.status = "running"], cache)

StartRun == session.status = "idle" /\ Launches

\* A message to a run whose round is over starts a run that continues it.
Continues(r) ==
  /\ session.status = "paused" /\ ~session.waiting /\ session.run = r
  /\ Launches

ResumeRun(r) ==
  /\ session.status = "idle"
  /\ r \in Stored
  /\ Launch([NoTask EXCEPT !.run = r, !.active = r],
            [Free EXCEPT !.status = "running", !.run = r], Statuses)

\* The call looks for an id it has not seen before; the session takes it if it
\* is still there and has none.
PollFinds ==
  /\ task.call = "polling"
  /\ \E r \in Stored \ task.before :
       /\ task' = [task EXCEPT !.active = r, !.call = "adopted"]
       /\ session' = IF session.status \in {"running", "paused"} /\ session.run = NoRun
                     THEN [session EXCEPT !.run = r] ELSE session
  /\ UNCHANGED <<disk, cache, wire, tasks, sent>>

\* After five seconds the caller gets an error; the task goes on, its events
\* are held for ever.
PollGivesUp ==
  /\ task.call = "polling"
  /\ Stored = task.before
  /\ task' = [task EXCEPT !.call = "failed"]
  /\ UNCHANGED <<session, disk, cache, wire, tasks, sent>>

\* refreshProjects, a snapshot, and the held events are taken as a whole.
\* Mutant of Taken: they are left where they are.
Taken_Kept == [task EXCEPT !.call = "flushing", !.flush = task.buffer]
Taken == [task EXCEPT !.call = "flushing", !.flush = task.buffer, !.buffer = << >>]

PollRefreshes ==
  /\ task.call = "adopted"
  /\ cache' = Statuses
  /\ Sends(<<StateFrame(session, cache')>>)
  /\ task' = Taken
  /\ UNCHANGED <<session, disk, tasks, sent>>

FlushNext ==
  /\ task.call = "flushing" /\ task.flush # << >>
  /\ LET e == Head(task.flush)
     IN  /\ disk' = IF IsLedger(e) THEN WithLedger(e) ELSE disk
         /\ Sends(<<EventFrame(task.active, e)>>)
         /\ Counts({}, {e})
  /\ task' = [task EXCEPT !.flush = Tail(@)]
  /\ UNCHANGED <<session, cache, tasks>>

PollReturns ==
  /\ task.call = "flushing" /\ task.flush = << >>
  /\ task' = [task EXCEPT !.call = "returned"]
  /\ UNCHANGED <<session, disk, cache, wire, tasks, sent>>

(***************************************************************************)
(* The task: ReviewOrchestrator.run as far as it makes events.             *)
(***************************************************************************)
Aborted == session.status = "aborting"
Works(pcs) == task.pc \in pcs /\ task.sink = << >>
Goes(pc) == [task EXCEPT !.pc = pc]
Flushed == SlowFlush \/ task.call \notin {"adopted", "flushing"}
Present == disk[task.run].status # "absent"
Says(type, t) == Emits(Event(type), t) /\ UNCHANGED <<session, cache, tasks>>

Open ==
  /\ Works({"setup"})
  /\ disk' = [disk EXCEPT ![task.run].status = "running"]
  /\ task' = [Goes("opened") EXCEPT !.memory = disk[task.run].msgs]
  /\ UNCHANGED <<session, cache, wire, tasks, sent>>

\* What run() throws before it has a run.
SetupFails ==
  /\ Works({"setup"})
  /\ task' = [task EXCEPT !.pc = "thrown", !.why = "failed"]
  /\ UNCHANGED <<session, disk, cache, wire, tasks, sent>>

RunStarted ==
  /\ Works({"opened"}) /\ Present
  /\ Says("run-started", Goes("top")) /\ UNCHANGED disk

TurnStarted ==
  /\ Works({"top"}) /\ ~Aborted /\ task.left > 0
  /\ Says("turn-started", [Goes("turn") EXCEPT !.left = @ - 1]) /\ UNCHANGED disk

MessageStarted ==
  /\ Works({"turn"}) /\ ~Aborted
  /\ Emits([Event("chat-message-started") EXCEPT !.msg = @ + 1],
           [Goes("writing") EXCEPT !.msg = @ + 1, !.text = << >>])
  /\ UNCHANGED <<session, disk, cache, tasks>>

MessageDelta ==
  /\ Works({"writing"}) /\ ~Aborted /\ Len(task.text) < MaxParts
  /\ LET n == Len(task.text) + 1
     IN  Emits([Event("chat-message-delta") EXCEPT !.part = n],
               [task EXCEPT !.text = Append(@, n)])
  /\ UNCHANGED <<session, disk, cache, tasks>>

MessageCompleted ==
  /\ Flushed
  /\ Works({"writing"}) /\ ~Aborted /\ Present
  /\ Says("chat-message-completed",
          [Goes("said") EXCEPT !.memory = @ \cup {[id |-> task.msg, text |-> task.text]}])
  /\ UNCHANGED disk

\* The answer of a coordinator has a ledger.
LedgerUpdated ==
  /\ Works({"said"})
  /\ Says("discussion-ledger-updated", Goes("ledgered")) /\ UNCHANGED disk

TurnCompleted ==
  /\ Works({"said", "ledgered"})
  /\ Says("turn-completed", Goes("asking")) /\ UNCHANGED disk

TurnFailed ==
  /\ Works({"turn", "writing"}) /\ ~Aborted
  /\ Says("turn-failed", [Goes("failing") EXCEPT !.why = "failed"]) /\ UNCHANGED disk

Asks ==
  /\ Flushed
  /\ Works({"asking"}) /\ ~Aborted /\ Present
  /\ disk' = [disk EXCEPT ![task.run].status = "awaiting-user-input"]
  /\ Says("awaiting-user-input", Goes("pausing"))

\* waitForIntervention pauses the session whatever its status is.
Pauses ==
  /\ Works({"pausing"})
  /\ session' = [status |-> "paused", run |-> task.run, waiting |-> TRUE]
  /\ Sends(<<PromptFrame(task.run), StateFrame(session', cache)>>)
  /\ task' = Goes("wait")
  /\ UNCHANGED <<disk, cache, tasks, sent>>

Answered ==
  /\ Works({"wait"}) /\ ~session.waiting /\ ~Aborted /\ Present
  /\ disk' = [disk EXCEPT ![task.run].status = "running"]
  /\ Says("user-input-received", Goes(IF task.left > 0 THEN "top" ELSE "closing"))

\* throwIfAborted, "/abort", or the provider's process was killed.
Aborts ==
  /\ Works({"opened", "top", "turn", "writing", "asking", "closing", "wait"})
  /\ Aborted
  /\ task' = [Goes("failing") EXCEPT !.why = "aborted"]
  /\ UNCHANGED <<session, disk, cache, wire, tasks, sent>>

Ended(status) ==
  [disk EXCEPT ![task.run].status = status,
               ![task.run].msgs = IF task.memory = {} THEN @ ELSE task.memory]
Completes ==
  /\ Flushed
  /\ Works({"asking", "closing"}) /\ ~Aborted /\ Present
  /\ disk' = Ended("completed")
  /\ Says("run-completed", Goes("over"))

\* The catch of run(): the completed messages, the status, the event.
Fails ==
  /\ Works({"failing"}) /\ Present
  /\ disk' = Ended(task.why)
  /\ Says(IF task.why = "aborted" THEN "run-aborted" ELSE "run-failed", Goes("thrown"))

\* The run was deleted meanwhile: its record cannot be parsed, its log not
\* written.
Vanished ==
  /\ Works({"opened", "writing", "asking", "wait", "closing", "failing"})
  /\ ~Present /\ ~session.waiting
  /\ task' = [Goes("thrown") EXCEPT !.why = IF @ = "none" THEN "failed" ELSE @]
  /\ UNCHANGED <<session, disk, cache, wire, tasks, sent>>

(***************************************************************************)
(* The end of startRunInternal's task.                                     *)
(***************************************************************************)
\* markRoundComplete, and the finally block: an aborting session is cleared,
\* another left paused.
RoundComplete ==
  /\ Works({"over"})
  /\ session' = IF Aborted THEN Free
                ELSE [session EXCEPT !.status = "paused", !.waiting = FALSE]
  /\ cache' = Statuses
  /\ Sends(<<StateFrame(session', cache')>>)
  /\ task' = Goes("done")
  /\ UNCHANGED <<disk, tasks, sent>>

\* The finally block of a task that threw, and the catch behind it: a failure
\* that no held event tells of is added; if the id is known they are sent.
Untold == /\ task.why = "failed"
          /\ \A i \in DOMAIN task.buffer : task.buffer[i].type # "run-failed"
Failure == IF Untold THEN <<[Event("run-failed") EXCEPT !.part = MaxParts + 1]>> ELSE << >>

TearsDown ==
  LET held == task.buffer \o Failure
      all  == {held[i] : i \in DOMAIN held}
  IN  /\ Works({"thrown"})
      /\ session' = Free
      /\ cache' = Statuses
      /\ IF task.active = NoRun
         THEN /\ Sends(<<StateFrame(Free, cache')>>)
              /\ Counts(all, {})
              /\ task' = [Goes("done") EXCEPT !.buffer = held]
         ELSE /\ Sends(<<StateFrame(Free, cache')>>
                         \o [i \in DOMAIN held |-> EventFrame(task.active, held[i])])
              /\ Counts(all, all)
              /\ task' = [Goes("done") EXCEPT !.buffer = << >>]
      /\ UNCHANGED <<disk, tasks>>

(***************************************************************************)
(* What users do to the session.                                           *)
(***************************************************************************)
AbortRun(r) ==
  /\ session.status # "idle" /\ session.run \in {NoRun, r}
  /\ session' = IF session.status = "paused" /\ ~session.waiting THEN Free
                ELSE [session EXCEPT !.status = "aborting", !.waiting = FALSE]
  /\ Sends(<<StateFrame(session', cache)>>)
  /\ UNCHANGED <<task, disk, cache, tasks, sent>>

\* The waiting task is answered.
Intervenes(r) ==
  /\ session.waiting /\ session.run = r
  /\ session' = [session EXCEPT !.status = "running", !.waiting = FALSE]
  /\ Sends(<<StateFrame(session', cache)>>)
  /\ UNCHANGED <<task, disk, cache, tasks, sent>>

\* complete_run makes the run's draft the answer of its question and clears the
\* slot.
CompleteRun(r) ==
  /\ session.status = "paused" /\ session.run = r
  /\ disk[r].status = "completed"
  /\ disk' = [disk EXCEPT ![r].fixed = TRUE]
  /\ session' = Free
  /\ cache' = [Statuses EXCEPT ![r].fixed = TRUE]
  /\ Sends(<<StateFrame(Free, cache')>>)
  /\ UNCHANGED <<task, tasks, sent>>

DeleteRun(r) ==
  /\ r \in Stored
  /\ disk' = [disk EXCEPT ![r] = NoFiles]
  /\ cache' = [q \in Runs |-> IF q = r THEN [status |-> "absent", fixed |-> FALSE]
                                          ELSE Statuses[q]]
  /\ Sends(<<StateFrame(session, cache')>>)
  /\ UNCHANGED <<session, task, tasks, sent>>

TaskStep ==
  \/ LedgerSaved \/ PollFinds \/ PollGivesUp \/ PollRefreshes \/ FlushNext \/ PollReturns
  \/ Open \/ SetupFails \/ RunStarted \/ TurnStarted \/ MessageStarted \/ MessageDelta
  \/ MessageCompleted \/ LedgerUpdated \/ TurnCompleted \/ TurnFailed \/ Asks \/ Pauses
  \/ Answered \/ Aborts \/ Completes \/ Fails \/ Vanished \/ RoundComplete \/ TearsDown
=============================================================================
