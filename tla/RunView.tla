------------------------------- MODULE RunView -------------------------------
(***************************************************************************)
(* The runs page of one browser (RunsPage.tsx, and the part of App.tsx     *)
(* that feeds it) over the frames of RunEvents: what it shows of the live  *)
(* run and of the selected one, and which of its buttons can be pressed.   *)
(*                                                                         *)
(* A frame is handled with all its effects before the next one.  The wire  *)
(* neither loses nor reorders frames: that is BrowserFeed's subject.       *)
(***************************************************************************)
EXTENDS RunEvents, FiniteSetsExt, SequencesExt

CONSTANT MaxMoves   \* bound: tasks started, selections and deletions together

ASSUME ViewAssumption == MaxMoves \in Nat

VARIABLES
  page,      \* the last snapshot: status and run of the session, the records
  sel,       \* selectedRunId; NoRun is the form for a new run
  vis,       \* liveRunVisualState
  feed,      \* state of RunFeed
  starting,  \* what a start still does: none, aborting, waiting
  selects    \* how often the user selected or deleted

view == <<page, sel, vis, feed, starting, selects>>
vars == <<runner, view>>

-----------------------------------------------------------------------------
(***************************************************************************)
(* What is shown of a run.                                                 *)
(***************************************************************************)
SessionVisual(status) ==
  CASE status = "aborting" -> "aborting"
    [] status = "paused" -> "waiting"
    [] status = "running" -> "active-waiting"
    [] OTHER -> "none"

\* reduceLiveRunVisualState.
Reduced(previous, type) ==
  CASE type = "turn-started" -> "cli-running"
    [] type \in {"turn-completed", "user-input-received", "run-started"} -> "active-waiting"
    [] type = "awaiting-user-input" -> "waiting"
    [] type \in {"turn-failed", "run-failed"} -> "failed"
    [] type = "run-aborted" -> "aborted"
    [] type = "run-completed" -> "round-complete"
    [] OTHER -> previous

\* The effect of a snapshot that changes the live run or its status.
\* Mutant of Settled: an idle session leaves what was shown.
Settled_Keeps(p, previous) ==
  IF p.run = NoRun \/ p.status \in {"idle", "running"} THEN previous
  ELSE SessionVisual(p.status)
Settled(p, previous) ==
  IF p.run = NoRun \/ p.status = "idle" THEN "none"
  ELSE IF p.status = "running" /\ previous \in {"cli-running", "failed", "finished", "aborting"}
  THEN previous
  ELSE SessionVisual(p.status)

IsStale(r) == page.run # r /\ (page.status = "idle" \/ page.run # NoRun)

RecordVisual(r) ==
  LET status == page.cache[r].status
  IN  CASE status \in {"aborted", "failed"} -> status
        [] status = "awaiting-user-input" -> "waiting"
        [] page.cache[r].fixed -> "finished"
        [] status = "completed" -> "round-complete"
        [] OTHER -> IF IsStale(r) THEN "failed" ELSE "active-waiting"

Listed(r) == r # NoRun /\ page.cache[r].status # "absent"

RunVisual(r) == IF r = page.run /\ vis # "none" THEN vis ELSE RecordVisual(r)

\* The buttons.
IsLive == sel # NoRun /\ sel = page.run
CanIntervene == IsLive /\ page.status \in {"running", "paused"}
ShowAbort == sel # NoRun /\ page.status = "running"
ShowComplete == sel # NoRun /\ page.status = "paused"
                /\ Listed(sel) /\ RunVisual(sel) = "round-complete"
                /\ ~page.cache[sel].fixed
CanResume == Listed(sel) /\ page.cache[sel].fixed /\ page.status = "idle"

(***************************************************************************)
(* The messages of the selected run.                                       *)
(***************************************************************************)
\* applyRunEvent.
Applied(msgs, r, e) ==
  CASE e.type = "chat-message-started" ->
         IF \E i \in DOMAIN msgs : msgs[i].id = e.msg THEN msgs
         ELSE Append(msgs, [run |-> r, id |-> e.msg, text |-> << >>, done |-> FALSE])
    [] e.type = "chat-message-delta" ->
         [i \in DOMAIN msgs |-> IF msgs[i].id = e.msg
                                THEN [msgs[i] EXCEPT !.text = Append(@, e.part)]
                                ELSE msgs[i]]
    [] e.type = "chat-message-completed" ->
         [i \in DOMAIN msgs |-> IF msgs[i].id = e.msg
                                THEN [msgs[i] EXCEPT !.done = TRUE] ELSE msgs[i]]
    [] OTHER -> msgs

\* applyRunEventToActiveParticipants.
Typing(before, type) ==
  CASE type = "turn-started" -> "thinking"
    [] type = "chat-message-started" -> IF before = "none" THEN "none" ELSE "writing"
    [] type = "turn-completed" -> "none"
    [] OTHER -> before

NoFeed == [msgs |-> << >>, typing |-> "none", ledgers |-> {}, prompt |-> FALSE,
           clear |-> TRUE, got |-> FALSE, timer |-> "none"]

\* The effect of another selection, or of its run being listed or not: all but
\* the messages is dropped at once, they wait for what replaces them.
Rekeyed(f, r) ==
  IF r = NoRun THEN NoFeed
  ELSE [NoFeed EXCEPT !.msgs = f.msgs, !.timer = "armed"]

\* Mutant of Cleared: the messages that were there stay.
Cleared_Never(f, e) == f.msgs
Cleared(f, e) ==
  IF e.type = "chat-message-started" /\ f.clear THEN << >> ELSE f.msgs

\* What RunFeed does with an event of its run.
FeedTakes(f, r, e) ==
  LET g == [f EXCEPT !.got = TRUE,
                     !.prompt = IF e.type = "user-input-received" THEN FALSE ELSE @]
  IN  IF IsLedger(e) THEN [g EXCEPT !.ledgers = @ \cup {<<r, e.msg>>}]
      ELSE [g EXCEPT !.msgs = Applied(Cleared(f, e), r, e),
                     !.clear = @ /\ e.type # "chat-message-started",
                     !.typing = Typing(@, e.type)]

(***************************************************************************)
(* Frames.                                                                 *)
(***************************************************************************)
ViewInit ==
  /\ page = [status |-> "idle", run |-> NoRun, cache |-> cache]
  /\ sel \in Stored \cup {NoRun} /\ vis = "none"
  /\ feed = Rekeyed(NoFeed, sel)
  /\ starting = "none" /\ selects = 0

Key(s, c) == <<s, s # NoRun /\ c[s].status # "absent">>

\* A snapshot: App keeps the selection or takes the live run for one.
TakesState(f) ==
  LET p == [status |-> f.status, run |-> f.run, cache |-> f.cache]
      s == IF sel = NoRun /\ f.run # NoRun /\ f.run # page.run THEN f.run ELSE sel
  IN  /\ page' = p
      /\ sel' = s
      /\ vis' = IF f.run # page.run \/ f.status # page.status THEN Settled(p, vis) ELSE vis
      /\ feed' = IF Key(s, f.cache) # Key(sel, page.cache) THEN Rekeyed(feed, s) ELSE feed

IsSubscribed(r) == page.run = r /\ page.status # "idle"

TakesEvent(f) ==
  LET r == f.run
      e == f.event
  IN  /\ IF IsSubscribed(r)
         THEN vis' = Reduced(vis, e.type)
         ELSE UNCHANGED vis
      /\ feed' = IF sel = r THEN FeedTakes(feed, r, e) ELSE feed
      /\ UNCHANGED <<page, sel>>

TakesPrompt(f) ==
  /\ IF IsSubscribed(f.run) THEN vis' = "waiting" ELSE UNCHANGED vis
  /\ feed' = IF sel = f.run THEN [feed EXCEPT !.prompt = TRUE] ELSE feed
  /\ UNCHANGED <<page, sel>>

TakesFrame ==
  /\ wire # << >>
  /\ wire' = Tail(wire)
  /\ LET f == Head(wire)
     IN  CASE f.kind = "state_snapshot" -> TakesState(f)
           [] f.kind = "run_event" -> TakesEvent(f)
           [] OTHER -> TakesPrompt(f)
  /\ UNCHANGED <<session, task, disk, cache, tasks, sent, starting, selects>>

(***************************************************************************)
(* The history of a run: asked for when nothing came in a second.          *)
(***************************************************************************)
HistoryTimer ==
  /\ feed.timer = "armed"
  /\ feed' = [feed EXCEPT !.timer =
                IF feed.got \/ ~Listed(sel) THEN "none" ELSE "asked"]
  /\ UNCHANGED <<runner, page, sel, vis, starting, selects>>

\* The answer, in the order the messages were made, takes the place of all
\* messages; one without any leaves them.
InOrder(ids) == SetToSortSeq(ids, LAMBDA a, b : a < b)
Loaded(r) == LET ids == {m.id : m \in disk[r].msgs}
                 Saved(i) == CHOOSE m \in disk[r].msgs : m.id = i
             IN  [i \in 1..Cardinality(ids) |->
                    [run |-> r, id |-> InOrder(ids)[i],
                     text |-> Saved(InOrder(ids)[i]).text, done |-> TRUE]]
StoredLedgers(r) == {<<r, n>> : n \in disk[r].ledgers}
HistoryAnswer ==
  /\ feed.timer = "asked"
  /\ feed' = [feed EXCEPT
       !.timer = "none",
       !.msgs = IF disk[sel].msgs = {} THEN @ ELSE Loaded(sel),
       !.clear = @ /\ disk[sel].msgs = {},
       !.ledgers = IF disk[sel].msgs = {} \/ disk[sel].ledgers = {} THEN @
                   ELSE StoredLedgers(sel)]
  /\ UNCHANGED <<runner, page, sel, vis, starting, selects>>

(***************************************************************************)
(* The user.                                                               *)
(***************************************************************************)
MayMove == tasks + selects < MaxMoves
MaySelect == MayMove /\ selects' = selects + 1

Selects(s) ==
  /\ sel' = s
  /\ feed' = IF Key(s, page.cache) # Key(sel, page.cache) THEN Rekeyed(feed, s) ELSE feed

Select ==
  /\ MaySelect
  /\ \E s \in {r \in Runs : Listed(r)} \cup {NoRun} : s # sel /\ Selects(s)
  /\ UNCHANGED <<runner, page, vis, starting>>

Presses(button) ==
  /\ button
  /\ UNCHANGED <<page, sel, vis, feed, starting, selects>>

PressAbort    == Presses(ShowAbort /\ Listed(page.run)) /\ AbortRun(page.run)
PressResume   == Presses(CanResume) /\ MayMove /\ ResumeRun(sel)
PressComplete == Presses(ShowComplete /\ Listed(page.run)) /\ CompleteRun(page.run)
SendMessage   == Presses(CanIntervene) /\ Intervenes(sel)

\* The run of a round that is over is continued by another, whose id the answer
\* has.
SendAfterRound ==
  /\ CanIntervene /\ starting = "none" /\ MayMove
  /\ Continues(sel)
  /\ starting' = "asked"
  /\ UNCHANGED <<page, sel, vis, feed, selects>>

PressDelete ==
  \E r \in Runs :
    /\ Listed(r) /\ DeleteRun(r)
    /\ Selects(IF sel = r THEN NoRun ELSE sel)
    /\ MaySelect
    /\ UNCHANGED <<page, vis, starting>>

\* A new run: the active one is aborted first, and its end awaited.
Replaceable == page.run # NoRun /\ page.status # "idle"
PressStart ==
  /\ sel = NoRun /\ starting = "none"
  /\ IF Replaceable
     THEN /\ starting' = "waiting"
          /\ IF page.status = "aborting" THEN UNCHANGED runner ELSE AbortRun(page.run)
     ELSE starting' = "starting" /\ UNCHANGED runner
  /\ UNCHANGED <<page, sel, vis, feed, selects>>

\* waitForIdleSession: an idle snapshot, or fifteen seconds.
StopsWaiting ==
  /\ starting = "waiting"
  /\ starting' = IF page.status = "idle" THEN "starting" ELSE "none"
  /\ UNCHANGED <<runner, page, sel, vis, feed, selects>>

Starts ==
  /\ starting = "starting"
  /\ \/ MayMove /\ StartRun /\ starting' = "asked"
     \/ session.status # "idle" /\ starting' = "none" /\ UNCHANGED runner
  /\ UNCHANGED <<page, sel, vis, feed, selects>>

\* The answer of the start selects the run; an error selects nothing.
StartAnswered ==
  /\ starting = "asked" /\ task.call \in {"returned", "failed"}
  /\ starting' = "none"
  /\ IF task.call = "returned" THEN Selects(task.active) ELSE UNCHANGED <<sel, feed>>
  /\ UNCHANGED <<runner, page, vis, selects>>

UserStep ==
  \/ Select \/ PressAbort \/ PressResume \/ PressComplete \/ SendMessage
  \/ SendAfterRound \/ PressDelete \/ PressStart

Next ==
  \/ TaskStep /\ UNCHANGED view
  \/ TakesFrame \/ HistoryTimer \/ HistoryAnswer
  \/ UserStep \/ StopsWaiting \/ Starts \/ StartAnswered

Init == RunnerInit /\ ViewInit
Spec == Init /\ [][Next]_vars

-----------------------------------------------------------------------------
(***************************************************************************)
(* Properties.                                                             *)
(***************************************************************************)
\* The messages on the page are those of one run, whatever was selected while
\* frames and a history were on their way.
OneRunShown ==
  \A i, j \in DOMAIN feed.msgs : feed.msgs[i].run = feed.msgs[j].run

\* Whatever the orchestrator says of a run is sent once, or still held: the
\* search for the run's id, the flush and the end of the task neither lose an
\* event nor send it twice.
EventsConserved ==
  LET Held(e) == Cardinality({i \in DOMAIN task.buffer : task.buffer[i] = e})
                   + Cardinality({i \in DOMAIN task.flush : task.flush[i] = e})
                   + Cardinality({i \in DOMAIN task.sink : task.sink[i] = e})
  IN  \A e \in DOMAIN sent : sent[e] + Held(e) = 1

\* A page that has taken every frame agrees with a session at rest: it knows
\* its status, run and records, shows a paused one as waiting for its user, who
\* can answer it, and shows the runs of an idle one by their records.
QuietViewIsTrue ==
  /\ wire = << >>
  /\ task.pc \in {"wait", "done"} /\ task.call \in {"returned", "failed"}
  /\ task.sink = << >>
  => /\ page.status = session.status /\ page.run = session.run
     /\ session.status = "idle" => page.cache = Statuses /\ vis = "none"
     /\ session.waiting => /\ vis = "waiting"
                           /\ sel = session.run => CanIntervene
=============================================================================
