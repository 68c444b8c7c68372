---------------------------- MODULE RunViewProofs ----------------------------
(***************************************************************************)
(* Proofs about RunView and the events of RunEvents below it, for any      *)
(* runs, tasks, turns and parts; whether or not the flush of the held      *)
(* events is slow, but for QuietViews.                                     *)
(*                                                                         *)
(* An event is conserved because it is new when it is made: the events of  *)
(* a message number that were made before are of the kinds the task has    *)
(* left behind (MadeInv).  From then on it is in one place, held at the    *)
(* start, in the flush, with its ledger or sent (PlacedInv).               *)
(*                                                                         *)
(* The messages on the page are of one run because another selection keeps *)
(* them only to clear them (OneFeed): the first message of the selected    *)
(* run or a history of it takes the place of all.                          *)
(*                                                                         *)
(* The page of a session at rest is true because at all times the last     *)
(* snapshot, under way or taken, tells of the session as it is (SnapInv),  *)
(* of the run's id once it is found and the refresh is done (AdoptInv).    *)
(* While the task waits for its user, the event that says so is among      *)
(* those still held (HeldInv), or it was sent with a snapshot of the       *)
(* pause, and nothing of the run after it (WaitInv, by Knows and Marks).   *)
(* A page told that the session is idle shows no run as live (IdleInv).    *)
(***************************************************************************)
EXTENDS RunView, FiniteSetTheorems, SequenceTheorems, TLAPS

Ids == Runs \cup {NoRun}

\* The order of the events of one message number, and the first of them that
\* may still come.
RankOf ==
  [type \in {"run-started", "chat-message-started", "chat-message-delta",
             "chat-message-completed", "discussion-ledger-updated", "turn-completed",
             "awaiting-user-input", "user-input-received", "turn-started",
             "turn-failed", "run-completed", "run-aborted", "run-failed"} |->
     CASE type = "run-started" -> 1
       [] type = "chat-message-started" -> 2
       [] type = "chat-message-delta" -> 3
       [] type = "chat-message-completed" -> 4
       [] type = "discussion-ledger-updated" -> 5
       [] type = "turn-completed" -> 6
       [] type = "awaiting-user-input" -> 7
       [] type = "user-input-received" -> 8
       [] type = "turn-started" -> 9
       [] type = "turn-failed" -> 10
       [] type = "run-completed" -> 11
       [] OTHER -> 12]

DueAt ==
  [pc \in {"setup", "opened", "top", "turn", "writing", "said", "ledgered", "asking",
           "pausing", "wait", "closing", "over", "failing", "thrown", "done"} |->
     CASE pc \in {"setup", "opened"} -> 1
       [] pc = "writing" -> 4
       [] pc = "said" -> 5
       [] pc = "ledgered" -> 6
       [] pc = "asking" -> 7
       [] pc \in {"pausing", "wait"} -> 8
       [] pc \in {"top", "closing"} -> 9
       [] pc = "turn" -> 10
       [] OTHER -> 12 + IF pc \in {"thrown", "done"} THEN 1 ELSE 0]

Events == [type : DOMAIN RankOf, msg : Nat, part : Nat]
Messages == [id : Nat, text : Seq(Nat)]
Calls == {"polling", "adopted", "flushing", "returned", "failed"}

Tasks == [pc : DOMAIN DueAt, run : Ids, active : Ids, before : SUBSET Runs, call : Calls,
          buffer : Seq(Events), flush : Seq(Events), sink : Seq(Events), msg : Nat,
          left : Nat, text : Seq(Nat), memory : SUBSET Messages,
          why : {"none", "failed", "aborted"}]

Written == {"absent", "running", "awaiting-user-input", "completed", "none", "failed",
            "aborted"}
Files == [status : Written, fixed : BOOLEAN, msgs : SUBSET Messages, ledgers : SUBSET Nat]

Fits(t) ==
    /\ t \in Tasks /\ Len(t.text) <= MaxParts
    /\ t.pc # "done" => t.run \in Runs

\* The event is one that a task which has come as far as t has made.
Made(e, t) ==
    /\ e \in Events /\ e.msg <= t.msg
    /\ e.msg = t.msg => RankOf[e.type] < DueAt[t.pc]
    /\ e.msg = t.msg /\ e.type = "chat-message-delta" /\ t.pc = "writing"
         => e.part <= Len(t.text)
    /\ t.pc # "done" => e.part <= MaxParts

MadeInv == Fits(task) /\ \A e \in DOMAIN sent : Made(e, task)

DiskTypeOK == disk \in [Runs -> Files]

In(s) == {s[i] : i \in DOMAIN s}
Once(s) == \A i, j \in DOMAIN s : s[i] = s[j] => i = j
Apart(s, t) == In(s) \cap In(t) = {}
Held == In(task.buffer) \cup In(task.flush) \cup In(task.sink)

PlacedInv ==
    /\ Once(task.buffer) /\ Once(task.flush) /\ Len(task.sink) <= 1
    /\ Apart(task.buffer, task.flush) /\ Apart(task.buffer, task.sink)
    /\ Apart(task.flush, task.sink)
    /\ Held \subseteq DOMAIN sent
    /\ \A e \in DOMAIN sent : sent[e] = IF e \in Held THEN 0 ELSE 1
    /\ task.call \in {"polling", "adopted"} => task.flush = << >>

EventsInv == MadeInv /\ PlacedInv

-----------------------------------------------------------------------------
(* What a sequence holds *)

LEMMA InEmpty == In(<< >>) = {} /\ Once(<< >>)
BY DEF In, Once

LEMMA InOne == \A e : In(<<e>>) = {e} /\ Once(<<e>>)
BY DEF In, Once

LEMMA InTwo == \A a, b : <<a, b>> \in Seq({a, b}) /\ In(<<a, b>>) = {a, b}
BY DEF In

LEMMA InAppend ==
    ASSUME NEW S, NEW s \in Seq(S), NEW e \in S
    PROVE  /\ In(Append(s, e)) = In(s) \cup {e}
           /\ Once(s) /\ e \notin In(s) => Once(Append(s, e))
<1> DEFINE t == Append(s, e)
<1>1. /\ Len(s) \in Nat /\ DOMAIN s = 1..Len(s) /\ DOMAIN t = 1..(Len(s) + 1)
      /\ t[Len(s) + 1] = e /\ \A i \in 1..Len(s) : t[i] = s[i]
  OBVIOUS
<1> HIDE DEF t
<1>2. In(t) = In(s) \cup {e}
  <2>1. \A x \in In(t) : x \in In(s) \cup {e}
    BY <1>1 DEF In
  <2>2. \A x \in In(s) \cup {e} : x \in In(t)
    BY <1>1 DEF In
  <2>3. QED
    BY <2>1, <2>2
<1>3. Once(s) /\ e \notin In(s) => Once(t)
  BY <1>1 DEF Once, In
<1>4. QED
  BY <1>2, <1>3 DEF t

LEMMA InTail ==
    ASSUME NEW S, NEW s \in Seq(S), s # << >>, Once(s)
    PROVE  /\ Tail(s) \in Seq(S) /\ Head(s) \in In(s)
           /\ In(Tail(s)) = In(s) \ {Head(s)} /\ Once(Tail(s))
<1> DEFINE t == Tail(s)
<1>1. /\ Len(s) \in Nat \ {0} /\ DOMAIN s = 1..Len(s) /\ DOMAIN t = 1..(Len(s) - 1)
      /\ Head(s) = s[1] /\ \A i \in 1..(Len(s) - 1) : t[i] = s[i + 1]
      /\ t \in Seq(S)
  OBVIOUS
<1> HIDE DEF t
<1>2. Once(t)
  <2> SUFFICES ASSUME NEW i \in DOMAIN t, NEW j \in DOMAIN t, t[i] = t[j] PROVE i = j
    BY DEF Once
  <2>1. i + 1 \in DOMAIN s /\ j + 1 \in DOMAIN s /\ s[i + 1] = s[j + 1]
    BY <1>1
  <2>2. i + 1 = j + 1
    BY <2>1 DEF Once
  <2>3. QED
    BY <1>1, <2>2
<1>3. Head(s) \in In(s)
  BY <1>1 DEF In
<1>4. \A x \in In(t) : x \in In(s) \ {Head(s)}
  BY <1>1 DEF In, Once
<1>5. ASSUME NEW x \in In(s), x # Head(s)
      PROVE  x \in In(t)
  <2>1. PICK i \in 1..Len(s) : x = s[i]
    BY <1>1 DEF In
  <2>2. i - 1 \in 1..(Len(s) - 1) /\ t[i - 1] = s[i]
    BY <1>1, <1>5, <2>1
  <2>3. QED
    BY <1>1, <2>1, <2>2 DEF In
<1>6. In(t) = In(s) \ {Head(s)}
  BY <1>4, <1>5
<1>7. QED
  BY <1>1, <1>2, <1>3, <1>6 DEF t

LEMMA InConcat ==
    ASSUME NEW S, NEW s \in Seq(S), NEW t \in Seq(S)
    PROVE  /\ s \o t \in Seq(S) /\ In(s \o t) = In(s) \cup In(t)
           /\ Once(s) /\ Once(t) /\ Apart(s, t) => Once(s \o t)
<1> DEFINE u == s \o t
<1>1. /\ Len(s) \in Nat /\ DOMAIN s = 1..Len(s) /\ Len(t) \in Nat /\ DOMAIN t = 1..Len(t)
      /\ u \in Seq(S) /\ DOMAIN u = 1..(Len(s) + Len(t))
      /\ \A i \in 1..Len(s) : u[i] = s[i]
      /\ \A i \in (Len(s) + 1)..(Len(s) + Len(t)) : u[i] = t[i - Len(s)]
  BY ConcatProperties
<1> HIDE DEF u
<1>2. \A x \in In(u) : x \in In(s) \cup In(t)
  <2> SUFFICES ASSUME NEW i \in DOMAIN u PROVE u[i] \in In(s) \cup In(t)
    BY DEF In
  <2>1. CASE i \in 1..Len(s)
    BY <1>1, <2>1 DEF In
  <2>2. CASE i \in (Len(s) + 1)..(Len(s) + Len(t))
    <3>1. i - Len(s) \in DOMAIN t /\ u[i] = t[i - Len(s)]
      BY <1>1, <2>2
    <3>2. QED
      BY <3>1 DEF In
  <2>3. QED
    BY <1>1, <2>1, <2>2
<1>3. In(s) \subseteq In(u)
  BY <1>1 DEF In
<1>4. In(t) \subseteq In(u)
  <2> SUFFICES ASSUME NEW i \in DOMAIN t PROVE t[i] \in In(u)
    BY DEF In
  <2>1. i + Len(s) \in DOMAIN u /\ u[i + Len(s)] = t[i]
    BY <1>1
  <2>2. QED
    BY <2>1 DEF In
<1>5. Once(s) /\ Once(t) /\ Apart(s, t) => Once(u)
  <2> SUFFICES ASSUME Once(s), Once(t), Apart(s, t), NEW i \in DOMAIN u,
                      NEW j \in DOMAIN u, u[i] = u[j]
               PROVE  i = j
    BY DEF Once
  <2>1. \A k \in DOMAIN u : \/ k \in DOMAIN s /\ u[k] = s[k]
                            \/ k - Len(s) \in DOMAIN t /\ u[k] = t[k - Len(s)]
    BY <1>1
  <2>2. CASE i \in DOMAIN s /\ u[i] = s[i]
    <3>1. u[i] \in In(s)
      BY <2>2 DEF In
    <3>2. ~(j - Len(s) \in DOMAIN t /\ u[j] = t[j - Len(s)])
      BY <3>1 DEF In, Apart
    <3>3. QED
      BY <2>1, <2>2, <3>2 DEF Once
  <2>3. CASE i - Len(s) \in DOMAIN t /\ u[i] = t[i - Len(s)]
    <3>1. u[i] \in In(t)
      BY <2>3 DEF In
    <3>2. ~(j \in DOMAIN s /\ u[j] = s[j])
      BY <3>1 DEF In, Apart
    <3>3. j - Len(s) \in DOMAIN t /\ i - Len(s) = j - Len(s)
      BY <2>1, <2>3, <3>2 DEF Once
    <3>4. QED
      BY <1>1, <3>3
  <2>4. QED
    BY <2>1, <2>2, <2>3
<1>6. QED
  BY <1>1, <1>2, <1>3, <1>4, <1>5 DEF u

\* In a sequence without repetitions an event is held once or not at all.
LEMMA HeldOnce ==
    ASSUME NEW S, NEW s \in Seq(S), Once(s), NEW e
    PROVE  Cardinality({i \in DOMAIN s : s[i] = e}) = IF e \in In(s) THEN 1 ELSE 0
<1>1. CASE e \in In(s)
  <2>1. PICK i \in DOMAIN s : s[i] = e
    BY <1>1 DEF In
  <2>2. {j \in DOMAIN s : s[j] = e} = {i}
    BY <2>1 DEF Once
  <2>3. QED
    BY <1>1, <2>2, FS_Singleton
<1>2. CASE e \notin In(s)
  <2>1. {j \in DOMAIN s : s[j] = e} = {}
    BY <1>2 DEF In
  <2>2. QED
    BY <1>2, <2>1, FS_EmptySet
<1>3. QED
  BY <1>1, <1>2

\* What is held after a step.
LEMMA HeldAfter ==
    /\ In(task.buffer)' = In(task'.buffer) /\ In(task.flush)' = In(task'.flush)
    /\ In(task.sink)' = In(task'.sink) /\ Once(task.buffer)' <=> Once(task'.buffer)
    /\ Once(task.flush)' <=> Once(task'.flush)
    /\ Held' = In(task'.buffer) \cup In(task'.flush) \cup In(task'.sink)
BY DEF In, Once, Held

-----------------------------------------------------------------------------
(* The order of the events *)

LEMMA Order ==
    /\ DOMAIN DueAt = {"setup", "opened", "top", "turn", "writing", "said", "ledgered",
                       "asking", "pausing", "wait", "closing", "over", "failing",
                       "thrown", "done"}
    /\ DOMAIN RankOf = {"run-started", "chat-message-started", "chat-message-delta",
                        "chat-message-completed", "discussion-ledger-updated",
                        "turn-completed", "awaiting-user-input", "user-input-received",
                        "turn-started", "turn-failed", "run-completed", "run-aborted",
                        "run-failed"}
    /\ DueAt["setup"] = 1 /\ DueAt["opened"] = 1 /\ DueAt["writing"] = 4
    /\ DueAt["said"] = 5 /\ DueAt["ledgered"] = 6 /\ DueAt["asking"] = 7
    /\ DueAt["pausing"] = 8 /\ DueAt["wait"] = 8 /\ DueAt["top"] = 9
    /\ DueAt["closing"] = 9 /\ DueAt["turn"] = 10 /\ DueAt["over"] = 12
    /\ DueAt["failing"] = 12 /\ DueAt["thrown"] = 13 /\ DueAt["done"] = 13
    /\ RankOf["run-started"] = 1 /\ RankOf["chat-message-started"] = 2
    /\ RankOf["chat-message-delta"] = 3 /\ RankOf["chat-message-completed"] = 4
    /\ RankOf["discussion-ledger-updated"] = 5 /\ RankOf["turn-completed"] = 6
    /\ RankOf["awaiting-user-input"] = 7 /\ RankOf["user-input-received"] = 8
    /\ RankOf["turn-started"] = 9 /\ RankOf["turn-failed"] = 10
    /\ RankOf["run-completed"] = 11 /\ RankOf["run-aborted"] = 12
    /\ RankOf["run-failed"] = 12
<1>1. /\ DueAt["setup"] = 1 /\ DueAt["opened"] = 1 /\ DueAt["writing"] = 4
      /\ DueAt["said"] = 5 /\ DueAt["ledgered"] = 6 /\ DueAt["asking"] = 7
      /\ DueAt["pausing"] = 8 /\ DueAt["wait"] = 8 /\ DueAt["top"] = 9
      /\ DueAt["closing"] = 9 /\ DueAt["turn"] = 10
  BY DEF DueAt
<1>2. /\ DueAt["over"] = 12 /\ DueAt["failing"] = 12 /\ DueAt["thrown"] = 13
      /\ DueAt["done"] = 13
  BY DEF DueAt
<1>3. /\ RankOf["run-started"] = 1 /\ RankOf["chat-message-started"] = 2
      /\ RankOf["chat-message-delta"] = 3 /\ RankOf["chat-message-completed"] = 4
      /\ RankOf["discussion-ledger-updated"] = 5 /\ RankOf["turn-completed"] = 6
  BY DEF RankOf
<1>4. /\ RankOf["awaiting-user-input"] = 7 /\ RankOf["user-input-received"] = 8
      /\ RankOf["turn-started"] = 9 /\ RankOf["turn-failed"] = 10
      /\ RankOf["run-completed"] = 11 /\ RankOf["run-aborted"] = 12
      /\ RankOf["run-failed"] = 12
  BY DEF RankOf
<1>5. QED
  BY <1>1, <1>2, <1>3, <1>4 DEF DueAt, RankOf

LEMMA OrderIsNumbers ==
    /\ \A pc \in DOMAIN DueAt : DueAt[pc] \in Nat
    /\ \A type \in DOMAIN RankOf : RankOf[type] \in Nat
<1>1. \A pc \in DOMAIN DueAt : DueAt[pc] \in Nat
  BY Order
<1>2. \A type \in DOMAIN RankOf : RankOf[type] \in Nat
  BY Order
<1>3. QED
  BY <1>1, <1>2

-----------------------------------------------------------------------------
(* An event is made, and put in one place *)

\* What the task makes now is new, as long as it moves on.
LEMMA NewEvent ==
    ASSUME EventsInv, NEW e \in Events, e.msg = task.msg,
           DueAt[task.pc] <= RankOf[e.type]
    PROVE  e \notin DOMAIN sent
BY OrderIsNumbers DEF EventsInv, MadeInv, Made, Fits, Tasks, Events

Advances(t) ==
    /\ t.pc # "done" => task.pc # "done"
    /\ \/ t.msg > task.msg
       \/ /\ t.msg = task.msg /\ DueAt[task.pc] <= DueAt[t.pc]
          /\ t.pc = "writing" => task.pc = "writing" /\ Len(task.text) <= Len(t.text)

LEMMA StaysMade ==
    ASSUME EventsInv, NEW t \in Tasks, Advances(t), NEW e \in DOMAIN sent
    PROVE  Made(e, t)
<1>1. Made(e, task) /\ task \in Tasks
  BY DEF EventsInv, MadeInv, Fits
<1>2. /\ task.msg \in Nat /\ t.msg \in Nat /\ e.msg \in Nat /\ e.part \in Nat
      /\ Len(task.text) \in Nat /\ Len(t.text) \in Nat
      /\ task.pc \in DOMAIN DueAt /\ t.pc \in DOMAIN DueAt /\ e.type \in DOMAIN RankOf
  BY <1>1 DEF Made, Events, Tasks
<1>3. RankOf[e.type] \in Nat /\ DueAt[task.pc] \in Nat /\ DueAt[t.pc] \in Nat
  BY <1>2, OrderIsNumbers
<1>4. QED
  BY <1>1, <1>2, <1>3, SMTT(30) DEF Advances, Made

\* Emits: an event of a task without an id is held, a ledger's waits for its
\* file, any other is sent.
LEMMA EmitStep ==
    ASSUME EventsInv, NEW e \in Events, e \notin DOMAIN sent,
           NEW t \in Tasks, t.buffer = task.buffer, t.flush = task.flush,
           t.sink = task.sink, t.call = task.call, task.sink = << >>,
           Emits(e, t)
    PROVE  /\ PlacedInv' /\ DOMAIN sent' = DOMAIN sent \cup {e} /\ task' \in Tasks
           /\ task'.pc = t.pc /\ task'.msg = t.msg /\ task'.text = t.text
           /\ task'.run = t.run
<1>1. /\ task.buffer \in Seq(Events) /\ task.flush \in Seq(Events)
      /\ e \notin Held /\ In(task.sink) = {}
  BY InEmpty DEF EventsInv, MadeInv, Fits, Tasks, PlacedInv
<1>2. CASE task.active = NoRun
  <2> DEFINE u == [t EXCEPT !.buffer = Append(t.buffer, e)]
  <2>1. task' = u /\ Counts({e}, {})
    BY <1>2 DEF Emits
  <2>2. /\ u \in Tasks /\ u.pc = t.pc /\ u.msg = t.msg /\ u.text = t.text /\ u.run = t.run
        /\ u.buffer = Append(task.buffer, e) /\ u.flush = task.flush /\ u.sink = << >>
        /\ u.call = task.call
    <3>1. t.buffer \in Seq(Events)
      BY DEF Tasks
    <3>2. Append(t.buffer, e) \in Seq(Events) /\ <<e>> \in Seq(Events)
      BY <3>1
    <3>3. QED
      BY <3>2 DEF Tasks
  <2> HIDE DEF u
  <2>3. /\ In(u.buffer) = In(task.buffer) \cup {e} /\ Once(u.buffer)
    BY <1>1, <2>2, InAppend DEF EventsInv, PlacedInv, Held
  <2>4. /\ DOMAIN sent' = DOMAIN sent \cup {e} /\ sent'[e] = 0
        /\ \A x \in DOMAIN sent : sent'[x] = sent[x]
    BY <2>1 DEF Counts, Times, EventsInv, PlacedInv
  <2>5. In(u.sink) = {} /\ Len(u.sink) = 0
    BY <2>2, InEmpty
  <2>6. PlacedInv'
    BY <1>1, <2>1, <2>2, <2>3, <2>4, <2>5 DEF EventsInv, PlacedInv, Held, Apart
  <2>7. QED
    BY <2>1, <2>2, <2>4, <2>6
<1>3. CASE task.active # NoRun /\ IsLedger(e)
  <2> DEFINE u == [t EXCEPT !.sink = <<e>>]
  <2>1. task' = u /\ Counts({e}, {})
    BY <1>3 DEF Emits
  <2>2. /\ u \in Tasks /\ u.pc = t.pc /\ u.msg = t.msg /\ u.text = t.text /\ u.run = t.run
        /\ u.buffer = task.buffer /\ u.flush = task.flush /\ u.sink = <<e>>
        /\ u.call = task.call
    <3>1. t.buffer \in Seq(Events)
      BY DEF Tasks
    <3>2. Append(t.buffer, e) \in Seq(Events) /\ <<e>> \in Seq(Events)
      BY <3>1
    <3>3. QED
      BY <3>2 DEF Tasks
  <2> HIDE DEF u
  <2>3. DOMAIN sent' = DOMAIN sent \cup {e} /\ sent'[e] = 0
        /\ \A x \in DOMAIN sent : sent'[x] = sent[x]
    BY <2>1 DEF Counts, Times, EventsInv, PlacedInv
  <2>4. In(u.sink) = {e} /\ Len(u.sink) = 1
    BY <2>2, InOne
  <2>5. PlacedInv'
    BY <1>1, <2>1, <2>2, <2>3, <2>4 DEF EventsInv, PlacedInv, Held, Apart
  <2>6. QED
    BY <2>1, <2>2, <2>3, <2>5
<1>4. CASE task.active # NoRun /\ ~IsLedger(e)
  <2>1. task' = t /\ Counts({e}, {e})
    BY <1>4 DEF Emits
  <2>2. DOMAIN sent' = DOMAIN sent \cup {e} /\ sent'[e] = 1
        /\ \A x \in DOMAIN sent : sent'[x] = sent[x]
    BY <2>1 DEF Counts, Times, EventsInv, PlacedInv
  <2>3. PlacedInv'
    BY <1>1, <2>1, <2>2 DEF EventsInv, PlacedInv, Held, Apart
  <2>4. QED
    BY <2>1, <2>2, <2>3
<1>5. QED
  BY <1>2, <1>3, <1>4

\* What an emission leaves of the task but where it is.
SameQueues(t) == /\ t.buffer = task.buffer /\ t.flush = task.flush
                 /\ t.sink = task.sink /\ t.call = task.call

LEMMA EmitKeeps ==
    ASSUME EventsInv, NEW e, e \notin DOMAIN sent, NEW t, Fits(t), SameQueues(t),
           task.sink = << >>, Advances(t), Made(e, t), Emits(e, t)
    PROVE  EventsInv'
<1>1. /\ PlacedInv' /\ DOMAIN sent' = DOMAIN sent \cup {e} /\ task' \in Tasks
      /\ task'.pc = t.pc /\ task'.msg = t.msg /\ task'.text = t.text /\ task'.run = t.run
  BY EmitStep DEF Fits, Made, SameQueues
<1>2. \A x \in DOMAIN sent' : Made(x, t)
  BY <1>1, StaysMade DEF Fits
<1>3. MadeInv'
  BY <1>1, <1>2 DEF MadeInv, Fits, Made
<1>4. QED
  BY <1>1, <1>3 DEF EventsInv

\* A task that goes on to another place with an event of that kind.
LEMMA SaysKeeps ==
    ASSUME EventsInv, NEW type \in DOMAIN RankOf, NEW t \in Tasks, SameQueues(t),
           task.sink = << >>, t.msg = task.msg, t.text = task.text, t.run = task.run,
           task.pc # "done", t.pc \notin {"done", "writing"},
           DueAt[task.pc] <= RankOf[type], RankOf[type] < DueAt[t.pc],
           Emits(Event(type), t)
    PROVE  EventsInv'
<1> DEFINE e == Event(type)
<1>1. /\ task.msg \in Nat /\ task.text \in Seq(Nat) /\ Len(task.text) <= MaxParts
      /\ task.run \in Runs /\ task.pc \in DOMAIN DueAt /\ t.pc \in DOMAIN DueAt
  BY DEF EventsInv, MadeInv, Fits, Tasks
<1>2. e \in Events /\ e.msg = task.msg /\ e.part = Len(task.text) /\ e.type = type
  BY <1>1 DEF Event, Events
<1>3. RankOf[type] \in Nat /\ DueAt[task.pc] \in Nat /\ DueAt[t.pc] \in Nat
  BY <1>1, OrderIsNumbers
<1> HIDE DEF e
<1>4. e \notin DOMAIN sent
  BY <1>2, NewEvent
<1>5. Fits(t) /\ Advances(t) /\ Made(e, t)
  BY <1>1, <1>2, <1>3 DEF Fits, Advances, Made
<1>6. QED
  BY <1>4, <1>5, EmitKeeps DEF e

\* A task that goes on, and nothing that is said.
LEMMA QuietKeeps ==
    ASSUME EventsInv, Fits(task'), Advances(task'), SameQueues(task'), UNCHANGED sent
    PROVE  EventsInv'
<1>1. MadeInv'
  BY StaysMade DEF MadeInv, Fits
<1>2. PlacedInv'
  BY DEF EventsInv, PlacedInv, Held, SameQueues
<1>3. QED
  BY <1>1, <1>2 DEF EventsInv

\* Nothing of the task changes.
LEMMA IdleKeeps ==
    ASSUME EventsInv, UNCHANGED <<task, sent>>
    PROVE  EventsInv'
BY DEF EventsInv, MadeInv, Fits, Made, PlacedInv, Held

-----------------------------------------------------------------------------
(* The steps of the task *)

\* The task at another place, with what it takes along.
Moved(t, pc) == /\ t \in Tasks /\ t.pc = pc /\ SameQueues(t)
                /\ t.msg = task.msg /\ t.text = task.text /\ t.run = task.run

LEMMA Moves ==
    ASSUME EventsInv, NEW pc \in DOMAIN DueAt
    PROVE  /\ Moved(Goes(pc), pc)
           /\ \A left \in Nat : Moved([Goes(pc) EXCEPT !.left = left], pc)
           /\ \A memory \in SUBSET Messages : Moved([Goes(pc) EXCEPT !.memory = memory], pc)
           /\ \A why \in {"none", "failed", "aborted"} :
                Moved([Goes(pc) EXCEPT !.why = why], pc)
BY DEF EventsInv, MadeInv, Fits, Tasks, Moved, SameQueues, Goes

LEMMA MovesQuietly ==
    ASSUME EventsInv, NEW pc \in DOMAIN DueAt, Moved(task', pc), UNCHANGED sent,
           task.pc # "done", pc \notin {"writing", "done"}, DueAt[task.pc] <= DueAt[pc]
    PROVE  EventsInv'
<1>1. Fits(task') /\ Advances(task') /\ SameQueues(task')
  BY DEF Moved, Fits, Advances, EventsInv, MadeInv
<1>2. QED
  BY <1>1, QuietKeeps

LEMMA MovesSaying ==
    ASSUME EventsInv, NEW type \in DOMAIN RankOf, NEW pc \in DOMAIN DueAt, NEW t,
           Moved(t, pc), task.sink = << >>, task.pc # "done",
           pc \notin {"writing", "done"},
           DueAt[task.pc] <= RankOf[type], RankOf[type] < DueAt[pc],
           Emits(Event(type), t)
    PROVE  EventsInv'
BY SaysKeeps DEF Moved

\* The events between two messages.
LEMMA SayingKeeps ==
    ASSUME EventsInv, DiskTypeOK,
           \/ RunStarted \/ TurnStarted \/ MessageCompleted \/ LedgerUpdated
           \/ TurnCompleted \/ TurnFailed \/ Asks \/ Answered \/ Completes \/ Fails
    PROVE  EventsInv'
<1> USE DEF Works, Says
<1>0. /\ task \in Tasks /\ task.sink = << >>
  BY DEF EventsInv, MadeInv, Fits, RunStarted, TurnStarted, MessageCompleted,
     LedgerUpdated, TurnCompleted, TurnFailed, Asks, Answered, Completes, Fails
<1>1. CASE RunStarted
  <2>1. Moved(Goes("top"), "top")
    BY Moves, Order
  <2>2. QED
    BY <1>0, <1>1, <2>1, MovesSaying, Order, SMTT(30) DEF RunStarted
<1>2. CASE TurnStarted
  <2> DEFINE t == [Goes("turn") EXCEPT !.left = task.left - 1]
  <2>1. task.left - 1 \in Nat
    BY <1>0, <1>2 DEF TurnStarted, Tasks
  <2>2. Moved(t, "turn")
    BY <2>1, Moves, Order
  <2>3. Emits(Event("turn-started"), t) /\ task.pc = "top"
    BY <1>0, <1>2 DEF TurnStarted, Goes, Tasks
  <2> HIDE DEF t
  <2>4. QED
    BY <1>0, <2>2, <2>3, MovesSaying, Order
<1>3. CASE MessageCompleted
  <2> DEFINE memory == task.memory \cup {[id |-> task.msg, text |-> task.text]}
             t == [Goes("said") EXCEPT !.memory = memory]
  <2>1. memory \in SUBSET Messages
    BY <1>0 DEF Tasks, Messages
  <2>2. Moved(t, "said")
    BY <2>1, Moves, Order
  <2>3. Emits(Event("chat-message-completed"), t) /\ task.pc = "writing"
    BY <1>0, <1>3 DEF MessageCompleted, Goes, Tasks
  <2> HIDE DEF t
  <2>4. QED
    BY <1>0, <2>2, <2>3, MovesSaying, Order
<1>4. CASE LedgerUpdated
  <2>1. Moved(Goes("ledgered"), "ledgered")
    BY Moves, Order
  <2>2. QED
    BY <1>0, <1>4, <2>1, MovesSaying, Order, SMTT(30) DEF LedgerUpdated
<1>5. CASE TurnCompleted
  <2>1. Moved(Goes("asking"), "asking")
    BY Moves, Order
  <2>2. QED
    BY <1>0, <1>5, <2>1, MovesSaying, Order, SMTT(30) DEF TurnCompleted
<1>6. CASE TurnFailed
  <2>1. Moved([Goes("failing") EXCEPT !.why = "failed"], "failing")
    BY Moves, Order
  <2>2. QED
    BY <1>0, <1>6, <2>1, MovesSaying, Order, SMTT(30) DEF TurnFailed
<1>7. CASE Asks
  <2>1. Moved(Goes("pausing"), "pausing")
    BY Moves, Order
  <2>2. QED
    BY <1>0, <1>7, <2>1, MovesSaying, Order, SMTT(30) DEF Asks
<1>8. CASE Answered
  <2> DEFINE pc == IF task.left > 0 THEN "top" ELSE "closing"
  <2>1. pc \in {"top", "closing"} /\ Moved(Goes(pc), pc)
    BY Moves, Order
  <2>2. Emits(Event("user-input-received"), Goes(pc)) /\ task.pc = "wait"
    BY <1>8 DEF Answered
  <2> HIDE DEF pc
  <2>3. QED
    BY <1>0, <2>1, <2>2, MovesSaying, Order
<1>9. CASE Completes
  <2>1. Moved(Goes("over"), "over")
    BY Moves, Order
  <2>2. QED
    BY <1>0, <1>9, <2>1, MovesSaying, Order, SMTT(30) DEF Completes
<1>10. CASE Fails
  <2> DEFINE type == IF task.why = "aborted" THEN "run-aborted" ELSE "run-failed"
  <2>1. Moved(Goes("thrown"), "thrown")
    BY Moves, Order
  <2>2. Emits(Event(type), Goes("thrown")) /\ task.pc = "failing"
        /\ type \in {"run-aborted", "run-failed"}
    BY <1>10 DEF Fails
  <2> HIDE DEF type
  <2>3. QED
    BY <1>0, <2>1, <2>2, MovesSaying, Order
<1>11. QED
  BY <1>1, <1>2, <1>3, <1>4, <1>5, <1>6, <1>7, <1>8, <1>9, <1>10

\* A message that begins has a number no event has had, a part of it comes after
\* those there are.
LEMMA WritingKeeps ==
    ASSUME EventsInv, MessageStarted \/ MessageDelta
    PROVE  EventsInv'
<1>1. /\ task \in Tasks /\ task.sink = << >> /\ Len(task.text) <= MaxParts
      /\ task.run \in Runs /\ task.pc \in {"turn", "writing"}
  BY DEF EventsInv, MadeInv, Fits, MessageStarted, MessageDelta, Works
<1>2. /\ task.msg \in Nat /\ task.text \in Seq(Nat) /\ Len(task.text) \in Nat
      /\ MaxParts \in Nat
  BY <1>1, EventsAssumption DEF Tasks
<1>3. CASE MessageStarted
  <2> DEFINE e == [Event("chat-message-started") EXCEPT !.msg = task.msg + 1]
             t == [Goes("writing") EXCEPT !.msg = task.msg + 1, !.text = << >>]
  <2>0. "chat-message-started" \in DOMAIN RankOf /\ "writing" \in DOMAIN DueAt
    BY Order
  <2>1. Emits(e, t)
    BY <1>1, <1>3 DEF MessageStarted, Goes, Tasks, Event
  <2>2. /\ e \in Events /\ e.msg = task.msg + 1 /\ e.part = Len(task.text)
        /\ e.type = "chat-message-started"
    BY <1>2, <2>0 DEF Event, Events
  <2>3. /\ t \in Tasks /\ t.pc = "writing" /\ t.msg = task.msg + 1 /\ t.text = << >>
        /\ t.run = task.run /\ SameQueues(t)
    <3> DEFINE u == Goes("writing")
    <3>1. u \in Tasks /\ u.pc = "writing" /\ u.run = task.run /\ SameQueues(u)
      BY <2>0, Moves DEF Moved
    <3>2. task.msg + 1 \in Nat /\ << >> \in Seq(Nat)
      BY <1>2
    <3> HIDE DEF u
    <3>3. LET v == [u EXCEPT !.msg = task.msg + 1, !.text = << >>]
          IN  /\ v \in Tasks /\ v.pc = "writing" /\ v.msg = task.msg + 1 /\ v.text = << >>
              /\ v.run = task.run /\ SameQueues(v)
      BY <3>1, <3>2 DEF Tasks, SameQueues
    <3>4. QED
      BY <3>3 DEF u
  <2> HIDE DEF e, t
  <2>4. e \notin DOMAIN sent
    BY <1>2, <2>2 DEF EventsInv, MadeInv, Made
  <2>5. Fits(t) /\ Advances(t) /\ Made(e, t)
    BY <1>1, <1>2, <2>2, <2>3, Order, SMTT(30) DEF Fits, Advances, Made
  <2>6. QED
    BY <1>1, <2>1, <2>3, <2>4, <2>5, EmitKeeps
<1>4. CASE MessageDelta
  <2> DEFINE n == Len(task.text) + 1
             e == [Event("chat-message-delta") EXCEPT !.part = n]
             t == [task EXCEPT !.text = Append(task.text, n)]
  <2>0. "chat-message-delta" \in DOMAIN RankOf
    BY Order
  <2>1. Emits(e, t) /\ task.pc = "writing" /\ n <= MaxParts
    BY <1>1, <1>2, <1>4 DEF MessageDelta, Tasks, Works
  <2>2. /\ e \in Events /\ e.msg = task.msg /\ e.part = n
        /\ e.type = "chat-message-delta"
    BY <1>2, <2>0 DEF Event, Events
  <2>3. Append(task.text, n) \in Seq(Nat) /\ Len(Append(task.text, n)) = n
    BY <1>2
  <2>4. /\ t \in Tasks /\ t.pc = "writing" /\ t.msg = task.msg /\ Len(t.text) = n
        /\ t.run = task.run /\ SameQueues(t)
    BY <1>1, <2>1, <2>3 DEF Tasks, SameQueues
  <2> HIDE DEF e, t
  <2>5. e \notin DOMAIN sent
    BY <1>2, <2>1, <2>2 DEF EventsInv, MadeInv, Made
  <2>6. Fits(t) /\ Advances(t) /\ Made(e, t)
    BY <1>1, <1>2, <2>1, <2>2, <2>4, Order DEF Fits, Advances, Made
  <2>7. QED
    BY <1>1, <2>1, <2>4, <2>5, <2>6, EmitKeeps
<1>5. QED
  BY <1>3, <1>4

\* What the task does without a word.
LEMMA SilenceKeeps ==
    ASSUME EventsInv, DiskTypeOK,
           \/ Open \/ SetupFails \/ Pauses \/ Aborts \/ Vanished \/ PollFinds
           \/ PollGivesUp \/ PollReturns
    PROVE  EventsInv'
<1> USE DEF Works
<1>0. /\ task \in Tasks /\ task.pc \in DOMAIN DueAt
      /\ UNCHANGED sent
  BY DEF EventsInv, MadeInv, Fits, Tasks, Open, SetupFails, Pauses, Aborts, Vanished,
     PollFinds, PollGivesUp, PollReturns
<1>1. CASE Open
  <2>1. disk[task.run].msgs \in SUBSET Messages /\ task.pc = "setup"
    BY <1>1 DEF Open, DiskTypeOK, Files, EventsInv, MadeInv, Fits
  <2>2. Moved(task', "opened")
    BY <1>1, <2>1, Moves, Order DEF Open
  <2>3. QED
    BY <1>0, <2>1, <2>2, MovesQuietly, Order
<1>2. CASE SetupFails \/ Vanished
  <2> DEFINE why == IF task.why = "none" THEN "failed" ELSE task.why
  <2>1. why \in {"none", "failed", "aborted"}
    BY <1>0 DEF Tasks
  <2>2. \/ task' = [Goes("thrown") EXCEPT !.why = why]
        \/ task' = [Goes("thrown") EXCEPT !.why = "failed"]
    BY <1>0, <1>2 DEF SetupFails, Vanished, Goes, Tasks
  <2> HIDE DEF why
  <2>3. Moved(task', "thrown")
    <3>1. "thrown" \in DOMAIN DueAt
      BY Order
    <3>2. QED
      BY <2>1, <2>2, <3>1, Moves
  <2>4. task.pc \in DOMAIN DueAt \ {"done", "thrown"}
    BY <1>0, <1>2 DEF SetupFails, Vanished
  <2>5. QED
    BY <1>0, <2>3, <2>4, MovesQuietly, Order
<1>3. CASE Pauses
  <2>1. Moved(task', "wait") /\ task.pc = "pausing"
    BY <1>3, Moves, Order DEF Pauses
  <2>2. QED
    BY <1>0, <2>1, MovesQuietly, Order
<1>4. CASE Aborts
  <2>1. /\ Moved(task', "failing")
        /\ task.pc \in {"opened", "top", "turn", "writing", "asking", "closing", "wait"}
    BY <1>4, Moves, Order DEF Aborts
  <2>2. QED
    BY <1>0, <2>1, MovesQuietly, Order
<1>5. CASE PollFinds \/ PollGivesUp \/ PollReturns
  <2>1. /\ task' \in Tasks /\ task'.pc = task.pc /\ task'.msg = task.msg
        /\ task'.text = task.text /\ task'.run = task.run
        /\ task'.buffer = task.buffer /\ task'.flush = task.flush
        /\ task'.sink = task.sink
        /\ task'.call \in {"polling", "adopted"} => task.call \in {"polling", "adopted"}
    <3>1. \/ \E r \in Runs : task' = [task EXCEPT !.active = r, !.call = "adopted"]
          \/ task' = [task EXCEPT !.call = "failed"]
          \/ task' = [task EXCEPT !.call = "returned"]
      BY <1>5 DEF PollFinds, PollGivesUp, PollReturns, Stored
    <3>2. task.call = "polling" \/ task'.call \in {"failed", "returned"}
      BY <1>0, <1>5 DEF PollFinds, PollGivesUp, PollReturns, Tasks
    <3>3. QED
      BY <1>0, <3>1, <3>2, ZenonT(40) DEF Tasks, Calls, Ids
  <2>2. DueAt[task.pc] \in Nat
    BY <1>0, Order
  <2>3. Fits(task') /\ Advances(task')
    BY <2>1, <2>2 DEF Fits, Advances, EventsInv, MadeInv, Tasks
  <2>4. MadeInv'
    BY <1>0, <2>1, <2>3, StaysMade DEF MadeInv
  <2>5. PlacedInv'
    BY <1>0, <2>1 DEF EventsInv, PlacedInv, Held
  <2>6. QED
    BY <2>4, <2>5 DEF EventsInv
<1>6. QED
  BY <1>1, <1>2, <1>3, <1>4, <1>5

\* An event that was held is sent.
LEMMA SendStep ==
    ASSUME EventsInv, NEW e \in Held, Counts({}, {e}),
           task' \in Tasks, task'.pc = task.pc, task'.msg = task.msg,
           task'.text = task.text, task'.run = task.run, task'.call = task.call,
           task'.buffer = task.buffer, Once(task.flush)',
           In(task.flush)' \subseteq In(task.flush), In(task.sink)' \subseteq In(task.sink),
           Len(task.sink)' <= 1, Held' = Held \ {e},
           task.call \in {"polling", "adopted"} => task'.flush = << >>
    PROVE  EventsInv'
<1>1. e \in DOMAIN sent /\ sent[e] = 0
  BY DEF EventsInv, PlacedInv
<1>2. /\ DOMAIN sent' = DOMAIN sent /\ sent'[e] = 1
      /\ \A x \in DOMAIN sent \ {e} : sent'[x] = sent[x]
  BY <1>1 DEF Counts, Times, EventsInv, PlacedInv
<1>3. task.pc \in DOMAIN DueAt
  BY DEF EventsInv, MadeInv, Fits, Tasks
<1>4. Fits(task') /\ Advances(task')
  BY <1>3, OrderIsNumbers DEF Fits, Advances, EventsInv, MadeInv, Tasks
<1>5. MadeInv'
  BY <1>2, <1>4, StaysMade DEF MadeInv, Fits
<1>6. Apart(task.buffer, task.flush)' /\ Apart(task.buffer, task.sink)'
      /\ Apart(task.flush, task.sink)'
  BY DEF EventsInv, PlacedInv, Apart
<1>7. \A x \in DOMAIN sent' : sent'[x] = IF x \in Held' THEN 0 ELSE 1
  BY <1>1, <1>2 DEF EventsInv, PlacedInv
<1>8. PlacedInv'
  BY <1>2, <1>6, <1>7 DEF EventsInv, PlacedInv
<1>9. QED
  BY <1>5, <1>8 DEF EventsInv

LEMMA LedgerSavedKeeps ==
    ASSUME EventsInv, LedgerSaved
    PROVE  EventsInv'
<1> DEFINE e == task.sink[1]
<1>1. /\ task \in Tasks /\ task.sink \in Seq(Events) /\ task.sink # << >>
      /\ Len(task.sink) = 1
  BY DEF EventsInv, MadeInv, Fits, Tasks, PlacedInv, LedgerSaved
<1>2. In(task.sink) = {e}
  BY <1>1 DEF In
<1>3. Counts({}, {e})
  BY DEF LedgerSaved
<1>4. /\ task' \in Tasks /\ task'.pc = task.pc /\ task'.msg = task.msg
      /\ task'.text = task.text /\ task'.run = task.run /\ task'.call = task.call
      /\ task'.buffer = task.buffer /\ task'.flush = task.flush /\ task'.sink = << >>
  <2>1. << >> \in Seq(Events) /\ task' = [task EXCEPT !.sink = << >>]
    BY DEF LedgerSaved
  <2>2. QED
    BY <1>1, <2>1 DEF Tasks
<1>5. In(task.sink)' = {} /\ Len(task.sink)' = 0
  BY <1>4, InEmpty DEF In
<1> HIDE DEF e
<1>6. Held' = Held \ {e} /\ e \in Held
  <2>1. Held' = In(task.buffer) \cup In(task.flush)
    BY <1>4, InEmpty, HeldAfter
  <2>2. e \notin In(task.buffer) /\ e \notin In(task.flush)
    BY <1>2 DEF EventsInv, PlacedInv, Apart
  <2>3. QED
    BY <1>2, <2>1, <2>2 DEF Held
<1>7. /\ Once(task.flush)' /\ In(task.flush)' = In(task.flush)
      /\ task.call \in {"polling", "adopted"} => task'.flush = << >>
  BY <1>4 DEF EventsInv, PlacedInv, Once, In
<1>8. QED
  BY <1>3, <1>4, <1>5, <1>6, <1>7, SendStep

LEMMA FlushKeeps ==
    ASSUME EventsInv, FlushNext
    PROVE  EventsInv'
<1> DEFINE e == Head(task.flush)
<1>1. /\ task \in Tasks /\ task.flush \in Seq(Events) /\ task.flush # << >>
      /\ Once(task.flush) /\ task.call = "flushing" /\ Counts({}, {e})
      /\ task' = [task EXCEPT !.flush = Tail(task.flush)]
  BY DEF EventsInv, MadeInv, Fits, Tasks, PlacedInv, FlushNext
<1>2. /\ Tail(task.flush) \in Seq(Events) /\ e \in In(task.flush)
      /\ In(Tail(task.flush)) = In(task.flush) \ {e} /\ Once(Tail(task.flush))
  BY <1>1, InTail
<1>3. /\ task' \in Tasks /\ task'.pc = task.pc /\ task'.msg = task.msg
      /\ task'.text = task.text /\ task'.run = task.run /\ task'.call = task.call
      /\ task'.buffer = task.buffer /\ task'.flush = Tail(task.flush)
      /\ task'.sink = task.sink
  BY <1>1, <1>2 DEF Tasks
<1> HIDE DEF e
<1>4. /\ In(task.flush)' = In(task.flush) \ {e} /\ In(task.sink)' = In(task.sink)
      /\ In(task.buffer)' = In(task.buffer) /\ Once(task.flush)'
      /\ Len(task.sink)' <= 1
  BY <1>2, <1>3, HeldAfter DEF EventsInv, PlacedInv
<1>5. Held' = Held \ {e} /\ e \in Held
  BY <1>2, <1>4 DEF Held, EventsInv, PlacedInv, Apart
<1>6. QED
  BY <1>1, <1>3, <1>4, <1>5, SendStep

\* The held events are taken as a whole, by a flush that has none.
LEMMA TakenKeeps ==
    ASSUME EventsInv, PollRefreshes
    PROVE  EventsInv'
<1>1. /\ task \in Tasks /\ task.call = "adopted" /\ task.flush = << >>
      /\ task' = [task EXCEPT !.call = "flushing", !.flush = task.buffer, !.buffer = << >>]
      /\ UNCHANGED sent
  BY DEF EventsInv, MadeInv, Fits, PlacedInv, PollRefreshes, Taken
<1>2. task.buffer \in Seq(Events) /\ << >> \in Seq(Events)
  BY <1>1 DEF Tasks
<1>3. /\ task' \in Tasks /\ task'.pc = task.pc /\ task'.msg = task.msg
      /\ task'.text = task.text /\ task'.run = task.run /\ task'.call = "flushing"
      /\ task'.buffer = << >> /\ task'.flush = task.buffer /\ task'.sink = task.sink
  BY <1>1, <1>2 DEF Tasks, Calls
<1>4. Fits(task') /\ Advances(task')
  <2>1. task.pc \in DOMAIN DueAt
    BY <1>1 DEF Tasks
  <2>2. QED
    BY <1>3, <2>1, OrderIsNumbers DEF Fits, Advances, EventsInv, MadeInv, Tasks
<1>5. MadeInv'
  BY <1>1, <1>4, StaysMade DEF MadeInv, Fits
<1>6. /\ In(task.flush) = {} /\ In(task.buffer)' = {} /\ Once(task.buffer)'
      /\ In(task.flush)' = In(task.buffer) /\ In(task.sink)' = In(task.sink)
      /\ Once(task.flush)' /\ Len(task.sink)' <= 1
  BY <1>1, <1>3, InEmpty DEF In, Once, EventsInv, PlacedInv
<1>7. Held' = Held
  BY <1>6 DEF Held
<1>8. PlacedInv'
  BY <1>1, <1>3, <1>6, <1>7 DEF EventsInv, PlacedInv, Apart
<1>9. QED
  BY <1>5, <1>8 DEF EventsInv

\* The end of a task: what is still held, and a failure nobody was told of.
LEMMA EndKeeps ==
    ASSUME EventsInv, RoundComplete \/ TearsDown
    PROVE  EventsInv'
<1>1. /\ task \in Tasks /\ task.sink = << >> /\ task.pc \in DOMAIN DueAt \ {"done"}
      /\ task.msg \in Nat /\ task.buffer \in Seq(Events)
      /\ Len(task.text) <= MaxParts /\ MaxParts \in Nat
  BY EventsAssumption DEF EventsInv, MadeInv, Fits, Tasks, RoundComplete, TearsDown, Works
<1>2. "done" \in DOMAIN DueAt /\ DueAt[task.pc] \in Nat /\ DueAt[task.pc] <= 13
      /\ DueAt["done"] = 13
  BY <1>1, Order
<1>3. CASE RoundComplete
  <2>1. Moved(task', "done")
    BY <1>2, <1>3, Moves DEF RoundComplete
  <2>2. Fits(task') /\ Advances(task') /\ SameQueues(task')
    BY <1>1, <1>2, <2>1 DEF Moved, Fits, Advances
  <2>3. QED
    BY <1>3, <2>2, QuietKeeps DEF RoundComplete
<1>4. CASE TearsDown
  <2> DEFINE f == [Event("run-failed") EXCEPT !.part = MaxParts + 1]
             held == task.buffer \o Failure
  <2>1. /\ f \in Events /\ f.part = MaxParts + 1 /\ f.msg = task.msg
        /\ f.type = "run-failed"
    <3>1. "run-failed" \in DOMAIN RankOf
      BY Order
    <3>2. QED
      BY <1>1, <3>1 DEF Event, Events
  <2>2. Failure \in {<<f>>, << >>}
    BY DEF Failure
  <2> HIDE DEF f
  <2>3. f \notin DOMAIN sent
    BY <1>1, <2>1 DEF EventsInv, MadeInv, Made
  <2>4. /\ Failure \in Seq(Events) /\ Once(Failure) /\ In(Failure) \subseteq {f}
    <3>1. CASE Failure = <<f>>
      <4>1. <<f>> \in Seq(Events)
        BY <2>1
      <4>2. QED
        BY <3>1, <4>1, InOne
    <3>2. CASE Failure = << >>
      <4>1. << >> \in Seq(Events)
        OBVIOUS
      <4>2. QED
        BY <3>2, <4>1, InEmpty
    <3>3. QED
      BY <2>2, <3>1, <3>2
  <2>5. Apart(task.buffer, Failure) /\ In(task.buffer) \subseteq DOMAIN sent
    BY <2>3, <2>4 DEF EventsInv, PlacedInv, Held, Apart
  <2>6. /\ held \in Seq(Events) /\ In(held) = In(task.buffer) \cup In(Failure)
        /\ Once(held)
    BY <1>1, <2>4, <2>5, InConcat DEF EventsInv, PlacedInv
  <2>7. \A x \in In(Failure) : Made(x, Goes("done"))
    <3>1. Moved(Goes("done"), "done")
      BY <1>2, Moves
    <3>2. RankOf["run-failed"] < DueAt["done"]
      BY Order
    <3>3. QED
      BY <1>1, <2>1, <2>4, <3>1, <3>2 DEF Moved, Made
  <2>8. Apart(task.flush, Failure)
    BY <2>3, <2>4 DEF EventsInv, PlacedInv, Held, Apart
  <2>9. \A u \in Seq(Events) : LET t == [Goes("done") EXCEPT !.buffer = u]
                               IN  /\ t \in Tasks /\ t.pc = "done" /\ t.buffer = u
                                   /\ t.flush = task.flush /\ t.sink = task.sink
                                   /\ t.call = task.call /\ t.msg = task.msg
                                   /\ t.text = task.text /\ t.run = task.run
    <3> DEFINE g == Goes("done")
    <3>1. Moved(g, "done")
      BY <1>2, Moves
    <3> HIDE DEF g
    <3>2. \A u \in Seq(Events) : LET t == [g EXCEPT !.buffer = u]
                                 IN  /\ t \in Tasks /\ t.pc = "done" /\ t.buffer = u
                                     /\ t.flush = task.flush /\ t.sink = task.sink
                                     /\ t.call = task.call /\ t.msg = task.msg
                                     /\ t.text = task.text /\ t.run = task.run
      BY <3>1 DEF Moved, Tasks, SameQueues
    <3>3. QED
      BY <3>2 DEF g
  <2>10. \A x \in DOMAIN sent : Made(x, Goes("done"))
    <3>1. Moved(Goes("done"), "done")
      BY <1>2, Moves
    <3>2. Goes("done") \in Tasks /\ Advances(Goes("done"))
      BY <1>1, <1>2, <3>1 DEF Moved, Advances
    <3>3. QED
      BY <3>2, StaysMade
  <2>11. /\ DOMAIN sent' = DOMAIN sent \cup In(held)
         /\ task.active = NoRun => Counts(In(held), {})
                                   /\ task' = [Goes("done") EXCEPT !.buffer = held]
         /\ task.active # NoRun => Counts(In(held), In(held))
                                   /\ task' = [Goes("done") EXCEPT !.buffer = << >>]
    BY <1>4 DEF TearsDown, In, Counts
  <2> HIDE DEF held
  <2>12. /\ task' \in Tasks /\ task'.pc = "done" /\ task'.flush = task.flush
         /\ task'.sink = << >> /\ task'.call = task.call /\ task'.msg = task.msg
         /\ task'.text = task.text /\ task'.run = task.run
         /\ task'.buffer = IF task.active = NoRun THEN held ELSE << >>
    <3>1. CASE task.active = NoRun
      <4>1. held \in Seq(Events) /\ task' = [Goes("done") EXCEPT !.buffer = held]
        BY <2>6, <2>11, <3>1
      <4>2. QED
        BY <1>1, <2>9, <3>1, <4>1
    <3>2. CASE task.active # NoRun
      <4>1. << >> \in Seq(Events)
        OBVIOUS
      <4>2. QED
        BY <1>1, <2>9, <2>11, <3>2, <4>1
    <3>3. QED
      BY <3>1, <3>2
  <2>13. MadeInv'
    <3>1. Moved(Goes("done"), "done")
      BY <1>2, Moves
    <3>2. \A x \in DOMAIN sent' : Made(x, Goes("done"))
      BY <2>6, <2>5, <2>7, <2>10, <2>11
    <3>3. QED
      BY <1>1, <2>12, <3>1, <3>2 DEF MadeInv, Fits, Made, Moved
  <2>14. /\ In(task.sink)' = {} /\ Len(task.sink)' = 0 /\ In(task.flush)' = In(task.flush)
         /\ Once(task.flush)' /\ In(task.sink) = {}
         /\ task'.call \in {"polling", "adopted"} => task'.flush = << >>
    BY <1>1, <2>12, InEmpty, HeldAfter DEF EventsInv, PlacedInv
  <2>15. CASE task.active = NoRun
    <3>1. \A x \in DOMAIN sent' : sent'[x] = IF x \in DOMAIN sent THEN sent[x] ELSE 0
      BY <2>11, <2>15 DEF Counts, Times, EventsInv, PlacedInv
    <3>2. In(task.buffer)' = In(held) /\ Once(task.buffer)'
      BY <2>6, <2>12, <2>15 DEF In, Once
    <3>3. Held' = Held \cup In(held)
      BY <2>6, <2>14, <3>2 DEF Held
    <3>4. Apart(task.buffer, task.flush)' /\ Apart(task.buffer, task.sink)'
          /\ Apart(task.flush, task.sink)'
      BY <2>6, <2>8, <2>14, <3>2 DEF EventsInv, PlacedInv, Apart
    <3>5. Held' \subseteq DOMAIN sent'
      BY <2>11, <3>3 DEF EventsInv, PlacedInv
    <3>6. \A x \in DOMAIN sent' : sent'[x] = IF x \in Held' THEN 0 ELSE 1
      BY <2>3, <2>4, <2>6, <2>11, <3>1, <3>3 DEF EventsInv, PlacedInv, Held
    <3>7. PlacedInv'
      BY <2>14, <3>2, <3>4, <3>5, <3>6 DEF PlacedInv
    <3>8. QED
      BY <2>13, <3>7 DEF EventsInv
  <2>16. CASE task.active # NoRun
    <3>1. \A x \in DOMAIN sent' :
            sent'[x] = (IF x \in DOMAIN sent THEN sent[x] ELSE 0)
                         + IF x \in In(held) THEN 1 ELSE 0
      BY <2>11, <2>16 DEF Counts, Times
    <3>2. In(task.buffer)' = {} /\ Once(task.buffer)'
      BY <2>12, <2>16, InEmpty DEF In, Once
    <3>3. Held' = In(task.flush)
      BY <2>14, <3>2 DEF Held
    <3>4. ASSUME NEW x \in DOMAIN sent'
          PROVE  sent'[x] = IF x \in In(task.flush) THEN 0 ELSE 1
      <4>1. CASE x \in In(held)
        <5>1. x \notin In(task.flush)
          BY <2>6, <2>8, <4>1 DEF EventsInv, PlacedInv, Apart
        <5>2. x \in DOMAIN sent => sent[x] = 0
          BY <2>3, <2>4, <2>6, <4>1 DEF EventsInv, PlacedInv, Held
        <5>3. QED
          BY <3>1, <4>1, <5>1, <5>2
      <4>2. CASE x \notin In(held)
        <5>1. x \in DOMAIN sent /\ x \notin In(task.buffer) /\ x \notin In(task.sink)
          BY <2>6, <2>11, <2>14, <4>2
        <5>2. sent[x] = IF x \in In(task.flush) THEN 0 ELSE 1
          BY <5>1 DEF EventsInv, PlacedInv, Held
        <5>3. QED
          BY <3>1, <4>2, <5>1, <5>2
      <4>3. QED
        BY <4>1, <4>2
    <3>5. Apart(task.buffer, task.flush)' /\ Apart(task.buffer, task.sink)'
          /\ Apart(task.flush, task.sink)'
      BY <2>14, <3>2 DEF Apart
    <3>6. Held' \subseteq DOMAIN sent'
      BY <2>11, <3>3 DEF EventsInv, PlacedInv, Held
    <3>7. PlacedInv'
      BY <2>14, <3>2, <3>3, <3>4, <3>5, <3>6 DEF PlacedInv
    <3>8. QED
      BY <2>13, <3>7 DEF EventsInv
  <2>17. QED
    BY <2>15, <2>16
<1>5. QED
  BY <1>3, <1>4

\* A new task holds nothing, and nothing of it was made.
Fresh(t) == /\ t \in Tasks /\ t.run \in Runs /\ t.text = << >>
            /\ t.buffer = << >> /\ t.flush = << >> /\ t.sink = << >>

LEMMA LaunchKeeps ==
    ASSUME EventsInv, tasks \in Nat, NEW t, Fresh(t), NEW s, NEW k, Launch(t, s, k)
    PROVE  EventsInv'
<1>1. /\ tasks * MaxTurns \in Nat /\ MaxParts \in Nat /\ Len(<< >>) = 0
  BY EventsAssumption
<1>2. "setup" \in DOMAIN DueAt
  BY Order
<1>3. /\ task' \in Tasks /\ task'.pc = "setup" /\ task'.run \in Runs /\ task'.text = << >>
      /\ task'.buffer = << >> /\ task'.flush = << >> /\ task'.sink = << >>
      /\ sent' = << >>
  BY <1>1, <1>2 DEF Launch, Fresh, Tasks
<1>4. DOMAIN sent' = {}
  BY <1>3
<1>5. MadeInv'
  BY <1>1, <1>3, <1>4 DEF MadeInv, Fits
<1>6. /\ In(task.buffer)' = {} /\ In(task.flush)' = {} /\ In(task.sink)' = {}
      /\ Once(task.buffer)' /\ Once(task.flush)' /\ Len(task.sink)' = 0 /\ Held' = {}
  BY <1>1, <1>3, InEmpty, HeldAfter
<1>7. PlacedInv'
  BY <1>3, <1>4, <1>6 DEF PlacedInv, Apart
<1>8. QED
  BY <1>5, <1>7 DEF EventsInv

\* Every step of the task.
LEMMA TaskStepKeeps ==
    ASSUME EventsInv, DiskTypeOK, TaskStep
    PROVE  EventsInv'
<1>1. CASE \/ RunStarted \/ TurnStarted \/ MessageCompleted \/ LedgerUpdated
           \/ TurnCompleted \/ TurnFailed \/ Asks \/ Answered \/ Completes \/ Fails
  BY <1>1, SayingKeeps
<1>2. CASE MessageStarted \/ MessageDelta
  BY <1>2, WritingKeeps
<1>3. CASE \/ Open \/ SetupFails \/ Pauses \/ Aborts \/ Vanished \/ PollFinds
           \/ PollGivesUp \/ PollReturns
  BY <1>3, SilenceKeeps
<1>4. CASE LedgerSaved \/ FlushNext \/ PollRefreshes \/ RoundComplete \/ TearsDown
  BY <1>4, LedgerSavedKeeps, FlushKeeps, TakenKeeps, EndKeeps
<1>5. QED
  BY <1>1, <1>2, <1>3, <1>4 DEF TaskStep

-----------------------------------------------------------------------------
(* The files, and every step *)

ConservedInv == EventsInv /\ DiskTypeOK /\ tasks \in Nat

LEMMA FilesKeep ==
    ASSUME DiskTypeOK
    PROVE  /\ \A r : \A status \in Written : [disk EXCEPT ![r].status = status] \in [Runs -> Files]
           /\ \A r : \A n \in Nat : [disk EXCEPT ![r].ledgers = @ \cup {n}] \in [Runs -> Files]
           /\ \A r : \A status \in Written, memory \in SUBSET Messages :
                [disk EXCEPT ![r].status = status,
                             ![r].msgs = IF memory = {} THEN @ ELSE memory] \in [Runs -> Files]
           /\ \A r : [disk EXCEPT ![r].fixed = TRUE] \in [Runs -> Files]
           /\ \A r : [disk EXCEPT ![r] = NoFiles] \in [Runs -> Files]
<1>1. \A r \in Runs : /\ disk[r] \in Files
                      /\ \A status \in Written : [disk[r] EXCEPT !.status = status] \in Files
                      /\ \A n \in Nat : [disk[r] EXCEPT !.ledgers = @ \cup {n}] \in Files
                      /\ [disk[r] EXCEPT !.fixed = TRUE] \in Files
  BY DEF DiskTypeOK, Files
<1>2. \A r \in Runs, status \in Written, memory \in SUBSET Messages :
        [disk[r] EXCEPT !.status = status,
                        !.msgs = IF memory = {} THEN @ ELSE memory] \in Files
  BY DEF DiskTypeOK, Files
<1>3. NoFiles \in Files
  BY DEF Files, NoFiles, Written
<1>4. \A r : \A status \in Written : [disk EXCEPT ![r].status = status] \in [Runs -> Files]
  BY <1>1 DEF DiskTypeOK
<1>5. \A r : \A n \in Nat : [disk EXCEPT ![r].ledgers = @ \cup {n}] \in [Runs -> Files]
  BY <1>1 DEF DiskTypeOK
<1>6. \A r : \A status \in Written, memory \in SUBSET Messages :
        [disk EXCEPT ![r].status = status,
                     ![r].msgs = IF memory = {} THEN @ ELSE memory] \in [Runs -> Files]
  BY <1>2 DEF DiskTypeOK
<1>7. \A r : [disk EXCEPT ![r].fixed = TRUE] \in [Runs -> Files]
  BY <1>1 DEF DiskTypeOK
<1>8. \A r : [disk EXCEPT ![r] = NoFiles] \in [Runs -> Files]
  BY <1>3 DEF DiskTypeOK
<1>9. QED
  BY <1>4, <1>5, <1>6, <1>7, <1>8

LEMMA TaskStepKeepsDisk ==
    ASSUME EventsInv, DiskTypeOK, TaskStep
    PROVE  DiskTypeOK'
<1>1. /\ task \in Tasks /\ task.memory \in SUBSET Messages /\ task.why \in Written
      /\ task.flush \in Seq(Events) /\ task.sink \in Seq(Events)
  BY DEF EventsInv, MadeInv, Fits, Tasks, Written
<1>2. CASE UNCHANGED disk
  BY <1>2 DEF DiskTypeOK
<1>3. CASE Open \/ Asks \/ Answered
  <2>1. PICK status \in Written : disk' = [disk EXCEPT ![task.run].status = status]
    BY <1>3 DEF Open, Asks, Answered, Written
  <2>2. QED
    BY <2>1, FilesKeep DEF DiskTypeOK
<1>4. CASE Completes \/ Fails
  <2>1. PICK status \in Written : disk' = Ended(status)
    <3>1. task.why \in Written /\ "completed" \in Written
      BY <1>1 DEF Written
    <3>2. QED
      BY <1>4, <3>1 DEF Completes, Fails
  <2>2. QED
    BY <1>1, <2>1, FilesKeep DEF DiskTypeOK, Ended
<1>5. CASE LedgerSaved
  <2>1. task.sink[1] \in Events
    BY <1>1, <1>5 DEF LedgerSaved
  <2>2. QED
    BY <1>5, <2>1, FilesKeep DEF DiskTypeOK, LedgerSaved, WithLedger, Events
<1>6. CASE FlushNext
  <2>1. Head(task.flush) \in Events
    BY <1>1, <1>6 DEF FlushNext
  <2>2. QED
    BY <1>6, <2>1, FilesKeep DEF DiskTypeOK, FlushNext, WithLedger, Events
<1>7. QED
  <2>1. TaskStep => \/ UNCHANGED disk \/ Open \/ Asks \/ Answered \/ Completes \/ Fails
                    \/ LedgerSaved \/ FlushNext
    BY DEF TaskStep, PollFinds, PollGivesUp, PollRefreshes, PollReturns, SetupFails,
       RunStarted, TurnStarted, MessageStarted, MessageDelta, MessageCompleted,
       LedgerUpdated, TurnCompleted, TurnFailed, Pauses, Aborts, Vanished,
       RoundComplete, TearsDown
  <2>2. QED
    BY <1>2, <1>3, <1>4, <1>5, <1>6, <2>1

LEMMA TaskStepKeepsCount == TaskStep => UNCHANGED tasks
BY DEF TaskStep, LedgerSaved, PollFinds, PollGivesUp, PollRefreshes, FlushNext, PollReturns,
   Open, SetupFails, RunStarted, TurnStarted, MessageStarted, MessageDelta,
   MessageCompleted, LedgerUpdated, TurnCompleted, TurnFailed, Asks, Pauses, Answered,
   Aborts, Completes, Fails, Vanished, RoundComplete, TearsDown, Says

\* A task that is started, anew, for a run that is continued or resumed.
LEMMA StartsKeep ==
    ASSUME ConservedInv, NEW r, Launches \/ ResumeRun(r)
    PROVE  ConservedInv'
<1>0. /\ MaxTurns \in Nat /\ "done" \in DOMAIN DueAt
      /\ << >> \in Seq(Events) /\ << >> \in Seq(Nat)
  BY EventsAssumption, Order
<1>1. UNCHANGED disk /\ tasks' = tasks + 1
  BY DEF Launches, ResumeRun, Launch
<1>2. Stored \subseteq Runs
  BY DEF Stored
<1>3. CASE Launches
  <2>1. PICK q \in Runs : Launch([NoTask EXCEPT !.run = q, !.before = Stored,
                                                !.call = "polling"],
                                 [Free EXCEPT !.status = "running"], cache)
    BY <1>3 DEF Launches
  <2>2. Fresh([NoTask EXCEPT !.run = q, !.before = Stored, !.call = "polling"])
    BY <1>0, <1>2 DEF Fresh, NoTask, Tasks, Calls, Ids
  <2>3. EventsInv'
    BY <2>1, <2>2, LaunchKeeps DEF ConservedInv
  <2>4. QED
    BY <1>1, <2>3 DEF ConservedInv, DiskTypeOK
<1>4. CASE ResumeRun(r)
  <2>1. r \in Runs /\ Launch([NoTask EXCEPT !.run = r, !.active = r],
                             [Free EXCEPT !.status = "running", !.run = r], Statuses)
    BY <1>2, <1>4 DEF ResumeRun
  <2>2. Fresh([NoTask EXCEPT !.run = r, !.active = r])
    BY <1>0, <2>1 DEF Fresh, NoTask, Tasks, Calls, Ids
  <2>3. EventsInv'
    BY <2>1, <2>2, LaunchKeeps DEF ConservedInv
  <2>4. QED
    BY <1>1, <2>3 DEF ConservedInv, DiskTypeOK
<1>5. QED
  BY <1>3, <1>4

\* What users do to the session changes a run's files at most.
LEMMA SessionKeeps ==
    ASSUME ConservedInv, NEW r,
           AbortRun(r) \/ Intervenes(r) \/ CompleteRun(r) \/ DeleteRun(r)
    PROVE  ConservedInv'
<1>1. UNCHANGED <<task, tasks, sent>>
  BY DEF AbortRun, Intervenes, CompleteRun, DeleteRun
<1>2. DiskTypeOK'
  <2>1. \/ UNCHANGED disk \/ disk' = [disk EXCEPT ![r].fixed = TRUE]
        \/ disk' = [disk EXCEPT ![r] = NoFiles]
    BY DEF AbortRun, Intervenes, CompleteRun, DeleteRun
  <2>2. CASE UNCHANGED disk
    BY <2>2 DEF ConservedInv, DiskTypeOK
  <2>3. CASE disk' = [disk EXCEPT ![r].fixed = TRUE]
    BY <2>3, FilesKeep DEF ConservedInv, DiskTypeOK
  <2>4. CASE disk' = [disk EXCEPT ![r] = NoFiles]
    BY <2>4, FilesKeep DEF ConservedInv, DiskTypeOK
  <2>5. QED
    BY <2>1, <2>2, <2>3, <2>4
<1>3. QED
  BY <1>1, <1>2, IdleKeeps DEF ConservedInv

LEMMA RestKeeps ==
    ASSUME ConservedInv, UNCHANGED <<task, disk, tasks, sent>>
    PROVE  ConservedInv'
BY IdleKeeps DEF ConservedInv, DiskTypeOK

LEMMA ConservedInit == Init => ConservedInv
<1> SUFFICES ASSUME Init PROVE ConservedInv
  OBVIOUS
<1>1. /\ task = NoTask /\ tasks = 0 /\ sent = << >>
      /\ << >> \in Seq(Events) /\ << >> \in Seq(Nat) /\ Len(<< >>) = 0 /\ DOMAIN sent = {}
      /\ MaxTurns \in Nat /\ MaxParts \in Nat
  BY EventsAssumption DEF Init, RunnerInit
<1>2. "done" \in DOMAIN DueAt
  BY Order
<1>3. MadeInv
  BY <1>1, <1>2 DEF MadeInv, Fits, Tasks, NoTask, Ids, Calls
<1>4. PlacedInv
  <2>1. task.buffer = << >> /\ task.flush = << >> /\ task.sink = << >>
    BY <1>1 DEF NoTask
  <2>2. Held = {}
    BY <2>1, InEmpty DEF Held
  <2>3. QED
    BY <1>1, <2>1, <2>2, InEmpty DEF PlacedInv, Apart
<1>5. DiskTypeOK
  <2>1. /\ NoFiles \in Files
        /\ [status |-> "completed", fixed |-> TRUE, ledgers |-> {0},
            msgs |-> {[id |-> 0, text |-> <<1>>]}] \in Files
    <3>1. [id |-> 0, text |-> <<1>>] \in Messages
      BY DEF Messages
    <3>2. QED
      BY <3>1 DEF NoFiles, Files, Written
  <2>2. QED
    BY <2>1 DEF DiskTypeOK, Init, RunnerInit
<1>6. QED
  BY <1>1, <1>3, <1>4, <1>5 DEF ConservedInv, EventsInv

LEMMA ConservedStep == ConservedInv /\ [Next]_vars => ConservedInv'
<1> SUFFICES ASSUME ConservedInv, [Next]_vars PROVE ConservedInv'
  OBVIOUS
<1>1. CASE TaskStep
  BY <1>1, TaskStepKeeps, TaskStepKeepsDisk, TaskStepKeepsCount DEF ConservedInv
<1>2. CASE TakesFrame \/ HistoryTimer \/ HistoryAnswer \/ StopsWaiting \/ StartAnswered
  BY <1>2, RestKeeps DEF TakesFrame, HistoryTimer, HistoryAnswer, StopsWaiting,
     StartAnswered, runner
<1>3. CASE UserStep
  <2>1. CASE Select
    BY <2>1, RestKeeps DEF Select, runner
  <2>2. CASE PressAbort \/ PressComplete \/ SendMessage \/ PressDelete
    BY <2>2, SessionKeeps DEF PressAbort, PressComplete, SendMessage, PressDelete
  <2>3. CASE PressResume \/ SendAfterRound
    BY <2>3, StartsKeep DEF PressResume, SendAfterRound, Continues
  <2>4. CASE PressStart
    <3>1. UNCHANGED runner \/ AbortRun(page.run)
      BY <2>4 DEF PressStart
    <3>2. QED
      BY <3>1, RestKeeps, SessionKeeps DEF runner
  <2>5. QED
    BY <1>3, <2>1, <2>2, <2>3, <2>4 DEF UserStep
<1>4. CASE Starts
  <2>1. UNCHANGED runner \/ StartRun
    BY <1>4 DEF Starts
  <2>2. QED
    BY <2>1, RestKeeps, StartsKeep DEF StartRun, runner
<1>5. CASE UNCHANGED vars
  BY <1>5, RestKeeps DEF vars, runner
<1>6. QED
  BY <1>1, <1>2, <1>3, <1>4, <1>5 DEF Next

\* Every event of a task was sent once and is held nowhere, or was not sent and
\* is held in one place, whatever a poll, a flush, a ledger's file or the end of
\* the task do (runsHandlers.ts, startRunInternal): the inductive invariant.
THEOREM EventsArePlaced == Spec => []ConservedInv
BY ConservedInit, ConservedStep, PTL DEF Spec

\* The search for the run's id, the flush and the end of the task neither lose
\* an event nor send it twice.
THEOREM EventsAreConserved == Spec => []EventsConserved
<1>1. ASSUME ConservedInv PROVE EventsConserved
  <2> DEFINE Number(s, e) == Cardinality({i \in DOMAIN s : s[i] = e})
  <2> SUFFICES ASSUME NEW e \in DOMAIN sent
               PROVE  sent[e] + (Number(task.buffer, e) + Number(task.flush, e)
                                   + Number(task.sink, e)) = 1
    BY DEF EventsConserved
  <2>1. /\ task.buffer \in Seq(Events) /\ task.flush \in Seq(Events)
        /\ task.sink \in Seq(Events) /\ Len(task.sink) <= 1
    BY <1>1 DEF ConservedInv, EventsInv, MadeInv, Fits, Tasks, PlacedInv
  <2>2. Once(task.buffer) /\ Once(task.flush) /\ Once(task.sink)
    BY <1>1, <2>1 DEF ConservedInv, EventsInv, PlacedInv, Once
  <2>3. /\ Number(task.buffer, e) = IF e \in In(task.buffer) THEN 1 ELSE 0
        /\ Number(task.flush, e) = IF e \in In(task.flush) THEN 1 ELSE 0
        /\ Number(task.sink, e) = IF e \in In(task.sink) THEN 1 ELSE 0
    BY <2>1, <2>2, HeldOnce
  <2> HIDE DEF Number
  <2>4. QED
    BY <1>1, <2>3 DEF ConservedInv, EventsInv, PlacedInv, Held, Apart
<1>2. QED
  BY <1>1, EventsArePlaced, PTL

-----------------------------------------------------------------------------
(* The messages on the page *)

\* All are of one run, and of the selected one unless they wait for the first
\* message that replaces them.
OneFeed(f, s) ==
    /\ {"msgs", "typing", "ledgers", "prompt", "clear", "got", "timer"} \subseteq DOMAIN f
    /\ f.clear \in BOOLEAN
    /\ \E S : f.msgs \in Seq(S)
    /\ \A i \in DOMAIN f.msgs :
         "run" \in DOMAIN f.msgs[i] /\ (~f.clear => f.msgs[i].run = s)
    /\ \A i, j \in DOMAIN f.msgs : f.msgs[i].run = f.msgs[j].run
    /\ s \in Ids /\ (s = NoRun => f.timer = "none")

\* The other state the messages depend on: the runs that can be selected, and
\* the messages a history can consist of.
NamesRun(f) == f.kind = "state_snapshot" => f.run \in Ids
WireOK == (\E S : wire \in Seq(S)) /\ \A f \in In(wire) : NamesRun(f)
SessionOK == /\ {"status", "run", "waiting"} \subseteq DOMAIN session
             /\ session.run \in Ids
FiniteInv == IsFiniteSet(task.memory) /\ \A r \in Runs : IsFiniteSet(disk[r].msgs)

RunnerInv == ConservedInv /\ WireOK /\ SessionOK /\ FiniteInv
PageInv == RunnerInv /\ OneFeed(feed, sel)

LEMMA AddsFrames ==
    ASSUME WireOK, NEW S, NEW fs \in Seq(S), \A f \in In(fs) : NamesRun(f),
           wire' = wire \o fs
    PROVE  WireOK'
<1>1. PICK T : wire \in Seq(T)
  BY DEF WireOK
<1>2. wire \in Seq(T \cup S) /\ fs \in Seq(T \cup S)
  BY <1>1
<1>3. wire' \in Seq(T \cup S) /\ In(wire') = In(wire) \cup In(fs)
  BY <1>2, InConcat
<1>4. \A f \in In(wire') : NamesRun(f)
  BY <1>3 DEF WireOK
<1>5. In(wire)' = In(wire')
  BY DEF In
<1>6. QED
  BY <1>3, <1>4, <1>5 DEF WireOK, NamesRun

LEMMA SendsOne ==
    ASSUME WireOK, NEW f, NamesRun(f), Sends(<<f>>)
    PROVE  WireOK'
<1>1. <<f>> \in Seq({f}) /\ In(<<f>>) = {f}
  BY InOne
<1>2. wire' = wire \o <<f>>
  BY DEF Sends
<1>3. QED
  BY <1>1, <1>2, AddsFrames

LEMMA Frames ==
    /\ \A s, c : s.run \in Ids => NamesRun(StateFrame(s, c))
    /\ \A r, e : NamesRun(EventFrame(r, e))
    /\ \A r : NamesRun(PromptFrame(r))
BY DEF NamesRun, StateFrame, EventFrame, PromptFrame

LEMMA SameWire == WireOK /\ UNCHANGED wire => WireOK'
BY DEF WireOK, In, NamesRun

\* An event changes no message the task has kept.
LEMMA EmitsOnly ==
    ASSUME WireOK, NEW e, NEW t, NEW m, t.memory = m,
           {"buffer", "sink", "memory"} \subseteq DOMAIN t, Emits(e, t)
    PROVE  WireOK' /\ task'.memory = m
<1>1. CASE UNCHANGED wire
  <2>1. \/ task' = t \/ task' = [t EXCEPT !.buffer = Append(@, e)]
        \/ task' = [t EXCEPT !.sink = <<e>>]
    BY DEF Emits
  <2>2. QED
    BY <1>1, <2>1, SameWire
<1>2. CASE task' = t /\ Sends(<<EventFrame(task.active, e)>>)
  BY <1>2, SendsOne, Frames
<1>3. QED
  BY <1>1, <1>2 DEF Emits
Keeps(t) == {"buffer", "sink", "memory"} \subseteq DOMAIN t /\ t.memory = task.memory

LEMMA GoesKeeps ==
    ASSUME task \in Tasks
    PROVE  /\ \A pc : Keeps(Goes(pc))
           /\ \A pc, left : Keeps([Goes(pc) EXCEPT !.left = left])
           /\ \A pc, why : Keeps([Goes(pc) EXCEPT !.why = why])
           /\ \A pc, msg, text : Keeps([Goes(pc) EXCEPT !.msg = msg, !.text = text])
           /\ \A text : Keeps([task EXCEPT !.text = text])
BY DEF Tasks, Keeps, Goes

\* The files of a run have the messages they had, or those of the task.
LEMMA DiskFinite ==
    ASSUME RunnerInv,
           \/ UNCHANGED disk
           \/ \E r, status : disk' = [disk EXCEPT ![r].status = status]
           \/ \E r, n : disk' = [disk EXCEPT ![r].ledgers = @ \cup {n}]
           \/ \E status : disk' = Ended(status)
           \/ \E r : disk' = [disk EXCEPT ![r].fixed = TRUE]
           \/ \E r : disk' = [disk EXCEPT ![r] = NoFiles]
    PROVE  \A r \in Runs : IsFiniteSet(disk'[r].msgs)
<1>1. /\ disk \in [Runs -> Files] /\ IsFiniteSet(task.memory) /\ IsFiniteSet({})
      /\ \A r \in Runs : IsFiniteSet(disk[r].msgs)
  BY FS_EmptySet DEF RunnerInv, ConservedInv, DiskTypeOK, FiniteInv
<1>2. SUFFICES ASSUME NEW r \in Runs
               PROVE  disk'[r].msgs \in {disk[r].msgs, task.memory, {}}
  BY <1>1
<1>3. disk[r] \in Files
  BY <1>1
<1>4. CASE UNCHANGED disk
  BY <1>4
<1>5. CASE \E q, status : disk' = [disk EXCEPT ![q].status = status]
  BY <1>1, <1>3, <1>5 DEF Files
<1>6. CASE \E q, n : disk' = [disk EXCEPT ![q].ledgers = @ \cup {n}]
  BY <1>1, <1>3, <1>6 DEF Files
<1>7. CASE \E status : disk' = Ended(status)
  BY <1>1, <1>3, <1>7, SMTT(30) DEF Files, Ended
<1>8. CASE \E q : disk' = [disk EXCEPT ![q].fixed = TRUE]
  BY <1>1, <1>3, <1>8 DEF Files
<1>9. CASE \E q : disk' = [disk EXCEPT ![q] = NoFiles]
  BY <1>1, <1>3, <1>9 DEF NoFiles
<1>10. QED
  BY <1>4, <1>5, <1>6, <1>7, <1>8, <1>9

FrontInv == WireOK /\ SessionOK /\ FiniteInv

LEMMA FrontOf ==
    ASSUME RunnerInv, WireOK', IsFiniteSet(task'.memory), SessionOK',
           \A r \in Runs : IsFiniteSet(disk'[r].msgs)
    PROVE  FrontInv'
BY DEF FrontInv, FiniteInv

LEMMA SameSession == SessionOK /\ UNCHANGED session => SessionOK'
BY DEF SessionOK

LEMMA SaysKeepFront ==
    ASSUME RunnerInv,
           \/ RunStarted \/ TurnStarted \/ MessageStarted \/ MessageDelta
           \/ MessageCompleted \/ LedgerUpdated \/ TurnCompleted \/ TurnFailed
           \/ Asks \/ Answered \/ Completes \/ Fails
    PROVE  FrontInv'
<1>0. task \in Tasks /\ WireOK /\ SessionOK /\ IsFiniteSet(task.memory)
  BY DEF RunnerInv, ConservedInv, EventsInv, MadeInv, Fits, FiniteInv
<1>1. UNCHANGED session
  BY DEF RunStarted, TurnStarted, MessageStarted, MessageDelta, MessageCompleted,
     LedgerUpdated, TurnCompleted, TurnFailed, Asks, Answered, Completes, Fails, Says
<1>2. \/ UNCHANGED disk
      \/ \E r, status : disk' = [disk EXCEPT ![r].status = status]
      \/ \E status : disk' = Ended(status)
  BY DEF RunStarted, TurnStarted, MessageStarted, MessageDelta, MessageCompleted,
     LedgerUpdated, TurnCompleted, TurnFailed, Asks, Answered, Completes, Fails
<1>3. ASSUME NEW e, NEW t, Keeps(t), Emits(e, t)
      PROVE  WireOK' /\ IsFiniteSet(task'.memory)
  BY <1>0, <1>3, EmitsOnly DEF Keeps
<1>4. CASE RunStarted \/ LedgerUpdated \/ TurnCompleted \/ Asks \/ Completes
  <2>1. \E e, pc : Emits(e, Goes(pc))
    BY <1>4 DEF RunStarted, LedgerUpdated, TurnCompleted, Asks, Completes, Says
  <2>2. QED
    BY <1>0, <1>1, <1>2, <1>3, <2>1, GoesKeeps, DiskFinite, SameSession, FrontOf
<1>5. CASE Answered \/ Fails
  <2>1. \E e, pc : Emits(e, Goes(pc))
    BY <1>5 DEF Answered, Fails, Says
  <2>2. QED
    BY <1>0, <1>1, <1>2, <1>3, <2>1, GoesKeeps, DiskFinite, SameSession, FrontOf
<1>6. CASE TurnStarted \/ TurnFailed
  <2>1. \/ \E e, pc, left : Emits(e, [Goes(pc) EXCEPT !.left = left])
        \/ \E e, pc, why : Emits(e, [Goes(pc) EXCEPT !.why = why])
    BY <1>6 DEF TurnStarted, TurnFailed, Says
  <2>2. QED
    BY <1>0, <1>1, <1>2, <1>3, <2>1, GoesKeeps, DiskFinite, SameSession, FrontOf
<1>7. CASE MessageStarted \/ MessageDelta
  <2>1. \/ \E e, pc, msg, text : Emits(e, [Goes(pc) EXCEPT !.msg = msg, !.text = text])
        \/ \E e, text : Emits(e, [task EXCEPT !.text = text])
    BY <1>7 DEF MessageStarted, MessageDelta
  <2>2. QED
    BY <1>0, <1>1, <1>2, <1>3, <2>1, GoesKeeps, DiskFinite, SameSession, FrontOf
<1>8. CASE MessageCompleted
  <2> DEFINE m == task.memory \cup {[id |-> task.msg, text |-> task.text]}
             t == [Goes("said") EXCEPT !.memory = m]
  <2>1. IsFiniteSet(m)
    BY <1>0, FS_AddElement
  <2>2. {"buffer", "sink", "memory"} \subseteq DOMAIN t /\ t.memory = m
    BY <1>0 DEF Goes, Tasks
  <2>3. Emits(Event("chat-message-completed"), t)
    BY <1>0, <1>8 DEF MessageCompleted, Says, Goes, Tasks
  <2> HIDE DEF t, m
  <2>4. WireOK' /\ task'.memory = m
    BY <1>0, <2>2, <2>3, EmitsOnly
  <2>5. QED
    BY <1>0, <1>1, <1>2, <2>1, <2>4, DiskFinite, SameSession, FrontOf
<1>9. QED
  BY <1>4, <1>5, <1>6, <1>7, <1>8
\* The task takes no messages along but those of its run's files.
LEMMA TaskMemory ==
    ASSUME RunnerInv,
           \/ LedgerSaved \/ PollFinds \/ PollGivesUp \/ PollRefreshes \/ FlushNext
           \/ PollReturns \/ Open \/ SetupFails \/ Pauses \/ Aborts \/ Vanished
           \/ RoundComplete \/ TearsDown
    PROVE  IsFiniteSet(task'.memory)
<1>1. /\ task \in Tasks /\ IsFiniteSet(task.memory)
      /\ \A r \in Runs : IsFiniteSet(disk[r].msgs)
  BY DEF RunnerInv, ConservedInv, EventsInv, MadeInv, Fits, FiniteInv
<1>2. CASE Open
  <2>1. task.run \in Runs /\ task' = [Goes("opened") EXCEPT !.memory = disk[task.run].msgs]
    BY <1>2 DEF Open, Works, RunnerInv, ConservedInv, EventsInv, MadeInv, Fits
  <2>2. task'.memory = disk[task.run].msgs
    BY <1>1, <2>1 DEF Goes, Tasks
  <2>3. QED
    BY <1>1, <2>1, <2>2
<1>3. CASE LedgerSaved \/ PollFinds \/ PollGivesUp \/ PollRefreshes \/ FlushNext \/ PollReturns
  <2>1. task'.memory = task.memory
    BY <1>1, <1>3 DEF Tasks, LedgerSaved, PollFinds, PollGivesUp, PollRefreshes, Taken,
       FlushNext, PollReturns
  <2>2. QED
    BY <1>1, <2>1
<1>4. CASE SetupFails \/ Pauses \/ Aborts \/ Vanished \/ RoundComplete \/ TearsDown
  <2>1. task'.memory = task.memory
    BY <1>1, <1>4 DEF Tasks, Goes, SetupFails, Pauses, Aborts, Vanished, RoundComplete,
       TearsDown
  <2>2. QED
    BY <1>1, <2>1
<1>5. QED
  BY <1>2, <1>3, <1>4

LEMMA SessionTyped ==
    ASSUME SessionOK
    PROVE  /\ {"status", "run", "waiting"} \subseteq DOMAIN Free /\ Free.run \in Ids
           /\ \A r \in Ids : \A status :
                LET t == [status |-> status, run |-> r, waiting |-> TRUE]
                IN  {"status", "run", "waiting"} \subseteq DOMAIN t /\ t.run \in Ids
           /\ \A r \in Ids : LET t == [session EXCEPT !.run = r]
                             IN  {"status", "run", "waiting"} \subseteq DOMAIN t /\ t.run \in Ids
           /\ \A status, waiting :
                LET t == [session EXCEPT !.status = status, !.waiting = waiting]
                IN  {"status", "run", "waiting"} \subseteq DOMAIN t /\ t.run \in Ids
BY DEF SessionOK, Free, Ids

LEMMA WorksKeepFront ==
    ASSUME RunnerInv,
           \/ LedgerSaved \/ PollFinds \/ PollGivesUp \/ PollRefreshes \/ FlushNext
           \/ PollReturns \/ Open \/ SetupFails \/ Pauses \/ Aborts \/ Vanished
           \/ RoundComplete \/ TearsDown
    PROVE  FrontInv'
<1>0. WireOK /\ SessionOK /\ task.run \in Ids /\ IsFiniteSet(task'.memory)
  BY TaskMemory DEF RunnerInv, ConservedInv, EventsInv, MadeInv, Fits, Tasks
<1>1. CASE LedgerSaved \/ FlushNext
  <2>1. UNCHANGED session /\ \E r, e : Sends(<<EventFrame(r, e)>>)
    BY <1>1 DEF LedgerSaved, FlushNext
  <2>2. UNCHANGED disk \/ \E r, n : disk' = [disk EXCEPT ![r].ledgers = @ \cup {n}]
    BY <1>1 DEF LedgerSaved, FlushNext, WithLedger
  <2>3. QED
    BY <1>0, <2>1, <2>2, SendsOne, Frames, DiskFinite, SameSession, FrontOf
<1>2. CASE PollFinds
  <2>1. \/ UNCHANGED session
        \/ \E r \in Runs : session' = [session EXCEPT !.run = r]
    BY <1>2 DEF PollFinds, Stored
  <2>2. SessionOK'
    BY <1>0, <2>1, SameSession, SessionTyped DEF SessionOK, Ids
  <2>3. UNCHANGED wire /\ UNCHANGED disk
    BY <1>2 DEF PollFinds
  <2>4. QED
    BY <1>0, <2>2, <2>3, SameWire, DiskFinite, FrontOf
<1>3. CASE PollGivesUp \/ PollReturns \/ Open \/ SetupFails \/ Aborts \/ Vanished
  <2>1. UNCHANGED session /\ UNCHANGED wire
        /\ (UNCHANGED disk \/ \E r, status : disk' = [disk EXCEPT ![r].status = status])
    BY <1>3 DEF PollGivesUp, PollReturns, Open, SetupFails, Aborts, Vanished
  <2>2. QED
    BY <1>0, <2>1, SameSession, SameWire, DiskFinite, FrontOf
<1>4. CASE PollRefreshes
  <2>1. UNCHANGED session /\ UNCHANGED disk /\ \E c : Sends(<<StateFrame(session, c)>>)
    BY <1>4 DEF PollRefreshes
  <2>2. QED
    BY <1>0, <2>1, SendsOne, Frames, SameSession, DiskFinite, FrontOf DEF SessionOK
<1>5. CASE Pauses
  <2> DEFINE s == [status |-> "paused", run |-> task.run, waiting |-> TRUE]
             fs == <<PromptFrame(task.run), StateFrame(s, cache)>>
  <2>1. session' = s /\ wire' = wire \o fs /\ UNCHANGED disk
    BY <1>5 DEF Pauses, Sends
  <2>2. SessionOK'
    BY <1>0, <2>1, SessionTyped DEF SessionOK
  <2>3. /\ fs \in Seq({PromptFrame(task.run), StateFrame(s, cache)})
        /\ In(fs) = {PromptFrame(task.run), StateFrame(s, cache)}
    BY InTwo
  <2>4. \A f \in In(fs) : NamesRun(f)
    BY <1>0, <2>3, Frames
  <2>5. WireOK'
    BY <1>0, <2>1, <2>3, <2>4, AddsFrames
  <2>6. QED
    BY <1>0, <2>1, <2>2, <2>5, DiskFinite, FrontOf
<1>6. CASE RoundComplete
  <2>1. \/ session' = Free
        \/ \E status, waiting :
             session' = [session EXCEPT !.status = status, !.waiting = waiting]
    BY <1>6 DEF RoundComplete
  <2>2. SessionOK'
    BY <1>0, <2>1, SessionTyped DEF SessionOK
  <2>3. UNCHANGED disk /\ \E s, c : s.run \in Ids /\ Sends(<<StateFrame(s, c)>>)
    BY <1>6, <2>2 DEF RoundComplete, SessionOK
  <2>4. QED
    BY <1>0, <2>2, <2>3, SendsOne, Frames, DiskFinite, FrontOf
<1>7. CASE TearsDown
  <2> DEFINE held == task.buffer \o Failure
             c == cache'
             first == <<StateFrame(Free, c)>>
             rest == [i \in DOMAIN held |-> EventFrame(task.active, held[i])]
  <2>1. session' = Free /\ UNCHANGED disk
        /\ (Sends(first) \/ Sends(first \o rest))
    BY <1>7 DEF TearsDown
  <2>2. SessionOK'
    BY <1>0, <2>1, SessionTyped DEF SessionOK
  <2>3. task.buffer \in Seq(Events) /\ Len(task.buffer) \in Nat
        /\ DOMAIN task.buffer = 1..Len(task.buffer)
    BY DEF RunnerInv, ConservedInv, EventsInv, MadeInv, Fits, Tasks
  <2>4. \E n \in Nat : DOMAIN held = 1..n
    <3>0. (\E e : Failure = <<e>>) \/ Failure = << >>
      BY DEF Failure
    <3>1. \E S : Failure \in Seq(S)
      <4>1. \A e : <<e>> \in Seq({e})
        OBVIOUS
      <4>2. << >> \in Seq({})
        OBVIOUS
      <4>3. QED
        BY <3>0, <4>1, <4>2
    <3>2. PICK S : Failure \in Seq(S)
      BY <3>1
    <3>3. task.buffer \in Seq(Events \cup S) /\ Failure \in Seq(Events \cup S)
      BY <2>3, <3>2
    <3>4. held \in Seq(Events \cup S)
      BY <3>3
    <3>5. QED
      BY <3>4
  <2> HIDE DEF held
  <2>5. \A i \in DOMAIN held : NamesRun(EventFrame(task.active, held[i]))
    BY Frames
  <2>6. /\ \E S : rest \in Seq(S)
        /\ \A f \in In(rest) : NamesRun(f)
    <3>1. rest \in Seq(In(rest))
      BY <2>4 DEF In
    <3>2. QED
      BY <2>5, <3>1 DEF In
  <2>7. NamesRun(StateFrame(Free, c)) /\ first \in Seq({StateFrame(Free, c)})
        /\ In(first) = {StateFrame(Free, c)}
    BY <1>0, SessionTyped, Frames, InOne
  <2> HIDE DEF first, rest, c
  <2>8. PICK S : rest \in Seq(S)
    BY <2>6
  <2>9. first \in Seq({StateFrame(Free, c)} \cup S) /\ rest \in Seq({StateFrame(Free, c)} \cup S)
    BY <2>7, <2>8
  <2>10. /\ first \o rest \in Seq({StateFrame(Free, c)} \cup S)
         /\ In(first \o rest) = In(first) \cup In(rest)
    BY <2>9, InConcat
  <2>11. \A f \in In(first) \cup In(rest) : NamesRun(f)
    BY <2>6, <2>7
  <2>12. WireOK'
    BY <1>0, <2>1, <2>9, <2>10, <2>11, AddsFrames DEF Sends
  <2>13. QED
    BY <1>0, <2>1, <2>2, <2>12, DiskFinite, FrontOf
<1>8. QED
  BY <1>1, <1>2, <1>3, <1>4, <1>5, <1>6, <1>7

\* A start, and what users do to the session.
LEMMA UsersKeepFront ==
    ASSUME RunnerInv, NEW r,
           \/ Launches \/ ResumeRun(r) \/ AbortRun(r) \/ Intervenes(r) \/ CompleteRun(r)
           \/ DeleteRun(r)
    PROVE  FrontInv'
<1>0. WireOK /\ SessionOK /\ IsFiniteSet(task.memory) /\ IsFiniteSet({})
  BY FS_EmptySet DEF RunnerInv, FiniteInv
<1>1. CASE Launches \/ ResumeRun(r)
  <2>2. SessionOK'
    <3>1. CASE Launches
      <4>1. session' = [Free EXCEPT !.status = "running"]
        BY <3>1 DEF Launches, Launch
      <4>2. QED
        BY <4>1 DEF SessionOK, Free, Ids
    <3>2. CASE ResumeRun(r)
      <4>1. r \in Ids /\ session' = [Free EXCEPT !.status = "running", !.run = r]
        BY <3>2 DEF ResumeRun, Launch, Stored, Ids
      <4>2. QED
        BY <4>1 DEF SessionOK, Free
    <3>3. QED
      BY <1>1, <3>1, <3>2
  <2>3. task'.memory = {}
    BY <1>1 DEF Launches, ResumeRun, Launch, NoTask
  <2>4. UNCHANGED disk /\ \E c : Sends(<<StateFrame(session', c)>>)
    BY <1>1 DEF Launches, ResumeRun, Launch
  <2>5. QED
    BY <1>0, <2>2, <2>3, <2>4, SendsOne, Frames, DiskFinite, FrontOf DEF SessionOK
<1>2. CASE AbortRun(r) \/ Intervenes(r)
  <2>1. \/ session' = Free
        \/ \E status, waiting :
             session' = [session EXCEPT !.status = status, !.waiting = waiting]
    BY <1>2 DEF AbortRun, Intervenes
  <2>2. SessionOK'
    BY <1>0, <2>1, SessionTyped DEF SessionOK
  <2>3. UNCHANGED disk /\ UNCHANGED task /\ Sends(<<StateFrame(session', cache)>>)
    BY <1>2 DEF AbortRun, Intervenes
  <2>4. QED
    BY <1>0, <2>2, <2>3, SendsOne, Frames, DiskFinite, FrontOf DEF SessionOK
<1>3. CASE CompleteRun(r) \/ DeleteRun(r)
  <2>1. session' \in {session, Free}
    BY <1>3 DEF CompleteRun, DeleteRun
  <2>2. SessionOK'
    BY <1>0, <2>1, SameSession, SessionTyped DEF SessionOK
  <2>3. /\ \/ \E q : disk' = [disk EXCEPT ![q].fixed = TRUE]
           \/ \E q : disk' = [disk EXCEPT ![q] = NoFiles]
        /\ UNCHANGED task /\ \E c : Sends(<<StateFrame(session', c)>>)
    BY <1>3 DEF CompleteRun, DeleteRun
  <2>4. QED
    BY <1>0, <2>2, <2>3, SendsOne, Frames, DiskFinite, FrontOf DEF SessionOK
<1>4. QED
  BY <1>1, <1>2, <1>3
\* An event leaves the messages of whose run they are; a message that starts is
\* of the event's run.
LEMMA AppliedRuns ==
    ASSUME NEW S, NEW msgs \in Seq(S), \A i \in DOMAIN msgs : "run" \in DOMAIN msgs[i],
           NEW r, NEW e
    PROVE  /\ \E T : Applied(msgs, r, e) \in Seq(T)
           /\ \A i \in DOMAIN Applied(msgs, r, e) :
                /\ "run" \in DOMAIN Applied(msgs, r, e)[i]
                /\ \/ i \in DOMAIN msgs /\ Applied(msgs, r, e)[i].run = msgs[i].run
                   \/ e.type = "chat-message-started" /\ Applied(msgs, r, e)[i].run = r
<1> DEFINE u == Applied(msgs, r, e)
<1>1. Len(msgs) \in Nat /\ DOMAIN msgs = 1..Len(msgs)
  OBVIOUS
<1>2. CASE e.type = "chat-message-started"
  <2> DEFINE m == [run |-> r, id |-> e.msg, text |-> << >>, done |-> FALSE]
  <2>1. "run" \in DOMAIN m /\ m.run = r
    OBVIOUS
  <2>2. u \in {msgs, Append(msgs, m)}
    BY <1>2 DEF Applied
  <2> HIDE DEF m, u
  <2>3. CASE u = msgs
    BY <2>3 DEF u
  <2>4. CASE u = Append(msgs, m)
    <3>1. msgs \in Seq(S \cup {m})
      OBVIOUS
    <3>2. /\ u \in Seq(S \cup {m}) /\ DOMAIN u = 1..(Len(msgs) + 1)
          /\ u[Len(msgs) + 1] = m /\ \A i \in 1..Len(msgs) : u[i] = msgs[i]
      BY <1>1, <2>4, <3>1
    <3>3. QED
      BY <1>1, <1>2, <2>1, <3>2 DEF u
  <2>5. QED
    BY <2>2, <2>3, <2>4
<1>3. CASE e.type # "chat-message-started"
  <2>1. /\ DOMAIN u = 1..Len(msgs)
        /\ \A i \in 1..Len(msgs) : "run" \in DOMAIN u[i] /\ u[i].run = msgs[i].run
    <3>1. CASE e.type = "chat-message-delta"
      BY <1>1, <3>1 DEF Applied
    <3>2. CASE e.type = "chat-message-completed"
      BY <1>1, <3>2 DEF Applied
    <3>3. CASE e.type \notin {"chat-message-delta", "chat-message-completed"}
      BY <1>1, <1>3, <3>3 DEF Applied
    <3>4. QED
      BY <3>1, <3>2, <3>3
  <2>2. \E T : u \in Seq(T)
    <3>1. CASE e.type = "chat-message-delta"
      <4> DEFINE G(i) == IF msgs[i].id = e.msg
                         THEN [msgs[i] EXCEPT !.text = Append(@, e.part)] ELSE msgs[i]
      <4>1. u = [i \in 1..Len(msgs) |-> G(i)]
        BY <1>1, <3>1 DEF Applied
      <4> HIDE DEF G, u
      <4>2. u \in Seq({G(i) : i \in 1..Len(msgs)})
        BY <1>1, <4>1
      <4>3. QED
        BY <4>2
    <3>2. CASE e.type = "chat-message-completed"
      <4> DEFINE G(i) == IF msgs[i].id = e.msg
                         THEN [msgs[i] EXCEPT !.done = TRUE] ELSE msgs[i]
      <4>1. u = [i \in 1..Len(msgs) |-> G(i)]
        BY <1>1, <3>2 DEF Applied
      <4> HIDE DEF G, u
      <4>2. u \in Seq({G(i) : i \in 1..Len(msgs)})
        BY <1>1, <4>1
      <4>3. QED
        BY <4>2
    <3>3. CASE e.type \notin {"chat-message-delta", "chat-message-completed"}
      <4>1. u = msgs
        BY <1>3, <3>3 DEF Applied
      <4>2. QED
        BY <4>1
    <3>4. QED
      BY <3>1, <3>2, <3>3
  <2> HIDE DEF u
  <2>3. QED
    BY <1>1, <2>1, <2>2 DEF u
<1>4. QED
  BY <1>2, <1>3

\* An event of the selected run.
LEMMA EventShown ==
    ASSUME NEW f, NEW s, OneFeed(f, s), NEW e
    PROVE  OneFeed(FeedTakes(f, s, e), s)
<1> DEFINE old == Cleared(f, e)
           new == Applied(old, s, e)
           h == FeedTakes(f, s, e)
<1>1. PICK S : f.msgs \in Seq(S)
  BY DEF OneFeed
<1>2. /\ old \in Seq(S) /\ \A i \in DOMAIN old : "run" \in DOMAIN old[i]
      /\ f.clear /\ e.type = "chat-message-started" => old = << >>
      /\ ~(f.clear /\ e.type = "chat-message-started") => old = f.msgs
  <2>1. << >> \in Seq(S) /\ DOMAIN << >> = {}
    OBVIOUS
  <2>2. QED
    BY <1>1, <2>1 DEF OneFeed, Cleared
<1> HIDE DEF old
<1>3. /\ \E T : new \in Seq(T)
      /\ \A i \in DOMAIN new :
           /\ "run" \in DOMAIN new[i]
           /\ \/ i \in DOMAIN old /\ new[i].run = old[i].run
              \/ e.type = "chat-message-started" /\ new[i].run = s
  BY <1>2, AppliedRuns
<1> HIDE DEF new
<1>4. /\ {"msgs", "typing", "ledgers", "prompt", "clear", "got", "timer"} \subseteq DOMAIN h
      /\ h.timer = f.timer
      /\ \/ h.msgs = f.msgs /\ h.clear = f.clear
         \/ h.msgs = new /\ h.clear = (f.clear /\ e.type # "chat-message-started")
  BY DEF OneFeed, FeedTakes, new, old
<1> HIDE DEF h
<1>5. CASE h.msgs = f.msgs /\ h.clear = f.clear
  BY <1>4, <1>5 DEF OneFeed, h
<1>6. CASE h.msgs = new /\ h.clear = (f.clear /\ e.type # "chat-message-started")
  <2>1. CASE f.clear /\ e.type = "chat-message-started"
    <3>1. \A i \in DOMAIN new : new[i].run = s
      BY <1>2, <1>3, <2>1
    <3>2. QED
      BY <1>3, <1>4, <1>6, <3>1 DEF OneFeed, h
  <2>2. CASE f.clear /\ e.type # "chat-message-started"
    <3>1. h.clear
      BY <1>6, <2>2
    <3>2. \A i \in DOMAIN new : i \in DOMAIN f.msgs /\ new[i].run = f.msgs[i].run
      BY <1>2, <1>3, <2>2
    <3>3. \A i, j \in DOMAIN new : new[i].run = new[j].run
      BY <3>2 DEF OneFeed
    <3>4. QED
      BY <1>3, <1>4, <1>6, <3>1, <3>3 DEF OneFeed, h
  <2>3. CASE ~f.clear
    <3>1. \A i \in DOMAIN new : new[i].run = s
      BY <1>2, <1>3, <2>3 DEF OneFeed
    <3>2. h.clear = FALSE
      BY <1>6, <2>3 DEF OneFeed
    <3>3. QED
      BY <1>3, <1>4, <1>6, <3>1, <3>2 DEF OneFeed, h
  <2>4. QED
    BY <2>1, <2>2, <2>3 DEF OneFeed
<1>7. QED
  BY <1>4, <1>5, <1>6

\* Another selection keeps the messages only to clear them.
LEMMA RekeyedShown ==
    ASSUME NEW f, NEW s, OneFeed(f, s), NEW r \in Ids
    PROVE  OneFeed(Rekeyed(f, r), r)
<1>1. CASE r = NoRun
  <2>1. NoFeed.msgs = << >> /\ << >> \in Seq({}) /\ DOMAIN << >> = {}
    BY DEF NoFeed
  <2>2. QED
    BY <1>1, <2>1 DEF OneFeed, Rekeyed, NoFeed
<1>2. CASE r # NoRun
  <2> DEFINE g == [NoFeed EXCEPT !.msgs = f.msgs, !.timer = "armed"]
  <2>1. /\ {"msgs", "typing", "ledgers", "prompt", "clear", "got", "timer"} \subseteq DOMAIN g
        /\ g.msgs = f.msgs /\ g.clear = TRUE
    BY DEF NoFeed
  <2>2. Rekeyed(f, r) = g
    BY <1>2 DEF Rekeyed
  <2> HIDE DEF g
  <2>3. QED
    BY <1>2, <2>1, <2>2 DEF OneFeed
<1>3. QED
  BY <1>1, <1>2

LEMMA SelectionShown ==
    ASSUME OneFeed(feed, sel), NEW r \in Ids, NEW c, NEW d, sel' = r,
           feed' = IF Key(r, c) # Key(sel, d) THEN Rekeyed(feed, r) ELSE feed
    PROVE  OneFeed(feed', sel')
<1>1. CASE Key(r, c) # Key(sel, d)
  BY <1>1, RekeyedShown
<1>2. CASE Key(r, c) = Key(sel, d)
  <2>1. r = sel
    BY <1>2 DEF Key
  <2>2. QED
    BY <1>2, <2>1
<1>3. QED
  BY <1>1, <1>2

\* The stored messages of a run.
LEMMA LoadedRuns ==
    ASSUME NEW r \in Runs, IsFiniteSet(disk[r].msgs)
    PROVE  /\ \E S : Loaded(r) \in Seq(S)
           /\ \A i \in DOMAIN Loaded(r) :
                "run" \in DOMAIN Loaded(r)[i] /\ Loaded(r)[i].run = r
<1> DEFINE M == disk[r].msgs
           ids == {m.id : m \in M}
           Item(i) == [run |-> r, id |-> InOrder(ids)[i],
                       text |-> (CHOOSE m \in M : m.id = InOrder(ids)[i]).text,
                       done |-> TRUE]
<1>1. Cardinality(ids) \in Nat
  <2>1. IsFiniteSet(ids)
    <3> DEFINE g == [m \in M |-> m.id]
    <3>1. g \in Surjection(M, ids)
      BY DEF Surjection
    <3>2. QED
      BY <3>1, FS_Surjection
  <2>2. QED
    BY <2>1, FS_CardinalityType
<1>2. Loaded(r) = [i \in 1..Cardinality(ids) |-> Item(i)]
  BY DEF Loaded
<1>3. \A i : "run" \in DOMAIN Item(i) /\ Item(i).run = r
  OBVIOUS
<1> HIDE DEF ids, Item
<1>4. Loaded(r) \in Seq({Item(i) : i \in 1..Cardinality(ids)})
  BY <1>1, <1>2
<1>5. QED
  BY <1>1, <1>2, <1>3, <1>4
-----------------------------------------------------------------------------
(* Every step of the page *)

LEMMA FrameShown ==
    ASSUME PageInv, TakesFrame
    PROVE  PageInv'
<1> DEFINE f == Head(wire)
<1>0. OneFeed(feed, sel)
  BY DEF PageInv
<1>1. /\ UNCHANGED <<session, task, disk, cache, tasks, sent>>
      /\ wire # << >> /\ wire' = Tail(wire)
      /\ CASE f.kind = "state_snapshot" -> TakesState(f)
           [] f.kind = "run_event" -> TakesEvent(f)
           [] OTHER -> TakesPrompt(f)
  BY DEF TakesFrame
<1>2. PICK S : wire \in Seq(S)
  BY DEF PageInv, RunnerInv, WireOK
<1>3. /\ Tail(wire) \in Seq(S) /\ f \in In(wire) /\ In(Tail(wire)) \subseteq In(wire)
  BY <1>1, <1>2 DEF In
<1>4. NamesRun(f)
  BY <1>3 DEF PageInv, RunnerInv, WireOK
<1> HIDE DEF f
<1>5. RunnerInv'
  <2>1. ConservedInv'
    BY <1>1, RestKeeps DEF PageInv, RunnerInv
  <2>2. In(wire)' = In(Tail(wire))
    BY <1>1 DEF In
  <2>3. WireOK'
    BY <1>1, <1>3, <2>2 DEF PageInv, RunnerInv, WireOK, NamesRun
  <2>4. SessionOK' /\ FiniteInv'
    BY <1>1 DEF PageInv, RunnerInv, SessionOK, FiniteInv
  <2>5. QED
    BY <2>1, <2>3, <2>4 DEF RunnerInv
<1>6. OneFeed(feed', sel')
  <2>1. CASE f.kind = "state_snapshot"
    <3>1. TakesState(f) /\ f.run \in Ids
      BY <1>1, <1>4, <2>1 DEF NamesRun
    <3>2. sel' \in Ids
      BY <1>0, <3>1 DEF TakesState, OneFeed
    <3>3. PICK r \in Ids : r = sel'
      BY <3>2
    <3>4. feed' = IF Key(r, f.cache) # Key(sel, page.cache) THEN Rekeyed(feed, r) ELSE feed
      BY <3>1, <3>3 DEF TakesState
    <3>5. QED
      BY <1>0, <3>3, <3>4, SelectionShown
  <2>2. CASE f.kind = "run_event"
    <3>1. sel' = sel /\ feed' \in {feed, FeedTakes(feed, sel, f.event)}
      BY <1>1, <2>2 DEF TakesEvent
    <3>2. QED
      BY <1>0, <3>1, EventShown
  <2>3. CASE f.kind \notin {"state_snapshot", "run_event"}
    <3>1. sel' = sel /\ feed' \in {feed, [feed EXCEPT !.prompt = TRUE]}
      BY <1>1, <2>3 DEF TakesPrompt
    <3>2. QED
      BY <1>0, <3>1 DEF OneFeed
  <2>4. QED
    BY <2>1, <2>2, <2>3
<1>7. QED
  BY <1>5, <1>6 DEF PageInv, OneFeed

LEMMA HistoryShown ==
    ASSUME PageInv, HistoryTimer \/ HistoryAnswer
    PROVE  PageInv'
<1>0. OneFeed(feed, sel)
  BY DEF PageInv
<1>1. UNCHANGED <<session, task, disk, cache, wire, tasks, sent>> /\ sel' = sel
  BY DEF HistoryTimer, HistoryAnswer, runner
<1>2. ASSUME HistoryTimer PROVE OneFeed(feed', sel')
  <2>1. feed.timer = "armed" /\ \E timer : feed' = [feed EXCEPT !.timer = timer]
    BY <1>2 DEF HistoryTimer
  <2>2. sel # NoRun
    BY <1>0, <2>1 DEF OneFeed
  <2>3. QED
    BY <1>0, <1>1, <2>1, <2>2 DEF OneFeed
<1>3. ASSUME HistoryAnswer PROVE OneFeed(feed', sel')
  <2>1. sel \in Runs /\ IsFiniteSet(disk[sel].msgs)
    BY <1>0, <1>3 DEF HistoryAnswer, OneFeed, Ids, PageInv, RunnerInv, FiniteInv
  <2>2. /\ {"msgs", "typing", "ledgers", "prompt", "clear", "got", "timer"} \subseteq DOMAIN feed'
        /\ disk[sel].msgs = {} => feed'.msgs = feed.msgs /\ feed'.clear = feed.clear
        /\ disk[sel].msgs # {} => feed'.msgs = Loaded(sel) /\ feed'.clear = FALSE
    BY <1>0, <1>3 DEF HistoryAnswer, OneFeed
  <2>3. CASE disk[sel].msgs = {}
    BY <1>0, <1>1, <2>1, <2>2, <2>3, ViewAssumption, EventsAssumption DEF OneFeed
  <2>4. CASE disk[sel].msgs # {}
    <3>1. /\ \E S : Loaded(sel) \in Seq(S)
          /\ \A i \in DOMAIN Loaded(sel) :
               "run" \in DOMAIN Loaded(sel)[i] /\ Loaded(sel)[i].run = sel
      BY <2>1, LoadedRuns
    <3>2. QED
      BY <1>0, <1>1, <2>1, <2>2, <2>4, <3>1, EventsAssumption DEF OneFeed
  <2>5. QED
    BY <2>3, <2>4
<1>4. RunnerInv'
  BY <1>1, RestKeeps, SameWire, SameSession DEF PageInv, RunnerInv, FiniteInv
<1>5. OneFeed(feed', sel')
  BY <1>2, <1>3
<1>6. QED
  BY <1>4, <1>5 DEF PageInv, OneFeed
\* A step of the runner, and at most another selection.
LEMMA RunnerStep ==
    ASSUME PageInv, NEW r,
           \/ UNCHANGED runner \/ TaskStep \/ Launches \/ ResumeRun(r) \/ AbortRun(r)
           \/ Intervenes(r) \/ CompleteRun(r) \/ DeleteRun(r)
    PROVE  RunnerInv'
<1>1. ConservedInv /\ EventsInv /\ DiskTypeOK /\ tasks \in Nat /\ RunnerInv
  BY DEF PageInv, RunnerInv, ConservedInv
<1>2. CASE UNCHANGED runner
  BY <1>1, <1>2, RestKeeps, SameWire, SameSession DEF RunnerInv, FiniteInv, runner
<1>3. CASE TaskStep
  <2>1. ConservedInv'
    BY <1>1, <1>3, TaskStepKeeps, TaskStepKeepsDisk, TaskStepKeepsCount DEF ConservedInv
  <2>2. FrontInv'
    BY <1>1, <1>3, SaysKeepFront, WorksKeepFront DEF TaskStep
  <2>3. QED
    BY <2>1, <2>2 DEF RunnerInv, FrontInv
<1>4. CASE Launches \/ ResumeRun(r)
  BY <1>1, <1>4, StartsKeep, UsersKeepFront DEF RunnerInv, FrontInv
<1>5. CASE AbortRun(r) \/ Intervenes(r) \/ CompleteRun(r) \/ DeleteRun(r)
  BY <1>1, <1>5, SessionKeeps, UsersKeepFront DEF RunnerInv, FrontInv
<1>6. QED
  BY <1>2, <1>3, <1>4, <1>5

LEMMA SamePage ==
    ASSUME PageInv, RunnerInv', UNCHANGED <<sel, feed>>
    PROVE  PageInv'
BY DEF PageInv, OneFeed

LEMMA OtherPage ==
    ASSUME PageInv, RunnerInv', NEW r \in Ids, Selects(r)
    PROVE  PageInv'
<1>1. OneFeed(feed', sel')
  BY SelectionShown DEF PageInv, Selects
<1>2. QED
  BY <1>1 DEF PageInv, OneFeed

LEMMA UserShown ==
    ASSUME PageInv, UserStep
    PROVE  PageInv'
<1>1. CASE Select
  <2>1. UNCHANGED runner /\ \E r \in Ids : Selects(r)
    BY <1>1 DEF Select, Ids
  <2>2. QED
    BY <2>1, RunnerStep, OtherPage
<1>2. CASE PressAbort \/ PressResume \/ PressComplete \/ SendMessage
  BY <1>2, RunnerStep, SamePage
     DEF PressAbort, PressResume, PressComplete, SendMessage, Presses
<1>3. CASE SendAfterRound
  BY <1>3, RunnerStep, SamePage DEF SendAfterRound, Continues
<1>4. CASE PressDelete
  <2>1. PICK r \in Runs : DeleteRun(r) /\ Selects(IF sel = r THEN NoRun ELSE sel)
    BY <1>4 DEF PressDelete
  <2>2. (IF sel = r THEN NoRun ELSE sel) \in Ids
    BY DEF PageInv, OneFeed, Ids
  <2>3. QED
    BY <2>1, <2>2, RunnerStep, OtherPage
<1>5. CASE PressStart
  <2>1. (UNCHANGED runner \/ AbortRun(page.run)) /\ UNCHANGED <<sel, feed>>
    BY <1>5 DEF PressStart
  <2>2. QED
    BY <2>1, RunnerStep, SamePage
<1>6. QED
  BY <1>1, <1>2, <1>3, <1>4, <1>5 DEF UserStep

LEMMA PageInit == Init => PageInv
<1> SUFFICES ASSUME Init PROVE PageInv
  OBVIOUS
<1>1. ConservedInv
  BY ConservedInit
<1>2. WireOK
  <2>1. wire = << >> /\ << >> \in Seq({})
    BY DEF Init, RunnerInit
  <2>2. QED
    BY <2>1, InEmpty DEF WireOK
<1>3. SessionOK
  BY DEF Init, RunnerInit, SessionOK, Free, Ids
<1>4. FiniteInv
  <2>1. task.memory = {}
    BY DEF Init, RunnerInit, NoTask
  <2>2. \A r \in Runs : disk[r].msgs \in {{}, {[id |-> 0, text |-> <<1>>]}}
    BY DEF Init, RunnerInit, NoFiles
  <2>3. IsFiniteSet({}) /\ IsFiniteSet({[id |-> 0, text |-> <<1>>]})
    BY FS_EmptySet, FS_Singleton
  <2>4. QED
    BY <2>1, <2>2, <2>3 DEF FiniteInv
<1>5. OneFeed(feed, sel)
  <2>1. sel \in Ids /\ feed = Rekeyed(NoFeed, sel)
    BY DEF Init, ViewInit, Stored, Ids
  <2>2. OneFeed(NoFeed, NoRun)
    <3>1. NoFeed.msgs = << >> /\ << >> \in Seq({}) /\ DOMAIN << >> = {}
      BY DEF NoFeed
    <3>2. QED
      BY <3>1 DEF OneFeed, NoFeed, Ids
  <2>3. QED
    BY <2>1, <2>2, RekeyedShown
<1>6. QED
  BY <1>1, <1>2, <1>3, <1>4, <1>5 DEF PageInv, RunnerInv

LEMMA PageStep == PageInv /\ [Next]_vars => PageInv'
<1> SUFFICES ASSUME PageInv, [Next]_vars PROVE PageInv'
  OBVIOUS
<1>1. CASE TaskStep /\ UNCHANGED view
  BY <1>1, RunnerStep, SamePage DEF view
<1>2. CASE TakesFrame \/ HistoryTimer \/ HistoryAnswer
  BY <1>2, FrameShown, HistoryShown
<1>3. CASE UserStep
  BY <1>3, UserShown
<1>4. CASE StopsWaiting
  BY <1>4, RunnerStep, SamePage DEF StopsWaiting
<1>5. CASE Starts
  <2>1. (UNCHANGED runner \/ Launches) /\ UNCHANGED <<sel, feed>>
    BY <1>5 DEF Starts, StartRun
  <2>2. QED
    BY <2>1, RunnerStep, SamePage
<1>6. CASE StartAnswered
  <2>1. task.active \in Ids
    BY DEF PageInv, RunnerInv, ConservedInv, EventsInv, MadeInv, Fits, Tasks
  <2>2. UNCHANGED runner /\ (Selects(task.active) \/ UNCHANGED <<sel, feed>>)
    BY <1>6 DEF StartAnswered
  <2>3. RunnerInv'
    BY <2>2, RunnerStep
  <2>4. QED
    BY <2>1, <2>2, <2>3, SamePage, OtherPage
<1>7. CASE UNCHANGED vars
  BY <1>7, RunnerStep, SamePage DEF vars, view
<1>8. QED
  BY <1>1, <1>2, <1>3, <1>4, <1>5, <1>6, <1>7 DEF Next

\* Whatever is selected, started, deleted or loaded while frames are on their
\* way, the messages on the page are of one run (RunsPage.tsx, RunFeed): the
\* selected one's, once the page has taken a message or a history of it.
THEOREM PageIsSound == Spec => []PageInv
BY PageInit, PageStep, PTL DEF Spec

\* The messages on the page are those of one run, whatever was selected while
\* frames and a history were on their way (RunFeed, onGetRunMessages).
THEOREM OneRunIsShown == Spec => []OneRunShown
<1>1. PageInv => OneRunShown
  BY DEF PageInv, OneFeed, OneRunShown
<1>2. QED
  BY <1>1, PageIsSound, PTL
-----------------------------------------------------------------------------
(* The page of a session at rest *)

\* A task is awaited only while the session is paused for it, and an idle
\* session has none.
SlotInv ==
    /\ session.waiting => /\ session.status = "paused" /\ task.pc = "wait"
                          /\ session.run = task.run /\ session.run \in Runs
    /\ task.pc # "done" => /\ session.status # "idle"
                           /\ session.status = "paused" => session.waiting
    /\ task.pc \in {"pausing", "wait"} =>
         disk[task.run].status \in {"awaiting-user-input", "absent"}
    /\ task.pc = "wait" => task.sink = << >>
    /\ task.pc = "done" => cache = Statuses

\* The id that is found is the task's: no other record appears while it is
\* looked for.
AdoptInv ==
    /\ task.call = "polling" => task.active = NoRun /\ Stored \ task.before \subseteq {task.run}
    /\ task.call \in {"adopted", "flushing"} => task.active = task.run

\* The last of the held events of a task that waits is the one that says so.
SaysWaiting(e) == e.type = "awaiting-user-input"
EndsWaiting(s) == s # << >> /\ SaysWaiting(s[Len(s)])
HeldInv ==
    task.pc \in {"pausing", "wait"} =>
       /\ task.call \in {"polling", "adopted"} => EndsWaiting(task.buffer)
       /\ task.call = "flushing" => task.flush = << >> \/ EndsWaiting(task.flush)

\* The newest snapshot, under way on w or taken as p, tells of the session s
\* and the records c; of a run's id it may not know while the refresh is due.
IsState(f) == f.kind = "state_snapshot"
Tells(x, s, c, call) ==
    /\ x.status = s.status /\ x.cache = c
    /\ x.run = s.run \/ (call = "adopted" /\ x.run = NoRun)
Newest(w, p, s, c, call) ==
    \E i \in 0..Len(w) :
      /\ IF i = 0 THEN Tells(p, s, c, call) ELSE IsState(w[i]) /\ Tells(w[i], s, c, call)
      /\ \A k \in (i + 1)..Len(w) : ~IsState(w[k])
SnapInv == Newest(wire, page, session, cache, task.call)

\* From frame j on the page knows that run r is paused; from frame k on, which
\* tells it so too, it shows r as waiting.
OfPause(x, r) == x.status = "paused" /\ x.run = r
Knows(w, p, r, j) ==
    /\ IF j = 0 THEN OfPause(p, r) ELSE IsState(w[j]) /\ OfPause(w[j], r)
    /\ \A i \in (j + 1)..Len(w) : IsState(w[i]) => OfPause(w[i], r)
OfRun(f, r) == f.kind = "run_event" /\ f.run = r
Marks(w, p, v, r, j, k) ==
    /\ k = 0 => v = "waiting"
    /\ k > j => OfRun(w[k], r) /\ SaysWaiting(w[k].event)
    /\ k = j /\ k = 1 => ~OfPause(p, r) \/ v = "waiting"
    /\ k = j /\ k > 1 => w[k - 1] = PromptFrame(r)
    /\ \A i \in (k + 1)..Len(w) : ~OfRun(w[i], r)
Aware(w, p, r) == \E j \in 0..Len(w) : Knows(w, p, r, j)
Shows(w, p, v, r) ==
    \E j \in 0..Len(w) : \E k \in j..Len(w) : Knows(w, p, r, j) /\ Marks(w, p, v, r, j, k)
Flushing == task.call = "flushing" /\ task.flush # << >>
WaitInv ==
    session.waiting =>
      \/ Flushing /\ Aware(wire, page, session.run)
      \/ Shows(wire, page, vis, session.run)

IdleInv == page.status = "idle" => vis = "none"

QuietInv == SlotInv /\ AdoptInv /\ HeldInv /\ SnapInv /\ WaitInv /\ IdleInv

LEMMA Joined ==
    ASSUME NEW S, NEW w \in Seq(S), NEW T, NEW fs \in Seq(T)
    PROVE  /\ w \o fs \in Seq(S \cup T) /\ Len(w) \in Nat /\ Len(fs) \in Nat
           /\ Len(w \o fs) = Len(w) + Len(fs)
           /\ \A i \in 1..Len(w) : (w \o fs)[i] = w[i]
           /\ \A i \in 1..Len(fs) : (w \o fs)[Len(w) + i] = fs[i]
<1>1. w \in Seq(S \cup T) /\ fs \in Seq(S \cup T)
  OBVIOUS
<1>2. QED
  BY <1>1

\* Frames sent: with a snapshot that tells of the session, or without any.
LEMMA NewestSent ==
    ASSUME NEW S, NEW w \in Seq(S), NEW T, NEW fs \in Seq(T), NEW p, NEW s, NEW c, NEW call,
           NEW m \in 1..Len(fs), IsState(fs[m]), Tells(fs[m], s, c, call),
           \A i \in (m + 1)..Len(fs) : ~IsState(fs[i])
    PROVE  Newest(w \o fs, p, s, c, call)
<1> DEFINE u == w \o fs
           n == Len(w) + m
<1>1. /\ Len(w) \in Nat /\ Len(fs) \in Nat /\ Len(u) = Len(w) + Len(fs)
      /\ \A i \in 1..Len(fs) : u[Len(w) + i] = fs[i]
  BY Joined
<1> HIDE DEF u
<1>2. n \in 0..Len(u) /\ n # 0 /\ u[n] = fs[m]
  BY <1>1
<1>3. ASSUME NEW i \in (n + 1)..Len(u) PROVE ~IsState(u[i])
  <2>1. i - Len(w) \in (m + 1)..Len(fs) /\ i - Len(w) \in 1..Len(fs)
        /\ Len(w) + (i - Len(w)) = i
    BY <1>1
  <2>2. u[i] = fs[i - Len(w)]
    BY <1>1, <2>1
  <2>3. QED
    BY <2>1, <2>2
<1> HIDE DEF n
<1>4. Newest(u, p, s, c, call)
  BY <1>2, <1>3 DEF Newest
<1>5. QED
  BY <1>4 DEF u

LEMMA NewestStays ==
    ASSUME NEW S, NEW w \in Seq(S), NEW T, NEW fs \in Seq(T), NEW p,
           NEW s, NEW c, NEW call, NEW s2, NEW c2, NEW call2,
           Newest(w, p, s, c, call), \A i \in 1..Len(fs) : ~IsState(fs[i]),
           \A x : Tells(x, s, c, call) => Tells(x, s2, c2, call2)
    PROVE  Newest(w \o fs, p, s2, c2, call2)
<1> DEFINE u == w \o fs
<1>1. /\ Len(w) \in Nat /\ Len(fs) \in Nat /\ Len(u) = Len(w) + Len(fs)
      /\ \A i \in 1..Len(w) : u[i] = w[i]
      /\ \A i \in 1..Len(fs) : u[Len(w) + i] = fs[i]
  BY Joined
<1> HIDE DEF u
<1>2. PICK n \in 0..Len(w) :
        /\ IF n = 0 THEN Tells(p, s, c, call) ELSE IsState(w[n]) /\ Tells(w[n], s, c, call)
        /\ \A k \in (n + 1)..Len(w) : ~IsState(w[k])
  BY DEF Newest
<1>3. n \in 0..Len(u) /\ (n # 0 => u[n] = w[n])
  BY <1>1
<1>4. ASSUME NEW i \in (n + 1)..Len(u) PROVE ~IsState(u[i])
  <2>1. CASE i <= Len(w)
    <3>1. i \in (n + 1)..Len(w) /\ i \in 1..Len(w)
      BY <1>1, <2>1
    <3>2. QED
      BY <1>1, <1>2, <3>1
  <2>2. CASE i > Len(w)
    <3>1. i - Len(w) \in 1..Len(fs) /\ Len(w) + (i - Len(w)) = i
      BY <1>1, <2>2
    <3>2. QED
      BY <1>1, <3>1
  <2>3. QED
    BY <1>1, <2>1, <2>2
<1>5. Newest(u, p, s2, c2, call2)
  BY <1>2, <1>3, <1>4 DEF Newest
<1>6. QED
  BY <1>5 DEF u

LEMMA NewestSame ==
    ASSUME NEW S, NEW w \in Seq(S), NEW p,
           NEW s, NEW c, NEW call, NEW s2, NEW c2, NEW call2,
           Newest(w, p, s, c, call),
           \A x : Tells(x, s, c, call) => Tells(x, s2, c2, call2)
    PROVE  Newest(w, p, s2, c2, call2)
BY DEF Newest

\* Frames sent to a page that shows the pause, or will.
LEMMA AwareStays ==
    ASSUME NEW S, NEW w \in Seq(S), NEW T, NEW fs \in Seq(T), NEW p, NEW r,
           \A i \in 1..Len(fs) : IsState(fs[i]) => OfPause(fs[i], r)
    PROVE  \A j \in 0..Len(w) :
             Knows(w, p, r, j) => j \in 0..Len(w \o fs) /\ Knows(w \o fs, p, r, j)
<1> DEFINE u == w \o fs
<1>1. /\ Len(w) \in Nat /\ Len(fs) \in Nat /\ Len(u) = Len(w) + Len(fs)
      /\ \A i \in 1..Len(w) : u[i] = w[i]
      /\ \A i \in 1..Len(fs) : u[Len(w) + i] = fs[i]
  BY Joined
<1> HIDE DEF u
<1>2. SUFFICES ASSUME NEW j \in 0..Len(w), Knows(w, p, r, j)
               PROVE  j \in 0..Len(u) /\ Knows(u, p, r, j)
  BY DEF u
<1>3. j \in 0..Len(u) /\ (j # 0 => u[j] = w[j])
  BY <1>1
<1>4. ASSUME NEW i \in (j + 1)..Len(u), IsState(u[i]) PROVE OfPause(u[i], r)
  <2>1. CASE i <= Len(w)
    <3>1. i \in (j + 1)..Len(w) /\ i \in 1..Len(w)
      BY <1>1, <2>1
    <3>2. QED
      BY <1>1, <1>2, <1>4, <3>1 DEF Knows
  <2>2. CASE i > Len(w)
    <3>1. i - Len(w) \in 1..Len(fs) /\ Len(w) + (i - Len(w)) = i
      BY <1>1, <2>2
    <3>2. QED
      BY <1>1, <1>4, <3>1
  <2>3. QED
    BY <1>1, <2>1, <2>2
<1>5. QED
  BY <1>2, <1>3, <1>4 DEF Knows

LEMMA ShowsStays ==
    ASSUME NEW S, NEW w \in Seq(S), NEW T, NEW fs \in Seq(T), NEW p, NEW v, NEW r,
           Shows(w, p, v, r),
           \A i \in 1..Len(fs) : IsState(fs[i]) => OfPause(fs[i], r),
           \A i \in 1..Len(fs) : ~OfRun(fs[i], r)
    PROVE  Shows(w \o fs, p, v, r)
<1> DEFINE u == w \o fs
<1>1. /\ Len(w) \in Nat /\ Len(fs) \in Nat /\ Len(u) = Len(w) + Len(fs)
      /\ \A i \in 1..Len(w) : u[i] = w[i]
      /\ \A i \in 1..Len(fs) : u[Len(w) + i] = fs[i]
  BY Joined
<1>2. PICK j \in 0..Len(w) : \E k \in j..Len(w) : Knows(w, p, r, j) /\ Marks(w, p, v, r, j, k)
  BY DEF Shows
<1>3. PICK k \in j..Len(w) : Knows(w, p, r, j) /\ Marks(w, p, v, r, j, k)
  BY <1>2
<1>4. j \in 0..Len(u) /\ Knows(u, p, r, j)
  BY <1>3, AwareStays
<1> HIDE DEF u
<1>5. k \in j..Len(u) /\ (k # 0 => u[k] = w[k]) /\ (k > 1 => u[k - 1] = w[k - 1])
  <2>1. k \in Nat /\ k <= Len(w) /\ (k > 1 => k - 1 \in 1..Len(w))
    BY <1>1
  <2>2. QED
    BY <1>1, <2>1
<1>6. ASSUME NEW i \in (k + 1)..Len(u) PROVE ~OfRun(u[i], r)
  <2>1. CASE i <= Len(w)
    <3>1. i \in (k + 1)..Len(w) /\ i \in 1..Len(w)
      BY <1>1, <2>1
    <3>2. QED
      BY <1>1, <1>3, <3>1 DEF Marks
  <2>2. CASE i > Len(w)
    <3>1. i - Len(w) \in 1..Len(fs) /\ Len(w) + (i - Len(w)) = i
      BY <1>1, <2>2
    <3>2. QED
      BY <1>1, <3>1
  <2>3. QED
    BY <1>1, <2>1, <2>2
<1>7. Marks(u, p, v, r, j, k)
  BY <1>3, <1>5, <1>6 DEF Marks
<1>8. Shows(u, p, v, r)
  BY <1>4, <1>5, <1>7 DEF Shows
<1>9. QED
  BY <1>8 DEF u

\* The event that says so reaches a page that knows of the pause.
LEMMA ShowsAtLast ==
    ASSUME NEW S, NEW w \in Seq(S), NEW p, NEW v, NEW r, NEW e,
           Aware(w, p, r), SaysWaiting(e)
    PROVE  Shows(w \o <<EventFrame(r, e)>>, p, v, r)
<1> DEFINE f == EventFrame(r, e)
           u == w \o <<f>>
<1>0. <<f>> \in Seq({f}) /\ Len(<<f>>) = 1 /\ <<f>>[1] = f
  OBVIOUS
<1>1. f.kind = "run_event" /\ f.run = r /\ f.event = e
  BY DEF EventFrame
<1> HIDE DEF f
<1>2. Len(w) \in Nat /\ Len(u) = Len(w) + 1 /\ u[Len(w) + 1] = f
  BY <1>0, Joined
<1>3. PICK j \in 0..Len(w) : Knows(w, p, r, j)
  BY DEF Aware
<1>4. \A i \in 1..Len(<<f>>) : IsState(<<f>>[i]) => OfPause(<<f>>[i], r)
  BY <1>0, <1>1 DEF IsState
<1>5. j \in 0..Len(u) /\ Knows(u, p, r, j)
  BY <1>0, <1>3, <1>4, AwareStays
<1> HIDE DEF u
<1> DEFINE k == Len(w) + 1
<1>6. k \in j..Len(u) /\ k > j /\ k # 0 /\ (k + 1)..Len(u) = {}
  BY <1>2
<1>7. OfRun(u[k], r) /\ SaysWaiting(u[k].event)
  BY <1>1, <1>2 DEF OfRun
<1> HIDE DEF k
<1>8. Marks(u, p, v, r, j, k)
  BY <1>6, <1>7 DEF Marks
<1>9. Shows(u, p, v, r)
  BY <1>5, <1>6, <1>8 DEF Shows
<1>10. QED
  BY <1>9 DEF u, f

\* The pause itself.
LEMMA ShowsPause ==
    ASSUME NEW S, NEW w \in Seq(S), NEW p, NEW v, NEW r, NEW s, NEW c, OfPause(s, r)
    PROVE  Shows(w \o <<PromptFrame(r), StateFrame(s, c)>>, p, v, r)
<1> DEFINE f == PromptFrame(r)
           g == StateFrame(s, c)
           u == w \o <<f, g>>
<1>0. <<f, g>> \in Seq({f, g}) /\ Len(<<f, g>>) = 2 /\ <<f, g>>[1] = f /\ <<f, g>>[2] = g
  OBVIOUS
<1>1. IsState(g) /\ OfPause(g, r)
  BY DEF StateFrame, IsState, OfPause
<1> HIDE DEF f, g
<1>2. Len(w) \in Nat /\ Len(u) = Len(w) + 2 /\ u[Len(w) + 1] = f /\ u[Len(w) + 2] = g
  BY <1>0, Joined
<1> HIDE DEF u
<1> DEFINE k == Len(w) + 2
<1>3. /\ k \in 0..Len(u) /\ k \in k..Len(u) /\ k > 1 /\ k # 0 /\ (k + 1)..Len(u) = {}
      /\ u[k] = g /\ u[k - 1] = f /\ ~(k > k)
  BY <1>2
<1> HIDE DEF k
<1>4. Knows(u, p, r, k)
  BY <1>1, <1>3 DEF Knows
<1>5. Marks(u, p, v, r, k, k)
  BY <1>3 DEF Marks, f
<1>6. Shows(u, p, v, r)
  BY <1>3, <1>4, <1>5 DEF Shows
<1>7. QED
  BY <1>6 DEF u, f, g
-----------------------------------------------------------------------------
(* A frame taken *)

\* What is taken with frame f by a page p that shows v of its run.
Subscribed(p, r) == p.run = r /\ p.status # "idle"
Took(f, p, v, p2, v2) ==
    \/ /\ IsState(f)
       /\ p2 = [status |-> f.status, run |-> f.run, cache |-> f.cache]
       /\ v2 = IF f.run # p.run \/ f.status # p.status THEN Settled(p2, v) ELSE v
    \/ /\ f.kind = "run_event" /\ p2 = p
       /\ v2 = IF Subscribed(p, f.run) THEN Reduced(v, f.event.type) ELSE v
    \/ /\ ~IsState(f) /\ f.kind # "run_event" /\ p2 = p
       /\ v2 = IF Subscribed(p, f.run) THEN "waiting" ELSE v

LEMMA FrameTaken == TakesFrame => Took(Head(wire), page, vis, page', vis')
<1> SUFFICES ASSUME TakesFrame PROVE Took(Head(wire), page, vis, page', vis')
  OBVIOUS
<1>1. PICK f : f = Head(wire)
  OBVIOUS
<1>2. CASE f.kind = "state_snapshot"
  <2>1. TakesState(f)
    BY <1>1, <1>2 DEF TakesFrame
  <2>2. QED
    BY <1>1, <1>2, <2>1 DEF TakesState, Took, IsState
<1>3. CASE f.kind = "run_event"
  <2>1. TakesEvent(f)
    BY <1>1, <1>3 DEF TakesFrame
  <2>2. QED
    BY <1>1, <1>3, <2>1 DEF TakesEvent, Took, IsState, IsSubscribed, Subscribed
<1>4. CASE f.kind # "state_snapshot" /\ f.kind # "run_event"
  <2>1. TakesPrompt(f)
    BY <1>1, <1>4 DEF TakesFrame
  <2>2. QED
    BY <1>1, <1>4, <2>1 DEF TakesPrompt, Took, IsState, IsSubscribed, Subscribed
<1>5. QED
  BY <1>2, <1>3, <1>4

LEMMA TailOf ==
    ASSUME NEW S, NEW w \in Seq(S), w # << >>
    PROVE  /\ Tail(w) \in Seq(S) /\ Len(w) \in Nat \ {0} /\ Len(Tail(w)) = Len(w) - 1
           /\ Head(w) = w[1]
           /\ \A i \in 1..(Len(w) - 1) : Tail(w)[i] = w[i + 1]
OBVIOUS

LEMMA NewestTaken ==
    ASSUME NEW S, NEW w \in Seq(S), w # << >>, NEW p, NEW v, NEW p2, NEW v2,
           Took(Head(w), p, v, p2, v2), NEW s, NEW c, NEW call, Newest(w, p, s, c, call)
    PROVE  Newest(Tail(w), p2, s, c, call)
<1> DEFINE u == Tail(w)
<1>1. /\ Len(w) \in Nat \ {0} /\ Len(u) = Len(w) - 1 /\ Head(w) = w[1]
      /\ \A i \in 1..(Len(w) - 1) : u[i] = w[i + 1]
  BY TailOf
<1> HIDE DEF u
<1>2. PICK n \in 0..Len(w) :
        /\ IF n = 0 THEN Tells(p, s, c, call) ELSE IsState(w[n]) /\ Tells(w[n], s, c, call)
        /\ \A k \in (n + 1)..Len(w) : ~IsState(w[k])
  BY DEF Newest
<1> DEFINE m == IF n = 0 THEN 0 ELSE n - 1
<1>3. m \in 0..Len(u)
  BY <1>1
<1>4. ASSUME NEW k \in (m + 1)..Len(u) PROVE ~IsState(u[k])
  <2>1. k + 1 \in (n + 1)..Len(w) /\ k \in 1..(Len(w) - 1)
    BY <1>1
  <2>2. QED
    BY <1>1, <1>2, <2>1
<1>5. IF m = 0 THEN Tells(p2, s, c, call) ELSE IsState(u[m]) /\ Tells(u[m], s, c, call)
  <2>1. CASE n = 0
    <3>1. 1 \in (n + 1)..Len(w)
      BY <1>1, <2>1
    <3>2. ~IsState(Head(w))
      BY <1>1, <1>2, <3>1
    <3>3. QED
      BY <1>2, <2>1, <3>2 DEF Took
  <2>2. CASE n = 1
    <3>1. IsState(Head(w)) /\ Tells(Head(w), s, c, call)
      BY <1>1, <1>2, <2>2
    <3>2. p2.status = Head(w).status /\ p2.run = Head(w).run /\ p2.cache = Head(w).cache
      BY <3>1 DEF Took, IsState
    <3>3. QED
      BY <2>2, <3>1, <3>2 DEF Tells
  <2>3. CASE n > 1
    <3>1. m \in 1..(Len(w) - 1) /\ m + 1 = n /\ m # 0 /\ n # 0
      BY <1>1, <2>3
    <3>2. QED
      BY <1>1, <1>2, <3>1
  <2>4. QED
    BY <2>1, <2>2, <2>3
<1> HIDE DEF m
<1>6. Newest(u, p2, s, c, call)
  BY <1>3, <1>4, <1>5 DEF Newest
<1>7. QED
  BY <1>6 DEF u

LEMMA KnowsTaken ==
    ASSUME NEW S, NEW w \in Seq(S), w # << >>, NEW p, NEW v, NEW p2, NEW v2,
           Took(Head(w), p, v, p2, v2), NEW r, NEW j \in 0..Len(w), Knows(w, p, r, j),
           NEW i, i = IF j = 0 THEN 0 ELSE j - 1
    PROVE  i \in 0..Len(Tail(w)) /\ Knows(Tail(w), p2, r, i)
<1> DEFINE u == Tail(w)
<1>1. /\ Len(w) \in Nat \ {0} /\ Len(u) = Len(w) - 1 /\ Head(w) = w[1]
      /\ \A k \in 1..(Len(w) - 1) : u[k] = w[k + 1]
  BY TailOf
<1> HIDE DEF u
<1>2. i \in 0..Len(u)
  BY <1>1
<1>3. ASSUME NEW k \in (i + 1)..Len(u), IsState(u[k]) PROVE OfPause(u[k], r)
  <2>1. k + 1 \in (j + 1)..Len(w) /\ k \in 1..(Len(w) - 1)
    BY <1>1
  <2>2. QED
    BY <1>1, <1>3, <2>1 DEF Knows
<1>4. IF i = 0 THEN OfPause(p2, r) ELSE IsState(u[i]) /\ OfPause(u[i], r)
  <2>1. CASE j = 0
    <3>1. 1 \in (j + 1)..Len(w) /\ OfPause(p, r)
      BY <1>1, <2>1 DEF Knows
    <3>2. IsState(Head(w)) => OfPause(Head(w), r)
      BY <1>1, <3>1 DEF Knows
    <3>3. QED
      BY <2>1, <3>1, <3>2 DEF Took, OfPause
  <2>2. CASE j = 1
    <3>1. IsState(Head(w)) /\ OfPause(Head(w), r)
      BY <1>1, <2>2 DEF Knows
    <3>2. QED
      BY <2>2, <3>1 DEF Took, OfPause, IsState
  <2>3. CASE j > 1
    <3>1. i \in 1..(Len(w) - 1) /\ i + 1 = j /\ i # 0 /\ j # 0
      BY <1>1, <2>3
    <3>2. QED
      BY <1>1, <3>1 DEF Knows
  <2>4. QED
    BY <2>1, <2>2, <2>3
<1>5. Knows(u, p2, r, i)
  BY <1>3, <1>4 DEF Knows
<1>6. QED
  BY <1>2, <1>5 DEF u

\* The page that takes the mark shows the pause.
IsWaiting(v) == v = "waiting"

LEMMA MarkTaken ==
    ASSUME NEW S, NEW w \in Seq(S), w # << >>, NEW p, NEW v, NEW p2, NEW v2,
           Took(Head(w), p, v, p2, v2), NEW r, r # NoRun,
           NEW j \in 0..Len(w), NEW k \in j..Len(w), k \in {0, 1},
           Knows(w, p, r, j), Marks(w, p, v, r, j, k)
    PROVE  IsWaiting(v2)
<1> SUFFICES v2 = "waiting"
  BY DEF IsWaiting
<1>1. Len(w) \in Nat \ {0} /\ Head(w) = w[1]
  BY TailOf
<1>2. CASE k = 0
  <2>1. j = 0 /\ v = "waiting" /\ OfPause(p, r) /\ 1 \in (k + 1)..Len(w) /\ 1 \in (j + 1)..Len(w)
    BY <1>1, <1>2 DEF Knows, Marks
  <2>2. ~OfRun(Head(w), r) /\ (IsState(Head(w)) => OfPause(Head(w), r))
    BY <1>1, <2>1 DEF Knows, Marks
  <2>3. QED
    BY <2>1, <2>2 DEF Took, OfPause, OfRun, Subscribed
<1>3. CASE k = 1 /\ j = 0
  <2>1. OfPause(p, r) /\ OfRun(Head(w), r) /\ SaysWaiting(Head(w).event)
    BY <1>1, <1>3 DEF Knows, Marks
  <2>2. Head(w).kind = "run_event" /\ ~IsState(Head(w)) /\ Subscribed(p, Head(w).run)
    BY <2>1 DEF OfRun, OfPause, Subscribed, IsState
  <2>3. v2 = Reduced(v, "awaiting-user-input")
    BY <2>1, <2>2 DEF Took, SaysWaiting
  <2>4. QED
    BY <2>3 DEF Reduced
<1>4. CASE k = 1 /\ j = 1
  <2>1. /\ IsState(Head(w)) /\ OfPause(Head(w), r)
        /\ ~OfPause(p, r) \/ v = "waiting"
    BY <1>1, <1>4 DEF Knows, Marks
  <2>2. /\ p2.run = r /\ p2.status = "paused"
        /\ v2 = IF Head(w).run # p.run \/ Head(w).status # p.status THEN Settled(p2, v) ELSE v
    BY <2>1 DEF Took, OfPause, IsState
  <2>3. Settled(p2, v) = "waiting"
    BY <2>2 DEF Settled, SessionVisual
  <2>4. QED
    BY <2>1, <2>2, <2>3 DEF OfPause
<1>5. QED
  BY <1>2, <1>3, <1>4

LEMMA ShowsTaken ==
    ASSUME NEW S, NEW w \in Seq(S), w # << >>, NEW p, NEW v, NEW p2, NEW v2,
           Took(Head(w), p, v, p2, v2), NEW r, r # NoRun, Shows(w, p, v, r)
    PROVE  Shows(Tail(w), p2, v2, r)
<1> DEFINE u == Tail(w)
<1>1. /\ Len(w) \in Nat \ {0} /\ Len(u) = Len(w) - 1 /\ Head(w) = w[1]
      /\ \A i \in 1..(Len(w) - 1) : u[i] = w[i + 1]
  BY TailOf
<1>2. PICK j \in 0..Len(w) : \E k \in j..Len(w) : Knows(w, p, r, j) /\ Marks(w, p, v, r, j, k)
  BY DEF Shows
<1>3. PICK k \in j..Len(w) : Knows(w, p, r, j) /\ Marks(w, p, v, r, j, k)
  BY <1>2
<1>4. PICK i : i = IF j = 0 THEN 0 ELSE j - 1
  OBVIOUS
<1>5. PICK m : m = IF k = 0 THEN 0 ELSE k - 1
  OBVIOUS
<1>6. i \in 0..Len(u) /\ Knows(u, p2, r, i)
  BY <1>3, <1>4, KnowsTaken
<1> HIDE DEF u
<1>7. m \in i..Len(u) /\ j \in Nat /\ k \in Nat /\ j <= k
  BY <1>1, <1>4, <1>5
<1>8. ASSUME NEW n \in (m + 1)..Len(u) PROVE ~OfRun(u[n], r)
  <2>1. n + 1 \in (k + 1)..Len(w) /\ n \in 1..(Len(w) - 1)
    BY <1>1, <1>5, <1>7
  <2>2. QED
    BY <1>1, <1>3, <2>1 DEF Marks
<1>9. CASE k \in {0, 1}
  <2>1. v2 = "waiting"
    <3>1. IsWaiting(v2)
      BY <1>3, <1>9, MarkTaken
    <3>2. QED
      BY <3>1 DEF IsWaiting
  <2>2. m = 0 /\ i = 0
    BY <1>4, <1>5, <1>7, <1>9
  <2>3. Marks(u, p2, v2, r, i, m)
    BY <1>8, <2>1, <2>2 DEF Marks
  <2>4. QED
    BY <1>6, <1>7, <2>3 DEF Shows, u
<1>10. CASE k > 1
  <2>1. m = k - 1 /\ m # 0 /\ m \in 1..(Len(w) - 1) /\ m + 1 = k /\ u[m] = w[k]
    BY <1>1, <1>5, <1>7, <1>10
  <2>2. m > i => k > j
    BY <1>4, <1>7, <2>1
  <2>3. m = i => k = j
    BY <1>4, <1>7, <1>10, <2>1
  <2>4. m = i /\ m > 1 => u[m - 1] = PromptFrame(r)
    <3>1. ASSUME m = i, m > 1 PROVE u[m - 1] = PromptFrame(r)
      <4>1. m - 1 \in 1..(Len(w) - 1) /\ (m - 1) + 1 = k - 1
        BY <1>1, <2>1, <3>1
      <4>2. u[m - 1] = w[k - 1]
        BY <1>1, <4>1
      <4>3. QED
        BY <1>3, <1>10, <2>3, <3>1, <4>2 DEF Marks
    <3>2. QED
      BY <3>1
  <2>5. m = i /\ m = 1 => ~OfPause(p2, r) \/ v2 = "waiting"
    <3>1. ASSUME m = i, m = 1 PROVE ~OfPause(p2, r) \/ v2 = "waiting"
      <4>1. k - 1 = 1 /\ Head(w) = PromptFrame(r)
        BY <1>1, <1>3, <1>10, <2>1, <2>3, <3>1 DEF Marks
      <4>2. Head(w).kind = "intervention_request" /\ Head(w).run = r
        BY <4>1 DEF PromptFrame
      <4>3. p2 = p /\ v2 = IF Subscribed(p, r) THEN "waiting" ELSE v
        BY <4>2 DEF Took, IsState
      <4>4. QED
        BY <4>3 DEF OfPause, Subscribed
    <3>2. QED
      BY <3>1
  <2>6. Marks(u, p2, v2, r, i, m)
    BY <1>3, <1>8, <2>1, <2>2, <2>4, <2>5 DEF Marks
  <2>7. QED
    BY <1>6, <1>7, <2>6 DEF Shows, u
<1>11. QED
  BY <1>7, <1>9, <1>10

LEMMA AwareTaken ==
    ASSUME NEW S, NEW w \in Seq(S), w # << >>, NEW p, NEW v, NEW p2, NEW v2,
           Took(Head(w), p, v, p2, v2), NEW r, Aware(w, p, r)
    PROVE  Aware(Tail(w), p2, r)
<1>1. PICK j \in 0..Len(w) : Knows(w, p, r, j)
  BY DEF Aware
<1>2. PICK i : i = IF j = 0 THEN 0 ELSE j - 1
  OBVIOUS
<1>3. i \in 0..Len(Tail(w)) /\ Knows(Tail(w), p2, r, i)
  BY <1>1, <1>2, KnowsTaken
<1>4. QED
  BY <1>3 DEF Aware

LEMMA IdleTaken ==
    ASSUME NEW f, NEW p, NEW v, NEW p2, NEW v2, Took(f, p, v, p2, v2),
           p.status = "idle" => v = "none"
    PROVE  p2.status = "idle" => v2 = "none"
<1>1. CASE IsState(f)
  <2>1. f.status = "idle" => Settled(p2, v) = "none"
    BY <1>1 DEF Took, Settled, IsState
  <2>2. QED
    BY <1>1, <2>1 DEF Took, IsState
<1>2. CASE ~IsState(f)
  BY <1>2 DEF Took, Subscribed
<1>3. QED
  BY <1>1, <1>2

LEMMA TakesFrameQuiet ==
    ASSUME PageInv, SlotInv, SnapInv, WaitInv, IdleInv, TakesFrame
    PROVE  SnapInv' /\ WaitInv' /\ IdleInv'
<1>1. PICK S : wire \in Seq(S)
  BY DEF PageInv, RunnerInv, WireOK
<1>2. /\ wire # << >> /\ wire' = Tail(wire) /\ UNCHANGED <<session, task, cache>>
      /\ Took(Head(wire), page, vis, page', vis')
  BY FrameTaken DEF TakesFrame
<1>3. PICK p2, v2 : p2 = page' /\ v2 = vis'
  OBVIOUS
<1>4. Took(Head(wire), page, vis, p2, v2)
  BY <1>2, <1>3
<1>5. Newest(Tail(wire), p2, session, cache, task.call)
  BY <1>1, <1>2, <1>4, NewestTaken DEF SnapInv
<1>6. ASSUME session.waiting
      PROVE  \/ Flushing /\ Aware(Tail(wire), p2, session.run)
             \/ Shows(Tail(wire), p2, v2, session.run)
  <2>1. session.run # NoRun
    BY <1>6, EventsAssumption DEF SlotInv
  <2>2. QED
    BY <1>1, <1>2, <1>4, <1>6, <2>1, AwareTaken, ShowsTaken DEF WaitInv
<1>7. p2.status = "idle" => v2 = "none"
  BY <1>4, IdleTaken DEF IdleInv
<1>8. QED
  BY <1>2, <1>3, <1>5, <1>6, <1>7 DEF SnapInv, WaitInv, IdleInv, Flushing
-----------------------------------------------------------------------------
(* What the task says *)

SameHead(t) ==
    /\ {"pc", "run", "active", "before", "call", "buffer", "flush", "sink"} \subseteq DOMAIN t
    /\ t.run = task.run /\ t.active = task.active /\ t.before = task.before
    /\ t.call = task.call /\ t.buffer = task.buffer /\ t.flush = task.flush
    /\ t.sink = task.sink
GoesTo(t, pc) == SameHead(t) /\ t.pc = pc

LEMMA GoesThere ==
    ASSUME task \in Tasks
    PROVE  /\ \A pc : GoesTo(Goes(pc), pc)
           /\ \A pc, left : GoesTo([Goes(pc) EXCEPT !.left = left], pc)
           /\ \A pc, why : GoesTo([Goes(pc) EXCEPT !.why = why], pc)
           /\ \A pc, memory : GoesTo([Goes(pc) EXCEPT !.memory = memory], pc)
           /\ \A pc, msg, text : GoesTo([Goes(pc) EXCEPT !.msg = msg, !.text = text], pc)
           /\ \A text : GoesTo([task EXCEPT !.text = text], task.pc)
BY DEF Tasks, SameHead, GoesTo, Goes

\* No file but that of run r changes its status.
OnlyFile(r) ==
    \A q \in Runs \ {r} : disk'[q].status = disk[q].status /\ disk'[q].fixed = disk[q].fixed

LEMMA FileOf ==
    ASSUME DiskTypeOK
    PROVE  /\ \A r, status : disk' = [disk EXCEPT ![r].status = status]
                => OnlyFile(r) /\ (r \in Runs => disk'[r].status = status)
           /\ \A status : disk' = Ended(status) => OnlyFile(task.run)
           /\ \A r, n : disk' = [disk EXCEPT ![r].ledgers = @ \cup {n}] => Statuses' = Statuses
                                                                    /\ \A q : OnlyFile(q)
           /\ UNCHANGED disk => Statuses' = Statuses /\ \A r : OnlyFile(r)
<1>1. disk \in [Runs -> Files] /\ \A r \in Runs : disk[r] \in Files
  BY DEF DiskTypeOK
<1>2. ASSUME NEW r, NEW status, disk' = [disk EXCEPT ![r].status = status]
      PROVE  OnlyFile(r) /\ (r \in Runs => disk'[r].status = status)
  BY <1>1, <1>2 DEF OnlyFile, Files
<1>3. ASSUME NEW status, disk' = Ended(status) PROVE OnlyFile(task.run)
  BY <1>1, <1>3 DEF OnlyFile, Files, Ended
<1>4. ASSUME NEW r, NEW n, disk' = [disk EXCEPT ![r].ledgers = @ \cup {n}]
      PROVE  Statuses' = Statuses /\ \A q : OnlyFile(q)
  <2>1. \A q \in Runs : disk'[q].status = disk[q].status /\ disk'[q].fixed = disk[q].fixed
    BY <1>1, <1>4 DEF Files
  <2>2. QED
    BY <2>1 DEF OnlyFile, Statuses
<1>5. UNCHANGED disk => Statuses' = Statuses /\ \A r : OnlyFile(r)
  BY DEF OnlyFile, Statuses
<1>6. QED
  BY <1>2, <1>3, <1>4, <1>5

\* A snapshot, or none, on the wire.
OneEvent == \E e : wire' = wire \o <<EventFrame(task.active, e)>>
OneState == \E s, c : s = session' /\ c = cache' /\ wire' = wire \o <<StateFrame(s, c)>>

LEMMA EmitsWhat ==
    ASSUME NEW e, NEW t, SameHead(t), Emits(e, t)
    PROVE  /\ task'.pc = t.pc /\ task'.run = task.run /\ task'.active = task.active
           /\ task'.before = task.before /\ task'.call = task.call
           /\ task'.flush = task.flush
           /\ task'.buffer = IF task.active = NoRun THEN Append(task.buffer, e)
                             ELSE task.buffer
           /\ UNCHANGED wire \/ OneEvent
<1>1. CASE task.active = NoRun
  BY <1>1 DEF Emits, SameHead
<1>2. CASE task.active # NoRun /\ IsLedger(e)
  BY <1>2 DEF Emits, SameHead
<1>3. CASE task.active # NoRun /\ ~IsLedger(e)
  BY <1>3 DEF Emits, SameHead, Sends, OneEvent
<1>4. QED
  BY <1>1, <1>2, <1>3

SaysSomething ==
    \/ RunStarted \/ TurnStarted \/ MessageStarted \/ MessageDelta \/ MessageCompleted
    \/ LedgerUpdated \/ TurnCompleted \/ TurnFailed \/ Asks \/ Answered \/ Completes \/ Fails

LEMMA SaysWhat ==
    ASSUME task \in Tasks, SaysSomething
    PROVE  \E e, t, pc :
             /\ Emits(e, t) /\ GoesTo(t, pc) /\ pc \notin {"wait", "done"}
             /\ pc = "pausing" => Asks /\ SaysWaiting(e)
<1> USE DEF Says
<1>1. CASE RunStarted
  <2>1. GoesTo(Goes("top"), "top")
    BY GoesThere
  <2>2. QED
    BY <1>1, <2>1 DEF RunStarted
<1>2. CASE TurnStarted
  <2>1. GoesTo([Goes("turn") EXCEPT !.left = @ - 1], "turn")
    BY DEF Tasks, SameHead, GoesTo, Goes
  <2>2. QED
    BY <1>2, <2>1 DEF TurnStarted
<1>3. CASE MessageStarted
  <2>1. GoesTo([Goes("writing") EXCEPT !.msg = @ + 1, !.text = << >>], "writing")
    BY DEF Tasks, SameHead, GoesTo, Goes
  <2>2. QED
    BY <1>3, <2>1 DEF MessageStarted
<1>4. CASE MessageDelta
  <2> DEFINE n == Len(task.text) + 1
  <2>1. GoesTo([task EXCEPT !.text = Append(@, n)], "writing")
    BY <1>4 DEF Tasks, SameHead, GoesTo, MessageDelta, Works
  <2>2. QED
    BY <1>4, <2>1 DEF MessageDelta
<1>5. CASE MessageCompleted
  <2>1. GoesTo([Goes("said") EXCEPT !.memory = @ \cup {[id |-> task.msg, text |-> task.text]}],
               "said")
    BY DEF Tasks, SameHead, GoesTo, Goes
  <2>2. QED
    BY <1>5, <2>1 DEF MessageCompleted
<1>6. CASE LedgerUpdated \/ TurnCompleted
  <2>1. GoesTo(Goes("ledgered"), "ledgered") /\ GoesTo(Goes("asking"), "asking")
    BY GoesThere
  <2>2. QED
    BY <1>6, <2>1 DEF LedgerUpdated, TurnCompleted
<1>7. CASE TurnFailed
  <2>1. GoesTo([Goes("failing") EXCEPT !.why = "failed"], "failing")
    BY GoesThere
  <2>2. QED
    BY <1>7, <2>1 DEF TurnFailed
<1>8. CASE Asks
  <2>1. SaysWaiting(Event("awaiting-user-input"))
    BY DEF SaysWaiting, Event
  <2>2. QED
    BY <1>8, <2>1, GoesThere DEF Asks
<1>9. CASE Answered
  <2>1. (IF task.left > 0 THEN "top" ELSE "closing") \in {"top", "closing"}
    OBVIOUS
  <2>2. QED
    BY <1>9, <2>1, GoesThere DEF Answered
<1>10. CASE Completes \/ Fails
  <2>1. GoesTo(Goes("over"), "over") /\ GoesTo(Goes("thrown"), "thrown")
    BY GoesThere
  <2>2. QED
    BY <1>10, <2>1 DEF Completes, Fails
<1>11. QED
  BY <1>1, <1>2, <1>3, <1>4, <1>5, <1>6, <1>7, <1>8, <1>9, <1>10 DEF SaysSomething

LEMMA SaysWhere ==
    ASSUME DiskTypeOK, SaysSomething
    PROVE  /\ UNCHANGED <<session, cache>> /\ task.pc # "done" /\ OnlyFile(task.run)
           /\ task.pc = "wait" => ~session.waiting
<1> USE DEF Says, Works
<1>1. CASE UNCHANGED disk
  BY <1>1, FileOf DEF RunStarted, TurnStarted, MessageStarted, MessageDelta,
     MessageCompleted, LedgerUpdated, TurnCompleted, TurnFailed, Asks, Answered, Completes,
     Fails, SaysSomething
<1>2. CASE Asks \/ Answered
  BY <1>2, FileOf DEF Asks, Answered
<1>3. CASE Completes \/ Fails
  BY <1>3, FileOf DEF Completes, Fails
<1>4. QED
  BY <1>1, <1>2, <1>3 DEF RunStarted, TurnStarted, MessageStarted, MessageDelta,
     MessageCompleted, LedgerUpdated, TurnCompleted, TurnFailed, SaysSomething

LEMMA StoredOf ==
    ASSUME NEW r, OnlyFile(r)
    PROVE  Stored' \subseteq Stored \cup {r}
BY DEF Stored, OnlyFile

RunnerQuiet == SlotInv /\ AdoptInv /\ HeldInv

LEMMA SaysKeepQuiet ==
    ASSUME ~SlowFlush, PageInv, RunnerQuiet, SaysSomething
    PROVE  RunnerQuiet'
<1>1. task \in Tasks /\ DiskTypeOK /\ (task.pc # "done" => task.run \in Runs)
  BY DEF PageInv, RunnerInv, ConservedInv, EventsInv, MadeInv, Fits
<1>2. PICK e, t, pc :
        /\ Emits(e, t) /\ GoesTo(t, pc) /\ pc \notin {"wait", "done"}
        /\ pc = "pausing" => Asks /\ SaysWaiting(e)
  BY <1>1, SaysWhat
<1>3. /\ UNCHANGED <<session, cache>> /\ task.pc # "done" /\ OnlyFile(task.run)
      /\ task.pc = "wait" => ~session.waiting
  BY <1>1, SaysWhere
<1>4. /\ task'.pc = pc /\ task'.run = task.run /\ task'.active = task.active
      /\ task'.before = task.before /\ task'.call = task.call /\ task'.flush = task.flush
      /\ task'.buffer = IF task.active = NoRun THEN Append(task.buffer, e) ELSE task.buffer
  BY <1>2, EmitsWhat DEF GoesTo
<1>5. SlotInv'
  <2>1. ~session.waiting
    BY <1>3 DEF RunnerQuiet, SlotInv
  <2>2. pc = "pausing" => disk'[task.run].status = "awaiting-user-input"
    BY <1>1, <1>2, <1>3, FileOf DEF Asks
  <2>3. QED
    BY <1>2, <1>3, <1>4, <2>1, <2>2 DEF RunnerQuiet, SlotInv
<1>6. AdoptInv'
  <2>1. Stored' \subseteq Stored \cup {task.run}
    BY <1>3, StoredOf
  <2>2. QED
    BY <1>4, <2>1 DEF RunnerQuiet, AdoptInv
<1>7. HeldInv'
  <2>1. CASE pc # "pausing"
    BY <1>2, <1>4, <2>1 DEF HeldInv
  <2>2. CASE pc = "pausing"
    <3>1. SaysWaiting(e) /\ task.call \notin {"adopted", "flushing"}
      BY <1>2, <2>2 DEF Asks, Flushed
    <3>2. task.call = "polling" => task.active = NoRun
      BY DEF RunnerQuiet, AdoptInv
    <3>3. EndsWaiting(Append(task.buffer, e))
      <4>1. task.buffer \in Seq(Events)
        BY <1>1 DEF Tasks
      <4>2. LET s == Append(task.buffer, e) IN s # << >> /\ s[Len(s)] = e
        BY <4>1
      <4>3. QED
        BY <3>1, <4>2 DEF EndsWaiting
    <3>4. task.call = "polling" => EndsWaiting(task'.buffer)
      BY <1>4, <3>2, <3>3
    <3>5. QED
      BY <1>4, <3>1, <3>4 DEF HeldInv, EndsWaiting, SaysWaiting
  <2>3. QED
    BY <2>1, <2>2
<1>8. QED
  BY <1>5, <1>6, <1>7 DEF RunnerQuiet
-----------------------------------------------------------------------------
(* What else the task does, and its call *)

LEMMA SameFiles ==
    ASSUME OnlyFile(NoRun)
    PROVE  /\ Statuses' = Statuses /\ Stored' = Stored
           /\ \A r \in Runs : disk'[r].status = disk[r].status
<1>1. \A r \in Runs : disk'[r].status = disk[r].status /\ disk'[r].fixed = disk[r].fixed
  BY EventsAssumption DEF OnlyFile
<1>2. QED
  BY <1>1 DEF Statuses, Stored

\* The call of the task goes on, or a ledger's file is written: the task stays
\* where it is.
LEMMA SlotStays ==
    ASSUME PageInv, SlotInv, UNCHANGED session, OnlyFile(NoRun),
           task'.pc = task.pc, task'.run = task.run, cache' \in {cache, Statuses},
           task.pc = "wait" => task'.sink = << >>
    PROVE  SlotInv'
<1>1. task.pc # "done" => task.run \in Runs
  BY DEF PageInv, RunnerInv, ConservedInv, EventsInv, MadeInv, Fits
<1>2. Statuses' = Statuses /\ \A r \in Runs : disk'[r].status = disk[r].status
  BY SameFiles
<1>3. task.pc = "done" => cache' = Statuses'
  BY <1>2 DEF SlotInv
<1>4. QED
  BY <1>1, <1>2, <1>3 DEF SlotInv

LEMMA CallKeepsQuiet ==
    ASSUME PageInv, RunnerQuiet,
           \/ LedgerSaved \/ PollFinds \/ PollGivesUp \/ PollRefreshes \/ FlushNext
           \/ PollReturns
    PROVE  RunnerQuiet'
<1>1. /\ task \in Tasks /\ DiskTypeOK /\ task.buffer \in Seq(Events)
      /\ task.flush \in Seq(Events) /\ task.run \in Ids
  BY DEF PageInv, RunnerInv, ConservedInv, EventsInv, MadeInv, Fits, Tasks
<1>2. OnlyFile(NoRun)
  BY <1>1, FileOf DEF LedgerSaved, PollFinds, PollGivesUp, PollRefreshes, FlushNext,
     PollReturns, WithLedger
<1>3. Stored' = Stored
  BY <1>2, SameFiles
<1>4. CASE LedgerSaved
  <2>1. /\ task' = [task EXCEPT !.sink = << >>] /\ UNCHANGED <<session, cache>>
    BY <1>4 DEF LedgerSaved
  <2>2. /\ task'.pc = task.pc /\ task'.run = task.run /\ task'.sink = << >>
        /\ task'.call = task.call /\ task'.active = task.active /\ task'.before = task.before
        /\ task'.buffer = task.buffer /\ task'.flush = task.flush
    BY <1>1, <2>1 DEF Tasks
  <2>3. SlotInv'
    BY <1>2, <2>1, <2>2, SlotStays DEF RunnerQuiet
  <2>4. QED
    BY <1>3, <2>2, <2>3 DEF RunnerQuiet, AdoptInv, HeldInv
<1>5. CASE PollFinds
  <2>1. PICK r \in Stored \ task.before :
          /\ task' = [task EXCEPT !.active = r, !.call = "adopted"]
          /\ session' = IF session.status \in {"running", "paused"} /\ session.run = NoRun
                        THEN [session EXCEPT !.run = r] ELSE session
          /\ task.call = "polling" /\ UNCHANGED cache
    BY <1>5 DEF PollFinds
  <2>2. r = task.run
    BY <2>1 DEF RunnerQuiet, AdoptInv
  <2>3. /\ task'.pc = task.pc /\ task'.run = task.run /\ task'.sink = task.sink
        /\ task'.call = "adopted" /\ task'.active = task.run
        /\ task'.buffer = task.buffer
    BY <1>1, <2>1, <2>2 DEF Tasks
  <2>4. /\ session'.status = session.status /\ session'.waiting = session.waiting
        /\ session.run # NoRun => session'.run = session.run
    BY <2>1 DEF PageInv, RunnerInv, SessionOK
  <2>5. SlotInv'
    <3>1. task.pc # "done" => task.run \in Runs
      BY DEF PageInv, RunnerInv, ConservedInv, EventsInv, MadeInv, Fits
    <3>2. session.waiting => session.run # NoRun
      BY EventsAssumption DEF RunnerQuiet, SlotInv
    <3>3. Statuses' = Statuses /\ \A q \in Runs : disk'[q].status = disk[q].status
      BY <1>2, SameFiles
    <3>4. QED
      BY <2>1, <2>3, <2>4, <3>1, <3>2, <3>3 DEF RunnerQuiet, SlotInv
  <2>6. QED
    BY <2>1, <2>3, <2>5 DEF RunnerQuiet, AdoptInv, HeldInv
<1>6. CASE PollGivesUp
  <2>1. task' = [task EXCEPT !.call = "failed"] /\ UNCHANGED <<session, cache>>
    BY <1>6 DEF PollGivesUp
  <2>2. /\ task'.pc = task.pc /\ task'.run = task.run /\ task'.sink = task.sink
        /\ task'.call = "failed"
    BY <1>1, <2>1 DEF Tasks
  <2>3. SlotInv'
    BY <1>2, <2>1, <2>2, SlotStays DEF RunnerQuiet, SlotInv
  <2>4. QED
    BY <2>2, <2>3 DEF RunnerQuiet, AdoptInv, HeldInv
<1>7. CASE PollRefreshes
  <2>1. /\ task' = Taken /\ UNCHANGED session /\ cache' = Statuses /\ task.call = "adopted"
    BY <1>7 DEF PollRefreshes
  <2>2. /\ task'.pc = task.pc /\ task'.run = task.run /\ task'.sink = task.sink
        /\ task'.call = "flushing" /\ task'.active = task.active
        /\ task'.flush = task.buffer
    BY <1>1, <2>1 DEF Tasks, Taken
  <2>3. SlotInv'
    BY <1>2, <2>1, <2>2, SlotStays DEF RunnerQuiet, SlotInv
  <2>4. QED
    BY <2>1, <2>2, <2>3 DEF RunnerQuiet, AdoptInv, HeldInv
<1>8. CASE FlushNext
  <2>1. /\ task' = [task EXCEPT !.flush = Tail(@)] /\ UNCHANGED <<session, cache>>
        /\ task.call = "flushing" /\ task.flush # << >>
    BY <1>8 DEF FlushNext
  <2>2. /\ task'.pc = task.pc /\ task'.run = task.run /\ task'.sink = task.sink
        /\ task'.call = task.call /\ task'.active = task.active
        /\ task'.flush = Tail(task.flush)
    BY <1>1, <2>1 DEF Tasks
  <2>3. SlotInv'
    BY <1>2, <2>1, <2>2, SlotStays DEF RunnerQuiet, SlotInv
  <2>4. EndsWaiting(task.flush) => task'.flush = << >> \/ EndsWaiting(task'.flush)
    <3>1. /\ Len(task.flush) \in Nat \ {0} /\ Len(task'.flush) = Len(task.flush) - 1
          /\ task'.flush \in Seq(Events)
          /\ \A i \in 1..(Len(task.flush) - 1) : task'.flush[i] = task.flush[i + 1]
      BY <1>1, <2>1, <2>2, TailOf
    <3>2. CASE Len(task.flush) = 1
      BY <3>1, <3>2
    <3>3. CASE Len(task.flush) > 1
      <4>1. Len(task'.flush) \in 1..(Len(task.flush) - 1)
        BY <3>1, <3>3
      <4>2. task'.flush[Len(task'.flush)] = task.flush[Len(task.flush)]
        BY <3>1, <4>1
      <4>3. task'.flush # << >>
        BY <3>1, <3>3
      <4>4. QED
        BY <4>2, <4>3 DEF EndsWaiting
    <3>4. QED
      BY <3>1, <3>2, <3>3
  <2>5. QED
    BY <2>1, <2>2, <2>3, <2>4 DEF RunnerQuiet, AdoptInv, HeldInv, EndsWaiting
<1>9. CASE PollReturns
  <2>1. task' = [task EXCEPT !.call = "returned"] /\ UNCHANGED <<session, cache>>
    BY <1>9 DEF PollReturns
  <2>2. /\ task'.pc = task.pc /\ task'.run = task.run /\ task'.sink = task.sink
        /\ task'.call = "returned"
    BY <1>1, <2>1 DEF Tasks
  <2>3. SlotInv'
    BY <1>2, <2>1, <2>2, SlotStays DEF RunnerQuiet, SlotInv
  <2>4. QED
    BY <2>2, <2>3 DEF RunnerQuiet, AdoptInv, HeldInv
<1>10. QED
  BY <1>4, <1>5, <1>6, <1>7, <1>8, <1>9

\* The task moves without a word, and ends.
LEMMA WorkKeepsQuiet ==
    ASSUME PageInv, RunnerQuiet,
           \/ Open \/ SetupFails \/ Pauses \/ Aborts \/ Vanished \/ RoundComplete \/ TearsDown
    PROVE  RunnerQuiet'
<1>1. /\ task \in Tasks /\ DiskTypeOK /\ (task.pc # "done" => task.run \in Runs)
  BY DEF PageInv, RunnerInv, ConservedInv, EventsInv, MadeInv, Fits
<1>2. task.sink = << >>
  BY DEF Open, SetupFails, Pauses, Aborts, Vanished, RoundComplete, TearsDown, Works
<1>3. ASSUME GoesTo(task', task'.pc), OnlyFile(task.run) PROVE AdoptInv'
  <2>1. Stored' \subseteq Stored \cup {task.run}
    BY <1>3, StoredOf
  <2>2. QED
    BY <1>3, <2>1 DEF RunnerQuiet, AdoptInv, GoesTo, SameHead
<1>4. CASE Open
  <2>1. /\ UNCHANGED <<session, cache>> /\ task.pc = "setup"
        /\ disk' = [disk EXCEPT ![task.run].status = "running"]
        /\ GoesTo(task', "opened")
    BY <1>1, <1>4, GoesThere DEF Open, Works
  <2>2. OnlyFile(task.run)
    BY <1>1, <2>1, FileOf
  <2>3. QED
    BY <1>3, <2>1, <2>2 DEF RunnerQuiet, SlotInv, HeldInv, GoesTo, SameHead
<1>5. CASE SetupFails \/ Aborts \/ Vanished
  <2>1. \E pc : /\ GoesTo(task', pc) /\ pc \in {"thrown", "failing"}
    <3>1. CASE SetupFails
      <4>1. GoesTo(task', "thrown")
        BY <1>1, <3>1 DEF SetupFails, GoesTo, SameHead, Tasks
      <4>2. QED
        BY <4>1
    <3>2. CASE Aborts
      BY <1>1, <3>2, GoesThere DEF Aborts
    <3>3. CASE Vanished
      <4>1. GoesTo([Goes("thrown") EXCEPT !.why = IF @ = "none" THEN "failed" ELSE @], "thrown")
        BY <1>1 DEF Tasks, SameHead, GoesTo, Goes
      <4>2. QED
        BY <3>3, <4>1 DEF Vanished
    <3>4. QED
      BY <1>5, <3>1, <3>2, <3>3
  <2>2. /\ UNCHANGED <<session, cache, disk>> /\ task.pc # "done"
        /\ task.pc = "wait" => ~session.waiting
    BY <1>5 DEF SetupFails, Aborts, Vanished, Works, Aborted, RunnerQuiet, SlotInv
  <2>3. OnlyFile(task.run)
    BY <1>1, <2>2, FileOf
  <2>4. QED
    BY <1>3, <2>1, <2>2, <2>3 DEF RunnerQuiet, SlotInv, HeldInv, GoesTo, SameHead
<1>6. CASE Pauses
  <2>1. /\ session' = [status |-> "paused", run |-> task.run, waiting |-> TRUE]
        /\ GoesTo(task', "wait") /\ task.pc = "pausing" /\ UNCHANGED <<disk, cache>>
    BY <1>1, <1>6, GoesThere DEF Pauses, Works
  <2>2. OnlyFile(task.run)
    BY <1>1, <2>1, FileOf
  <2>3. QED
    BY <1>1, <1>2, <1>3, <2>1, <2>2 DEF RunnerQuiet, SlotInv, HeldInv, GoesTo, SameHead
<1>7. CASE RoundComplete
  <2>1. /\ session' = IF Aborted THEN Free
                      ELSE [session EXCEPT !.status = "paused", !.waiting = FALSE]
        /\ cache' = Statuses /\ GoesTo(task', "done") /\ UNCHANGED disk
    BY <1>1, <1>7, GoesThere DEF RoundComplete
  <2>2. session'.waiting = FALSE
    BY <2>1 DEF Free, PageInv, RunnerInv, SessionOK
  <2>3. OnlyFile(task.run) /\ Statuses' = Statuses
    BY <1>1, <2>1, FileOf
  <2>4. QED
    BY <1>3, <2>1, <2>2, <2>3 DEF RunnerQuiet, SlotInv, HeldInv, GoesTo, SameHead
<1>8. CASE TearsDown
  <2>1. /\ session' = Free /\ cache' = Statuses /\ UNCHANGED disk
        /\ task'.pc = "done" /\ task'.run = task.run /\ task'.active = task.active
        /\ task'.before = task.before /\ task'.call = task.call
    BY <1>1, <1>8 DEF TearsDown, Goes, Tasks
  <2>2. Statuses' = Statuses /\ Stored' = Stored
    BY <2>1 DEF Statuses, Stored
  <2>3. SlotInv'
    BY <2>1, <2>2 DEF SlotInv, Free
  <2>4. QED
    BY <2>1, <2>2, <2>3 DEF RunnerQuiet, AdoptInv, HeldInv
<1>9. QED
  BY <1>4, <1>5, <1>6, <1>7, <1>8

\* A start, and what users do to the session.
LEMMA UserKeepsQuiet ==
    ASSUME PageInv, RunnerQuiet, NEW r,
           \/ Launches \/ ResumeRun(r) \/ AbortRun(r) \/ Intervenes(r) \/ CompleteRun(r)
           \/ DeleteRun(r)
    PROVE  RunnerQuiet'
<1>1. /\ task \in Tasks /\ disk \in [Runs -> Files] /\ (task.pc # "done" => task.run \in Runs)
      /\ \A q \in Runs : disk[q] \in Files
  BY DEF PageInv, RunnerInv, ConservedInv, EventsInv, MadeInv, Fits, DiskTypeOK
<1>2. CASE Launches \/ ResumeRun(r)
  <2>1. /\ task'.pc = "setup" /\ UNCHANGED disk
        /\ session'.status = "running" /\ session'.waiting = FALSE
        /\ \/ task'.call = "polling" /\ task'.active = NoRun /\ task'.before = Stored
           \/ task'.call = "returned"
    <3>1. CASE Launches
      <4>1. PICK q : Launch([NoTask EXCEPT !.run = q, !.before = Stored, !.call = "polling"],
                            [Free EXCEPT !.status = "running"], cache)
        BY <3>1 DEF Launches
      <4>2. /\ task' = [NoTask EXCEPT !.run = q, !.before = Stored, !.call = "polling",
                                      !.pc = "setup", !.msg = tasks * MaxTurns]
            /\ session' = [Free EXCEPT !.status = "running"] /\ UNCHANGED disk
        BY <4>1 DEF Launch, NoTask
      <4>3. QED
        BY <4>2 DEF NoTask, Free
    <3>2. CASE ResumeRun(r)
      <4>1. /\ task' = [NoTask EXCEPT !.run = r, !.active = r,
                                      !.pc = "setup", !.msg = tasks * MaxTurns]
            /\ session' = [Free EXCEPT !.status = "running", !.run = r] /\ UNCHANGED disk
        BY <3>2 DEF ResumeRun, Launch, NoTask
      <4>2. QED
        BY <4>1 DEF NoTask, Free
    <3>3. QED
      BY <1>2, <3>1, <3>2
  <2>2. Stored' = Stored
    BY <2>1 DEF Stored
  <2>3. QED
    BY <2>1, <2>2 DEF RunnerQuiet, SlotInv, AdoptInv, HeldInv
<1>3. CASE AbortRun(r)
  <2>1. /\ session' = IF session.status = "paused" /\ ~session.waiting THEN Free
                      ELSE [session EXCEPT !.status = "aborting", !.waiting = FALSE]
        /\ session.status # "idle" /\ UNCHANGED <<task, disk, cache>>
    BY <1>3 DEF AbortRun
  <2>2. /\ session'.waiting = FALSE
        /\ task.pc # "done" => session'.status = "aborting"
    BY <2>1 DEF Free, PageInv, RunnerInv, SessionOK, RunnerQuiet, SlotInv
  <2>3. Stored' = Stored /\ Statuses' = Statuses
    BY <2>1 DEF Stored, Statuses
  <2>4. QED
    BY <2>1, <2>2, <2>3 DEF RunnerQuiet, SlotInv, AdoptInv, HeldInv
<1>4. CASE Intervenes(r)
  <2>1. /\ session' = [session EXCEPT !.status = "running", !.waiting = FALSE]
        /\ UNCHANGED <<task, disk, cache>>
    BY <1>4 DEF Intervenes
  <2>2. session'.waiting = FALSE /\ session'.status = "running"
    BY <2>1 DEF PageInv, RunnerInv, SessionOK
  <2>3. Stored' = Stored /\ Statuses' = Statuses
    BY <2>1 DEF Stored, Statuses
  <2>4. QED
    BY <2>1, <2>2, <2>3 DEF RunnerQuiet, SlotInv, AdoptInv, HeldInv
<1>5. CASE CompleteRun(r)
  <2>1. /\ session.status = "paused" /\ session.run = r /\ disk[r].status = "completed"
        /\ disk' = [disk EXCEPT ![r].fixed = TRUE] /\ session' = Free
        /\ cache' = [Statuses EXCEPT ![r].fixed = TRUE] /\ UNCHANGED task
    BY <1>5 DEF CompleteRun
  <2>2. task.pc = "done"
    BY <2>1 DEF RunnerQuiet, SlotInv
  <2>3. \A q \in Runs : /\ disk'[q].status = disk[q].status
                        /\ disk'[q].fixed = IF q = r THEN TRUE ELSE disk[q].fixed
    BY <1>1, <2>1 DEF Files
  <2>4. cache' = Statuses'
    <3>1. Statuses' = [q \in Runs |-> [status |-> disk[q].status,
                                       fixed |-> IF q = r THEN TRUE ELSE disk[q].fixed]]
      BY <2>3 DEF Statuses
    <3>2. QED
      BY <2>1, <3>1 DEF Statuses
  <2>5. Stored' = Stored
    BY <2>3 DEF Stored
  <2>6. QED
    BY <2>1, <2>2, <2>4, <2>5 DEF RunnerQuiet, SlotInv, AdoptInv, HeldInv, Free
<1>6. CASE DeleteRun(r)
  <2>1. /\ r \in Runs /\ disk' = [disk EXCEPT ![r] = NoFiles] /\ UNCHANGED <<session, task>>
        /\ cache' = [q \in Runs |-> IF q = r THEN [status |-> "absent", fixed |-> FALSE]
                                             ELSE Statuses[q]]
    BY <1>6 DEF DeleteRun, Stored
  <2>2. \A q \in Runs : /\ disk'[q].status = IF q = r THEN "absent" ELSE disk[q].status
                        /\ disk'[q].fixed = IF q = r THEN FALSE ELSE disk[q].fixed
    BY <1>1, <2>1 DEF NoFiles
  <2>3. cache' = Statuses'
    BY <2>1, <2>2, ZenonT(40) DEF Statuses
  <2>4. Stored' \subseteq Stored
    BY <2>2 DEF Stored
  <2>5. QED
    BY <1>1, <2>1, <2>2, <2>3, <2>4 DEF RunnerQuiet, SlotInv, AdoptInv, HeldInv
<1>7. QED
  BY <1>2, <1>3, <1>4, <1>5, <1>6
-----------------------------------------------------------------------------
(* What is sent *)

LEMMA SnapAfterState ==
    ASSUME PageInv, OneState, UNCHANGED page
    PROVE  SnapInv'
<1>1. PICK S : wire \in Seq(S)
  BY DEF PageInv, RunnerInv, WireOK
<1>2. PICK s, c : s = session' /\ c = cache' /\ wire' = wire \o <<StateFrame(s, c)>>
  BY DEF OneState
<1>3. PICK call : call = task'.call
  OBVIOUS
<1> DEFINE f == StateFrame(s, c)
<1>4. <<f>> \in Seq({f}) /\ Len(<<f>>) = 1 /\ <<f>>[1] = f
  OBVIOUS
<1>5. IsState(f) /\ Tells(f, s, c, call)
  BY DEF StateFrame, IsState, Tells
<1>6. wire' = wire \o <<f>>
  BY <1>2
<1> HIDE DEF f
<1>7. 1 \in 1..Len(<<f>>) /\ (1 + 1)..Len(<<f>>) = {}
  BY <1>4
<1>8. Newest(wire \o <<f>>, page, s, c, call)
  BY <1>1, <1>4, <1>5, <1>7, NewestSent
<1>9. QED
  BY <1>2, <1>3, <1>6, <1>8 DEF SnapInv

LEMMA SnapAfterEvent ==
    ASSUME PageInv, SnapInv, OneEvent \/ UNCHANGED wire, UNCHANGED page,
           \A x : Tells(x, session, cache, task.call) => Tells(x, session', cache', task'.call)
    PROVE  SnapInv'
<1>1. PICK S : wire \in Seq(S)
  BY DEF PageInv, RunnerInv, WireOK
<1>2. PICK s, c, call : s = session' /\ c = cache' /\ call = task'.call
  OBVIOUS
<1>3. \A x : Tells(x, session, cache, task.call) => Tells(x, s, c, call)
  BY <1>2
<1>4. CASE UNCHANGED wire
  <2>1. Newest(wire, page, s, c, call)
    BY <1>1, <1>3, NewestSame DEF SnapInv
  <2>2. QED
    BY <1>2, <1>4, <2>1 DEF SnapInv
<1>5. CASE OneEvent
  <2>1. PICK e : wire' = wire \o <<EventFrame(task.active, e)>>
    BY <1>5 DEF OneEvent
  <2> DEFINE f == EventFrame(task.active, e)
  <2>2. <<f>> \in Seq({f}) /\ Len(<<f>>) = 1 /\ <<f>>[1] = f
    OBVIOUS
  <2>3. ~IsState(f)
    BY DEF EventFrame, IsState
  <2>4. wire' = wire \o <<f>>
    BY <2>1
  <2> HIDE DEF f
  <2>5. \A i \in 1..Len(<<f>>) : ~IsState(<<f>>[i])
    BY <2>2, <2>3
  <2>6. Newest(wire \o <<f>>, page, s, c, call)
    BY <1>1, <1>3, <2>2, <2>5, NewestStays DEF SnapInv
  <2>7. QED
    BY <1>2, <2>4, <2>6 DEF SnapInv
<1>6. QED
  BY <1>4, <1>5

\* The end of a task: a snapshot, and the events that were held.
LEMMA SnapAfterEnd ==
    ASSUME PageInv, TearsDown, UNCHANGED page
    PROVE  SnapInv'
<1>1. PICK S : wire \in Seq(S)
  BY DEF PageInv, RunnerInv, WireOK
<1>2. PICK s, c, call : s = session' /\ c = cache' /\ call = task'.call
  OBVIOUS
<1> DEFINE held == task.buffer \o Failure
           f == StateFrame(s, c)
           rest == [i \in DOMAIN held |-> EventFrame(task.active, held[i])]
<1>3. wire' = wire \o <<f>> \/ wire' = wire \o (<<f>> \o rest)
  BY <1>2 DEF TearsDown, Sends
<1>4. CASE wire' = wire \o <<f>>
  <2>1. OneState
    BY <1>2, <1>4 DEF OneState
  <2>2. QED
    BY <2>1, SnapAfterState
<1>5. CASE wire' = wire \o (<<f>> \o rest)
  <2>1. \E n \in Nat : DOMAIN held = 1..n
    <3>1. task.buffer \in Seq(Events)
      BY DEF PageInv, RunnerInv, ConservedInv, EventsInv, MadeInv, Fits, Tasks
    <3>2. \E T : Failure \in Seq(T)
      <4>1. (\E e : Failure = <<e>>) \/ Failure = << >>
        BY DEF Failure
      <4>2. (\A e : <<e>> \in Seq({e})) /\ << >> \in Seq({})
        OBVIOUS
      <4>3. QED
        BY <4>1, <4>2
    <3>3. PICK T : Failure \in Seq(T)
      BY <3>2
    <3>4. task.buffer \in Seq(Events \cup T) /\ Failure \in Seq(Events \cup T)
      BY <3>1, <3>3
    <3>5. held \in Seq(Events \cup T)
      BY <3>4
    <3>6. QED
      BY <3>5
  <2>2. PICK n \in Nat : DOMAIN held = 1..n
    BY <2>1
  <2>3. \A i \in 1..n : ~IsState(rest[i])
    BY <2>2 DEF EventFrame, IsState
  <2>4. IsState(f) /\ Tells(f, s, c, call)
    BY DEF StateFrame, IsState, Tells
  <2> HIDE DEF held
  <2>5. DOMAIN rest = 1..n /\ rest \in [1..n -> In(rest)]
    BY <2>2 DEF In
  <2> HIDE DEF rest, f
  <2>6. rest \in Seq(In(rest)) /\ Len(rest) = n
    BY <2>2, <2>5
  <2> DEFINE fs == <<f>> \o rest
  <2>7. <<f>> \in Seq({f}) /\ Len(<<f>>) = 1 /\ <<f>>[1] = f
    OBVIOUS
  <2>8. /\ fs \in Seq({f} \cup In(rest)) /\ Len(fs) = 1 + n
        /\ \A i \in 1..Len(<<f>>) : fs[i] = <<f>>[i]
        /\ \A i \in 1..Len(rest) : fs[Len(<<f>>) + i] = rest[i]
    BY <2>6, <2>7, Joined
  <2>9. fs[1] = f /\ \A i \in 1..n : fs[1 + i] = rest[i]
    BY <2>6, <2>7, <2>8
  <2>10. wire' = wire \o fs
    BY <1>5
  <2> HIDE DEF fs
  <2>11. ASSUME NEW i \in (1 + 1)..Len(fs) PROVE ~IsState(fs[i])
    <3>1. i - 1 \in 1..n /\ 1 + (i - 1) = i
      BY <2>8
    <3>2. QED
      BY <2>3, <2>9, <3>1
  <2>12. 1 \in 1..Len(fs) /\ IsState(fs[1]) /\ Tells(fs[1], s, c, call)
    BY <2>4, <2>8, <2>9
  <2>13. Newest(wire \o fs, page, s, c, call)
    BY <1>1, <2>8, <2>11, <2>12, NewestSent
  <2>14. QED
    BY <1>2, <2>10, <2>13 DEF SnapInv
<1>6. QED
  BY <1>3, <1>4, <1>5

LEMMA PauseSent ==
    ASSUME PageInv, Pauses, UNCHANGED <<page, vis>>
    PROVE  SnapInv' /\ WaitInv'
<1>1. PICK S : wire \in Seq(S)
  BY DEF PageInv, RunnerInv, WireOK
<1>2. PICK s, c, call, r : /\ s = session' /\ c = cache' /\ call = task'.call
                           /\ r = task.run
  OBVIOUS
<1> DEFINE f == PromptFrame(r)
           g == StateFrame(s, c)
<1>3. /\ wire' = wire \o <<f, g>> /\ s.status = "paused" /\ s.run = r
  BY <1>2 DEF Pauses, Sends
<1>4. Shows(wire \o <<f, g>>, page, vis, r)
  <2>1. OfPause(s, r)
    BY <1>3 DEF OfPause
  <2>2. QED
    BY <1>1, <2>1, ShowsPause
<1>5. /\ <<f, g>> \in Seq({f, g}) /\ Len(<<f, g>>) = 2 /\ <<f, g>>[2] = g
  OBVIOUS
<1>6. IsState(g) /\ Tells(g, s, c, call)
  BY DEF StateFrame, IsState, Tells
<1> HIDE DEF f, g
<1>7. 2 \in 1..Len(<<f, g>>) /\ (2 + 1)..Len(<<f, g>>) = {}
  BY <1>5
<1>8. Newest(wire \o <<f, g>>, page, s, c, call)
  BY <1>1, <1>5, <1>6, <1>7, NewestSent
<1>9. QED
  BY <1>2, <1>3, <1>4, <1>8 DEF SnapInv, WaitInv

\* A snapshot of the paused session leaves what the page will show.
LEMMA WaitAfterState ==
    ASSUME PageInv, SlotInv, WaitInv, OneState, UNCHANGED <<session, page, vis>>,
           Flushing => Flushing'
    PROVE  WaitInv'
<1>1. PICK S : wire \in Seq(S)
  BY DEF PageInv, RunnerInv, WireOK
<1>2. PICK s, c : s = session' /\ c = cache' /\ wire' = wire \o <<StateFrame(s, c)>>
  BY DEF OneState
<1> DEFINE f == StateFrame(s, c)
<1>3. <<f>> \in Seq({f}) /\ Len(<<f>>) = 1 /\ <<f>>[1] = f
  OBVIOUS
<1>4. IsState(f) /\ ~OfRun(f, session.run) /\ (session.waiting => OfPause(f, session.run))
  BY <1>2 DEF StateFrame, IsState, OfRun, OfPause, SlotInv
<1>5. wire' = wire \o <<f>>
  BY <1>2
<1> HIDE DEF f
<1>6. ASSUME session.waiting
      PROVE  \/ Flushing /\ Aware(wire \o <<f>>, page, session.run)
             \/ Shows(wire \o <<f>>, page, vis, session.run)
  <2>1. /\ \A i \in 1..Len(<<f>>) : IsState(<<f>>[i]) => OfPause(<<f>>[i], session.run)
        /\ \A i \in 1..Len(<<f>>) : ~OfRun(<<f>>[i], session.run)
    BY <1>3, <1>4, <1>6
  <2>2. \A j \in 0..Len(wire) :
          Knows(wire, page, session.run, j) =>
            j \in 0..Len(wire \o <<f>>) /\ Knows(wire \o <<f>>, page, session.run, j)
    BY <1>1, <1>3, <2>1, AwareStays
  <2>3. Aware(wire, page, session.run) => Aware(wire \o <<f>>, page, session.run)
    BY <2>2 DEF Aware
  <2>4. Shows(wire, page, vis, session.run) => Shows(wire \o <<f>>, page, vis, session.run)
    BY <1>1, <1>3, <2>1, ShowsStays
  <2>5. QED
    BY <1>6, <2>3, <2>4 DEF WaitInv
<1>7. QED
  BY <1>5, <1>6 DEF WaitInv

\* The held events of a task that waits: the last of them says so.
LEMMA WaitAfterFlush ==
    ASSUME PageInv, RunnerQuiet, WaitInv, FlushNext, UNCHANGED <<page, vis>>
    PROVE  WaitInv'
<1>1. PICK S : wire \in Seq(S)
  BY DEF PageInv, RunnerInv, WireOK
<1>2. /\ task \in Tasks /\ task.flush \in Seq(Events)
  BY DEF PageInv, RunnerInv, ConservedInv, EventsInv, MadeInv, Fits, Tasks
<1>3. PICK e, r, fl : e = Head(task.flush) /\ r = session.run /\ fl = task'.flush
  OBVIOUS
<1>4. /\ UNCHANGED session /\ task.call = "flushing" /\ task.flush # << >>
      /\ task'.call = "flushing" /\ fl = Tail(task.flush)
      /\ wire' = wire \o <<EventFrame(task.active, e)>>
  BY <1>2, <1>3 DEF FlushNext, Tasks, Sends
<1> SUFFICES ASSUME session.waiting PROVE WaitInv'
  BY <1>4 DEF WaitInv
<1>5. /\ session.run = task.run /\ task.active = task.run /\ task.pc = "wait"
      /\ EndsWaiting(task.flush)
  BY <1>4 DEF RunnerQuiet, SlotInv, AdoptInv, HeldInv
<1>6. Aware(wire, page, r)
  BY <1>3 DEF WaitInv, Aware, Shows
<1> DEFINE f == EventFrame(r, e)
<1>7. CASE fl # << >>
  <2>1. <<f>> \in Seq({f}) /\ Len(<<f>>) = 1 /\ <<f>>[1] = f /\ ~IsState(f)
    BY DEF EventFrame, IsState
  <2>2. wire' = wire \o <<f>>
    BY <1>3, <1>4, <1>5
  <2> HIDE DEF f
  <2>3. \A i \in 1..Len(<<f>>) : IsState(<<f>>[i]) => OfPause(<<f>>[i], r)
    BY <2>1
  <2>4. \A j \in 0..Len(wire) :
          Knows(wire, page, r, j) =>
            j \in 0..Len(wire \o <<f>>) /\ Knows(wire \o <<f>>, page, r, j)
    BY <1>1, <2>1, <2>3, AwareStays
  <2>5. Aware(wire \o <<f>>, page, r)
    BY <1>6, <2>4 DEF Aware
  <2>6. QED
    BY <1>3, <1>4, <1>7, <2>2, <2>5 DEF WaitInv, Flushing
<1>8. CASE fl = << >>
  <2>1. /\ Len(task.flush) \in Nat \ {0} /\ Len(fl) = Len(task.flush) - 1
        /\ e = task.flush[1]
    BY <1>2, <1>3, <1>4, TailOf
  <2>2. Len(task.flush) = 1
    BY <1>8, <2>1
  <2>3. SaysWaiting(e)
    BY <1>5, <2>1, <2>2 DEF EndsWaiting
  <2>4. Shows(wire \o <<f>>, page, vis, r)
    BY <1>1, <1>6, <2>3, ShowsAtLast
  <2>5. wire' = wire \o <<f>>
    BY <1>3, <1>4, <1>5
  <2> HIDE DEF f
  <2>6. QED
    BY <1>3, <1>4, <2>4, <2>5 DEF WaitInv
<1>9. QED
  BY <1>7, <1>8

LEMMA TaskSends ==
    ASSUME PageInv, RunnerQuiet, SnapInv, WaitInv, TaskStep, UNCHANGED <<page, vis>>
    PROVE  SnapInv' /\ WaitInv'
<1>1. /\ task \in Tasks /\ DiskTypeOK
  BY DEF PageInv, RunnerInv, ConservedInv, EventsInv, MadeInv, Fits
<1>2. CASE SaysSomething
  <2>1. PICK e, t, pc : Emits(e, t) /\ GoesTo(t, pc)
    BY <1>1, <1>2, SaysWhat
  <2>2. task'.call = task.call /\ (OneEvent \/ UNCHANGED wire)
    BY <2>1, EmitsWhat DEF GoesTo
  <2>3. UNCHANGED <<session, cache>> /\ ~session.waiting
    BY <1>1, <1>2, SaysWhere DEF RunnerQuiet, SlotInv
  <2>4. QED
    BY <2>2, <2>3, SnapAfterEvent DEF WaitInv
<1>3. CASE LedgerSaved
  <2>1. OneEvent /\ UNCHANGED <<session, cache>> /\ task.sink # << >>
        /\ task' = [task EXCEPT !.sink = << >>]
    BY <1>3 DEF LedgerSaved, Sends, OneEvent
  <2>2. task'.call = task.call
    BY <1>1, <2>1 DEF Tasks
  <2>3. ~session.waiting
    BY <2>1 DEF RunnerQuiet, SlotInv
  <2>4. QED
    BY <2>1, <2>2, <2>3, SnapAfterEvent DEF WaitInv
<1>4. CASE FlushNext
  <2>1. OneEvent /\ UNCHANGED <<session, cache>>
    BY <1>4 DEF FlushNext, Sends, OneEvent
  <2>2. task'.call = task.call
    BY <1>1, <1>4 DEF Tasks, FlushNext
  <2>3. QED
    BY <1>4, <2>1, <2>2, SnapAfterEvent, WaitAfterFlush
<1>5. CASE PollFinds
  <2>1. /\ task.call = "polling" /\ UNCHANGED <<cache, wire>>
        /\ \E r \in Runs :
             /\ task' = [task EXCEPT !.active = r, !.call = "adopted"]
             /\ session' = IF session.status \in {"running", "paused"} /\ session.run = NoRun
                           THEN [session EXCEPT !.run = r] ELSE session
    BY <1>5 DEF PollFinds, Stored
  <2>2. /\ task'.call = "adopted" /\ session'.status = session.status
        /\ session'.waiting = session.waiting
        /\ session.run # NoRun => session'.run = session.run
    BY <1>1, <2>1 DEF Tasks, PageInv, RunnerInv, SessionOK
  <2>3. \A x : Tells(x, session, cache, task.call) => Tells(x, session', cache', task'.call)
    BY <2>1, <2>2 DEF Tells
  <2>4. session.waiting => session.run # NoRun
    BY EventsAssumption DEF RunnerQuiet, SlotInv
  <2>5. QED
    BY <2>1, <2>2, <2>3, <2>4, SnapAfterEvent DEF WaitInv, Flushing
<1>6. CASE PollGivesUp \/ PollReturns
  <2>1. /\ UNCHANGED <<session, cache, wire>> /\ task'.call \in {"failed", "returned"}
        /\ task.call # "adopted" /\ ~Flushing
    BY <1>1, <1>6 DEF PollGivesUp, PollReturns, Flushing, Tasks
  <2>2. \A x : Tells(x, session, cache, task.call) => Tells(x, session', cache', task'.call)
    BY <2>1 DEF Tells
  <2>3. QED
    BY <2>1, <2>2, SnapAfterEvent DEF WaitInv
<1>7. CASE PollRefreshes
  <2>1. OneState /\ UNCHANGED session /\ task.call = "adopted"
    BY <1>7 DEF PollRefreshes, Sends, OneState
  <2>2. ~Flushing
    BY <2>1 DEF Flushing
  <2>3. QED
    BY <2>1, <2>2, SnapAfterState, WaitAfterState DEF RunnerQuiet
<1>8. CASE Open \/ SetupFails \/ Aborts \/ Vanished
  <2>1. UNCHANGED <<session, cache, wire>> /\ ~session.waiting
    BY <1>8 DEF Open, SetupFails, Aborts, Vanished, Works, Aborted, RunnerQuiet, SlotInv
  <2>2. task'.call = task.call
    BY <1>1, <1>8 DEF Open, SetupFails, Aborts, Vanished, Goes, Tasks
  <2>3. QED
    BY <2>1, <2>2, SnapAfterEvent DEF WaitInv
<1>9. CASE RoundComplete
  <2>1. OneState
    BY <1>9 DEF RoundComplete, Sends, OneState
  <2>2. session'.waiting = FALSE
    BY <1>9 DEF RoundComplete, Free, PageInv, RunnerInv, SessionOK
  <2>3. QED
    BY <2>1, <2>2, SnapAfterState DEF WaitInv
<1>10. CASE TearsDown
  <2>1. session'.waiting = FALSE
    BY <1>10 DEF TearsDown, Free
  <2>2. QED
    BY <1>10, <2>1, SnapAfterEnd DEF WaitInv
<1>11. CASE Pauses
  BY <1>11, PauseSent
<1>12. QED
  BY <1>2, <1>3, <1>4, <1>5, <1>6, <1>7, <1>8, <1>9, <1>10, <1>11 DEF TaskStep, SaysSomething

LEMMA UserSends ==
    ASSUME PageInv, RunnerQuiet, SnapInv, WaitInv, UNCHANGED <<page, vis>>, NEW r,
           \/ Launches \/ ResumeRun(r) \/ AbortRun(r) \/ Intervenes(r) \/ CompleteRun(r)
           \/ DeleteRun(r)
    PROVE  SnapInv' /\ WaitInv'
<1>1. OneState
  BY DEF Launches, ResumeRun, Launch, AbortRun, Intervenes, CompleteRun, DeleteRun, Sends,
     OneState
<1>2. SnapInv'
  BY <1>1, SnapAfterState
<1>3. CASE DeleteRun(r)
  <2>1. UNCHANGED <<session, task>>
    BY <1>3 DEF DeleteRun
  <2>2. QED
    BY <1>1, <1>2, <2>1, WaitAfterState DEF RunnerQuiet, Flushing
<1>4. CASE Launches \/ ResumeRun(r) \/ AbortRun(r) \/ Intervenes(r) \/ CompleteRun(r)
  <2>1. session'.waiting = FALSE
    <3>1. CASE Launches
      <4>1. session' = [Free EXCEPT !.status = "running"]
        BY <3>1 DEF Launches, Launch
      <4>2. QED
        BY <4>1 DEF Free
    <3>2. CASE ResumeRun(r)
      <4>1. session' = [Free EXCEPT !.status = "running", !.run = r]
        BY <3>2 DEF ResumeRun, Launch
      <4>2. QED
        BY <4>1 DEF Free
    <3>3. CASE AbortRun(r)
      <4>1. session' = IF session.status = "paused" /\ ~session.waiting THEN Free
                       ELSE [session EXCEPT !.status = "aborting", !.waiting = FALSE]
        BY <3>3 DEF AbortRun
      <4>2. QED
        BY <4>1 DEF Free, PageInv, RunnerInv, SessionOK
    <3>4. CASE Intervenes(r)
      <4>1. session' = [session EXCEPT !.status = "running", !.waiting = FALSE]
        BY <3>4 DEF Intervenes
      <4>2. QED
        BY <4>1 DEF PageInv, RunnerInv, SessionOK
    <3>5. CASE CompleteRun(r)
      <4>1. session' = Free
        BY <3>5 DEF CompleteRun
      <4>2. QED
        BY <4>1 DEF Free
    <3>6. QED
      BY <1>4, <3>1, <3>2, <3>3, <3>4, <3>5
  <2>2. QED
    BY <1>2, <2>1 DEF WaitInv
<1>5. QED
  BY <1>3, <1>4
-----------------------------------------------------------------------------
(* Every step *)

LEMMA QuietInit == Init => QuietInv
<1> SUFFICES ASSUME Init PROVE QuietInv
  OBVIOUS
<1>1. /\ session = Free /\ task = NoTask /\ cache = Statuses /\ wire = << >>
      /\ page = [status |-> "idle", run |-> NoRun, cache |-> cache] /\ vis = "none"
  BY DEF Init, RunnerInit, ViewInit
<1>2. SlotInv /\ AdoptInv /\ HeldInv /\ IdleInv
  BY <1>1 DEF SlotInv, AdoptInv, HeldInv, IdleInv, Free, NoTask
<1>3. SnapInv
  <2>1. Len(wire) = 0
    BY <1>1
  <2>2. 0 \in 0..Len(wire) /\ (0 + 1)..Len(wire) = {}
    BY <2>1
  <2>3. Tells(page, session, cache, task.call)
    BY <1>1 DEF Tells, Free
  <2>4. QED
    BY <2>2, <2>3 DEF SnapInv, Newest
<1>4. WaitInv
  BY <1>1 DEF WaitInv, Free
<1>5. QED
  BY <1>2, <1>3, <1>4 DEF QuietInv

\* What the runner does while the page takes nothing.
LEMMA RunnerMovesQuietly ==
    ASSUME ~SlowFlush, PageInv, QuietInv, UNCHANGED <<page, vis>>, NEW r,
           \/ UNCHANGED runner \/ TaskStep \/ Launches \/ ResumeRun(r) \/ AbortRun(r)
           \/ Intervenes(r) \/ CompleteRun(r) \/ DeleteRun(r)
    PROVE  QuietInv'
<1>1. RunnerQuiet /\ IdleInv'
  BY DEF QuietInv, RunnerQuiet, IdleInv
<1>2. CASE UNCHANGED runner
  BY <1>2 DEF QuietInv, SlotInv, AdoptInv, HeldInv, SnapInv, WaitInv, IdleInv, Flushing,
     Statuses, Stored, runner
<1>3. CASE TaskStep
  <2>1. RunnerQuiet'
    BY <1>1, <1>3, SaysKeepQuiet, CallKeepsQuiet, WorkKeepsQuiet DEF TaskStep, SaysSomething
  <2>2. SnapInv' /\ WaitInv'
    BY <1>1, <1>3, TaskSends DEF QuietInv
  <2>3. QED
    BY <1>1, <2>1, <2>2 DEF QuietInv, RunnerQuiet
<1>4. CASE \/ Launches \/ ResumeRun(r) \/ AbortRun(r) \/ Intervenes(r) \/ CompleteRun(r)
           \/ DeleteRun(r)
  <2>1. RunnerQuiet'
    BY <1>1, <1>4, UserKeepsQuiet
  <2>2. SnapInv' /\ WaitInv'
    BY <1>1, <1>4, UserSends DEF QuietInv
  <2>3. QED
    BY <1>1, <2>1, <2>2 DEF QuietInv, RunnerQuiet
<1>5. QED
  BY <1>2, <1>3, <1>4

LEMMA QuietStep == ~SlowFlush /\ PageInv /\ QuietInv /\ [Next]_vars => QuietInv'
<1> SUFFICES ASSUME ~SlowFlush, PageInv, QuietInv, [Next]_vars PROVE QuietInv'
  OBVIOUS
<1>1. CASE TaskStep /\ UNCHANGED view
  BY <1>1, RunnerMovesQuietly DEF view
<1>2. CASE TakesFrame
  <2>1. UNCHANGED <<session, task, disk, cache>>
    BY <1>2 DEF TakesFrame
  <2>2. SlotInv' /\ AdoptInv' /\ HeldInv'
    BY <2>1 DEF QuietInv, SlotInv, AdoptInv, HeldInv, Statuses, Stored
  <2>3. QED
    BY <1>2, <2>2, TakesFrameQuiet DEF QuietInv
<1>3. CASE HistoryTimer \/ HistoryAnswer \/ StopsWaiting \/ StartAnswered
  BY <1>3, RunnerMovesQuietly DEF HistoryTimer, HistoryAnswer, StopsWaiting, StartAnswered
<1>4. CASE UserStep
  <2>1. UNCHANGED <<page, vis>>
    BY <1>4 DEF UserStep, Select, PressAbort, PressResume, PressComplete, SendMessage, Presses,
       SendAfterRound, PressDelete, PressStart
  <2>2. CASE Select
    BY <2>1, <2>2, RunnerMovesQuietly DEF Select
  <2>3. CASE PressAbort \/ PressResume \/ PressComplete \/ SendMessage
    BY <2>1, <2>3, RunnerMovesQuietly DEF PressAbort, PressResume, PressComplete, SendMessage
  <2>4. CASE SendAfterRound
    BY <2>1, <2>4, RunnerMovesQuietly DEF SendAfterRound, Continues
  <2>5. CASE PressDelete
    BY <2>1, <2>5, RunnerMovesQuietly DEF PressDelete
  <2>6. CASE PressStart
    <3>1. UNCHANGED runner \/ AbortRun(page.run)
      BY <2>6 DEF PressStart
    <3>2. QED
      BY <2>1, <3>1, RunnerMovesQuietly
  <2>7. QED
    BY <1>4, <2>2, <2>3, <2>4, <2>5, <2>6 DEF UserStep
<1>5. CASE Starts
  <2>1. (UNCHANGED runner \/ Launches) /\ UNCHANGED <<page, vis>>
    BY <1>5 DEF Starts, StartRun
  <2>2. QED
    BY <2>1, RunnerMovesQuietly
<1>6. CASE UNCHANGED vars
  BY <1>6, RunnerMovesQuietly DEF vars, view
<1>7. QED
  BY <1>1, <1>2, <1>3, <1>4, <1>5, <1>6 DEF Next

\* Whatever a page took, and when, it agrees with a session at rest once it has
\* taken all (startRunInternal, notifySidebarStateChanged, App.tsx, RunsPage.tsx):
\* its status, run and records, a pause shown as waiting with its button, an idle
\* session's runs by their records.  A round may not end while the events held at
\* its start are sent.
THEOREM QuietViews ==
    ASSUME ~SlowFlush
    PROVE  Spec => []QuietViewIsTrue
<1>1. PageInv /\ QuietInv /\ [Next]_vars => QuietInv'
  BY QuietStep
<1>2. PageInv /\ QuietInv => QuietViewIsTrue
  <2> SUFFICES ASSUME PageInv, QuietInv, wire = << >>,
                      task.pc \in {"wait", "done"}, task.call \in {"returned", "failed"}
               PROVE  /\ page.status = session.status /\ page.run = session.run
                      /\ session.status = "idle" => page.cache = Statuses /\ vis = "none"
                      /\ session.waiting => /\ vis = "waiting"
                                            /\ sel = session.run => CanIntervene
    BY DEF QuietViewIsTrue
  <2>1. Len(wire) = 0
    OBVIOUS
  <2>2. Tells(page, session, cache, task.call)
    BY <2>1 DEF QuietInv, SnapInv, Newest
  <2>3. page.status = session.status /\ page.run = session.run /\ page.cache = cache
    BY <2>2 DEF Tells
  <2>4. session.status = "idle" => page.cache = Statuses /\ vis = "none"
    BY <2>3 DEF QuietInv, SlotInv, IdleInv
  <2>5. ASSUME session.waiting PROVE vis = "waiting" /\ (sel = session.run => CanIntervene)
    <3>1. Shows(wire, page, vis, session.run)
      BY <2>5 DEF QuietInv, WaitInv, Flushing
    <3>2. vis = "waiting"
      BY <2>1, <3>1 DEF Shows, Marks
    <3>3. session.status = "paused" /\ session.run # NoRun
      BY <2>5, EventsAssumption DEF QuietInv, SlotInv
    <3>4. QED
      BY <2>3, <3>2, <3>3 DEF CanIntervene, IsLive
  <2>6. QED
    BY <2>3, <2>4, <2>5
<1>3. QED
  BY <1>1, <1>2, QuietInit, PageIsSound, PTL DEF Spec
=============================================================================
