-------------------------- MODULE ProjectPageProofs --------------------------
(***************************************************************************)
(* Proofs about ProjectPage and Posting, for any postings, names, requests *)
(* and jobs.                                                               *)
(*                                                                         *)
(* The page catches up (PageCatchesUp).  A change goes three ways: from    *)
(* the disk into what a refresh has read, from there into the cache, from  *)
(* the cache onto the wire.  FlowInv says at each of them: unless somebody *)
(* is still to take it further, the last on its way is what is behind it.  *)
(* A refresh that is overtaken is in front of those that overtook it, so   *)
(* the last that read the disk counts unless one before it assigns later.  *)
(*                                                                         *)
(* Names called factual have support (FactsHaveSupport).  Two members of a *)
(* group of candidates have two sources; the best of them agrees with the  *)
(* other or with the anchor of the group, one of which is of another       *)
(* source; and each source is a place of the posting.                      *)
(***************************************************************************)
EXTENDS ProjectPage, FiniteSetTheorems, SequenceTheorems, NaturalsInduction,
        WellFoundedInduction, TLAPS

-----------------------------------------------------------------------------
(* The invariants *)

\* Every task is a record that says where it is, a request also what the page
\* does once it is answered.
TaskInv ==
    /\ task = [t \in Tasks |-> task[t]]
    /\ \A t \in Tasks : "pc" \in DOMAIN task[t]
    /\ task["request"].pc # "idle" =>
         /\ "next" \in DOMAIN task["request"]
         /\ task["request"].next \in {"state", "generate", "saved", "none"}

\* Those that have read are those that are to assign.  The overtaken are in front.
Reading(t) == task[t].pc \in {"assign", "reassign"}
Readers == {t \in Tasks : Reading(t)}
ReadInv ==
    /\ reading \in Seq(Range(reading))
    /\ \A i \in DOMAIN reading : reading[i].by \in Readers
    /\ \A i, j \in DOMAIN reading : reading[i].by = reading[j].by => i = j
    /\ \A t \in Readers : \E i \in DOMAIN reading : reading[i].by = t
    /\ \A i, j \in DOMAIN reading :
         i <= j /\ reading[j].by \in late => reading[i].by \in late
    /\ late \subseteq Readers

\* When nobody is still to read the disk, the last that read it has read it as it
\* is, and the cache will have that or has it.
Owes(t) == task[t].pc \in {"fetch", "gate", "collect", "ask", "read", "reread"}
CacheInv ==
    /\ crossed \in BOOLEAN
    /\ (\A t \in Tasks : ~Owes(t)) =>
         \/ /\ reading # << >> /\ reading[Len(reading)].by \notin late
            /\ reading[Len(reading)].list = disk
         \/ /\ \A i \in DOMAIN reading : reading[i].by \in late
            /\ crossed \/ cache = disk

\* When nobody is still to push the cache, the page will see it as it is or does.
Pushes(t) == task[t].pc \in {"push", "repush"}
AnswerOK ==
    answer # NoAnswer =>
      /\ {"list", "before", "passed"} \subseteq DOMAIN answer
      /\ answer.before \in 0..Len(wire) /\ answer.passed \in BOOLEAN
WireInv ==
    /\ wire \in Seq(Range(wire)) /\ AnswerOK
    /\ (\A t \in Tasks : ~Pushes(t)) =>
         /\ IF wire = << >> THEN crossed \/ shown = cache ELSE wire[Len(wire)] = cache
         /\ answer # NoAnswer /\ ~answer.passed =>
              answer.list = cache \/ answer.before < Len(wire)

FlowInv == TaskInv /\ ReadInv /\ CacheInv /\ WireInv

\* What the create form shows of a posting is an analysis of a page it fetched.
FormInv ==
    /\ web \in Pages
    /\ "result" \in DOMAIN form
    /\ form.result # NoResult => \E e \in Analyses : form.result = e

-----------------------------------------------------------------------------
(* Sequences *)

LEMMA Concatenated ==
    ASSUME NEW S, NEW a \in Seq(S), NEW b \in Seq(S)
    PROVE  /\ a \o b \in Seq(S) /\ Len(a \o b) = Len(a) + Len(b)
           /\ \A k \in 1..Len(a) : (a \o b)[k] = a[k]
           /\ \A k \in 1..Len(b) : (a \o b)[Len(a) + k] = b[k]
OBVIOUS

LEMMA Removed ==
    ASSUME NEW S, NEW s \in Seq(S), NEW i \in 1..Len(s)
    PROVE  /\ RemoveAt(s, i) \in Seq(S) /\ Len(RemoveAt(s, i)) = Len(s) - 1
           /\ \A k \in 1..(Len(s) - 1) : RemoveAt(s, i)[k] = IF k < i THEN s[k] ELSE s[k + 1]
<1> DEFINE a == SubSeq(s, 1, i - 1)
           b == SubSeq(s, i + 1, Len(s))
<1>1. /\ a \in Seq(S) /\ Len(a) = i - 1 /\ \A k \in 1..(i - 1) : a[k] = s[k]
  OBVIOUS
<1>2. /\ b \in Seq(S) /\ Len(b) = Len(s) - i /\ \A k \in 1..(Len(s) - i) : b[k] = s[i + k]
  OBVIOUS
<1> HIDE DEF a, b
<1>3. /\ a \o b \in Seq(S) /\ Len(a \o b) = Len(s) - 1
      /\ \A k \in 1..(Len(s) - 1) : (a \o b)[k] = IF k < i THEN a[k] ELSE b[k - i + 1]
  <2>1. /\ a \o b \in Seq(S) /\ Len(a \o b) = Len(a) + Len(b)
        /\ \A k \in 1..Len(a) : (a \o b)[k] = a[k]
        /\ \A k \in 1..Len(b) : (a \o b)[Len(a) + k] = b[k]
    <3>1. a \in Seq(S) /\ b \in Seq(S)
      BY <1>1, <1>2
    <3>2. QED
      BY <3>1, Concatenated
  <2>2. Len(a) + Len(b) = Len(s) - 1
    BY <1>1, <1>2
  <2>3. ASSUME NEW k \in 1..(Len(s) - 1)
        PROVE  (a \o b)[k] = IF k < i THEN a[k] ELSE b[k - i + 1]
    <3>1. CASE k < i
      BY <1>1, <2>1, <3>1
    <3>2. CASE ~(k < i)
      <4>1. k - i + 1 \in 1..Len(b) /\ Len(a) + (k - i + 1) = k
        BY <1>1, <1>2, <3>2
      <4>2. QED
        BY <2>1, <3>2, <4>1
    <3>3. QED
      BY <3>1, <3>2
  <2>4. QED
    BY <2>1, <2>2, <2>3
<1>4. RemoveAt(s, i) = a \o b
  BY DEF RemoveAt, a, b
<1>5. \A k \in 1..(Len(s) - 1) : (a \o b)[k] = IF k < i THEN s[k] ELSE s[k + 1]
  BY <1>1, <1>2, <1>3
<1>6. QED
  BY <1>3, <1>4, <1>5

-----------------------------------------------------------------------------
(* The moves of tasks *)

Alone(t) == \A u \in Tasks \ {t} : task'[u] = task[u]

LEMMA Goes ==
    ASSUME TaskInv, NEW t \in Tasks, NEW v, task' = Goto(t, v),
           t = "request" => task[t].pc # "idle"
    PROVE  TaskInv' /\ task'[t].pc = v /\ Alone(t)
<1>1. /\ task' = [task EXCEPT ![t] = [task[t] EXCEPT !.pc = v]]
      /\ task = [u \in Tasks |-> task[u]] /\ "pc" \in DOMAIN task[t]
  BY DEF Goto, TaskInv
<1>2. /\ task' = [u \in Tasks |-> task'[u]]
      /\ task'[t] = [task[t] EXCEPT !.pc = v] /\ Alone(t)
  BY <1>1 DEF Alone
<1>3. task'[t].pc = v /\ DOMAIN task'[t] = DOMAIN task[t]
  BY <1>1, <1>2
<1>4. "next" \in DOMAIN task[t] => task'[t].next = task[t].next
  BY <1>2
<1>5. QED
  BY <1>1, <1>2, <1>3, <1>4 DEF TaskInv, Alone

LEMMA Becomes ==
    ASSUME TaskInv, NEW t \in Tasks, NEW r, task' = [task EXCEPT ![t] = r],
           "pc" \in DOMAIN r,
           t = "request" /\ r.pc # "idle" =>
             "next" \in DOMAIN r /\ r.next \in {"state", "generate", "saved", "none"}
    PROVE  TaskInv' /\ task'[t] = r /\ Alone(t)
BY DEF TaskInv, Alone

LEMMA SameReads ==
    ASSUME ReadInv, Readers' = Readers, UNCHANGED <<reading, late>>
    PROVE  ReadInv'
BY DEF ReadInv

\* A task works: it may write the disk if it reads it later.
LEMMA WorkKeeps ==
    ASSUME FlowInv, TaskInv', NEW t \in Tasks, Alone(t),
           UNCHANGED <<cache, reading, late, wire, answer, crossed, shown>>,
           ~Reading(t), ~Reading(t)', ~Pushes(t),
           Owes(t)' \/ (disk' = disk /\ ~Owes(t))
    PROVE  FlowInv'
<1>1. \A u \in Tasks \ {t} : /\ Reading(u)' <=> Reading(u)
                             /\ Owes(u)' <=> Owes(u)
                             /\ Pushes(u)' <=> Pushes(u)
  BY DEF Alone, Reading, Owes, Pushes
<1>2. ReadInv'
  <2>1. Readers' = Readers
    BY <1>1 DEF Readers, Reading
  <2>2. QED
    BY <2>1, SameReads DEF FlowInv
<1>3. CacheInv'
  <2>1. crossed' \in BOOLEAN
    BY DEF FlowInv, CacheInv
  <2>2. ASSUME \A u \in Tasks : ~Owes(u)' PROVE disk' = disk /\ \A u \in Tasks : ~Owes(u)
    BY <1>1, <2>2
  <2>3. QED
    BY <2>1, <2>2 DEF FlowInv, CacheInv
<1>4. WireInv'
  <2>1. (\A u \in Tasks : ~Pushes(u)') => \A u \in Tasks : ~Pushes(u)
    BY <1>1
  <2>2. AnswerOK'
    BY DEF FlowInv, WireInv, AnswerOK
  <2>3. QED
    BY <2>1, <2>2 DEF FlowInv, WireInv
<1>5. QED
  BY <1>2, <1>3, <1>4 DEF FlowInv

\* Something else happens.
LEMMA RestKeeps ==
    ASSUME FlowInv, UNCHANGED <<task, disk, cache, reading, late, wire, answer, crossed, shown>>
    PROVE  FlowInv'
<1>1. TaskInv'
  BY DEF FlowInv, TaskInv
<1>2. ReadInv'
  BY DEF FlowInv, ReadInv, Readers, Reading
<1>3. CacheInv'
  BY DEF FlowInv, CacheInv, Owes
<1>4. WireInv'
  BY DEF FlowInv, WireInv, AnswerOK, Pushes
<1>5. QED
  BY <1>1, <1>2, <1>3, <1>4 DEF FlowInv

LEMMA Appended ==
    ASSUME NEW s, s \in Seq(Range(s)), NEW x
    PROVE  /\ Append(s, x) \in Seq(Range(Append(s, x)))
           /\ Len(s) \in Nat /\ Len(Append(s, x)) = Len(s) + 1
           /\ DOMAIN s = 1..Len(s) /\ DOMAIN Append(s, x) = 1..(Len(s) + 1)
           /\ \A i \in 1..Len(s) : Append(s, x)[i] = s[i]
           /\ Append(s, x)[Len(s) + 1] = x
<1> DEFINE S == Range(s) \cup {x}
<1>1. s \in Seq(S)
  <2>1. Range(s) \subseteq S
    OBVIOUS
  <2>2. QED
    BY <2>1
<1> HIDE DEF S
<1>2. x \in S
  BY DEF S
<1>3. /\ Append(s, x) \in Seq(S) /\ Len(s) \in Nat /\ Len(Append(s, x)) = Len(s) + 1
      /\ DOMAIN s = 1..Len(s) /\ DOMAIN Append(s, x) = 1..(Len(s) + 1)
      /\ \A i \in 1..Len(s) : Append(s, x)[i] = s[i]
      /\ Append(s, x)[Len(s) + 1] = x
  BY <1>1, <1>2
<1>4. Append(s, x) \in Seq(Range(Append(s, x)))
  BY <1>3, SeqOfRange
<1>5. QED
  BY <1>3, <1>4

\* A task tells the page.
LEMMA PushKeeps ==
    ASSUME FlowInv, TaskInv', Push, Readers' = Readers,
           (\A u \in Tasks : ~Owes(u)') => \A u \in Tasks : ~Owes(u),
           UNCHANGED <<disk, cache, reading, late, answer, crossed, shown>>
    PROVE  FlowInv'
<1>1. ReadInv'
  BY SameReads DEF FlowInv
<1>2. CacheInv'
  BY DEF FlowInv, CacheInv
<1>3. WireInv'
  <2>1. wire' = Append(wire, cache) /\ wire \in Seq(Range(wire))
    BY DEF Push, FlowInv, WireInv
  <2>2. /\ wire' \in Seq(Range(wire')) /\ Len(wire') = Len(wire) + 1 /\ Len(wire) \in Nat
        /\ wire'[Len(wire')] = cache
    BY <2>1, Appended
  <2>3. AnswerOK'
    BY <2>2 DEF AnswerOK, FlowInv, WireInv
  <2>4. answer # NoAnswer => answer.before < Len(wire')
    BY <2>2 DEF AnswerOK, FlowInv, WireInv
  <2>5. wire' # << >>
    BY <2>2
  <2>6. QED
    BY <2>2, <2>3, <2>4, <2>5 DEF WireInv
<1>4. QED
  BY <1>1, <1>2, <1>3 DEF FlowInv

-----------------------------------------------------------------------------
(* Every step *)

LEMMA StartInv == Init => FlowInv
<1> SUFFICES ASSUME Init PROVE FlowInv
  OBVIOUS
<1>1. \A t \in Tasks : task[t].pc = "idle"
  BY DEF Init, Idle
<1>2. TaskInv
  BY DEF Init, TaskInv, Idle, Tasks
<1>3. reading = << >> /\ wire = << >> /\ DOMAIN reading = {} /\ late = {}
  BY DEF Init
<1>4. << >> \in Seq(Range(<< >>))
  OBVIOUS
<1>5. ReadInv
  BY <1>1, <1>3, <1>4 DEF ReadInv, Readers, Reading
<1>6. CacheInv
  BY <1>3 DEF CacheInv, Init
<1>7. WireInv
  BY <1>3, <1>4 DEF WireInv, AnswerOK, Init
<1>8. QED
  BY <1>2, <1>5, <1>6, <1>7 DEF FlowInv

LEMMA ReadKeeps ==
    ASSUME FlowInv, NEW t \in Tasks, Read(t)
    PROVE  FlowInv'
<1> DEFINE v == IF task[t].pc = "read" THEN "assign" ELSE "reassign"
           e == [by |-> t, list |-> disk]
<1>1. /\ task' = Goto(t, v) /\ reading' = Append(reading, e) /\ task[t].pc \in {"read", "reread"}
      /\ UNCHANGED <<disk, cache, late, wire, answer, crossed, shown>>
  BY DEF Read, At, Goto, Projects, net, page
<1>2. TaskInv' /\ Reading(t)' /\ ~Reading(t) /\ Alone(t)
  BY <1>1, Goes DEF FlowInv, Reading
<1>3. \A u \in Tasks \ {t} : /\ Reading(u)' <=> Reading(u)
                             /\ Pushes(u)' <=> Pushes(u)
  BY <1>2 DEF Alone, Reading, Pushes
<1> DEFINE n == Len(reading)
<1>4. /\ reading' \in Seq(Range(reading')) /\ n \in Nat /\ Len(reading') = n + 1
      /\ DOMAIN reading = 1..n /\ DOMAIN reading' = 1..(n + 1)
      /\ \A i \in 1..n : reading'[i] = reading[i]
      /\ reading'[n + 1].by = t /\ reading'[n + 1].list = disk
  BY <1>1, Appended DEF FlowInv, ReadInv
<1>5. t \notin late /\ \A i \in DOMAIN reading : reading[i].by # t
  BY <1>2 DEF FlowInv, ReadInv, Readers, Reading
<1>6. ReadInv'
  <2> HIDE DEF e, v
  <2>0. Readers' = Readers \cup {t}
    BY <1>2, <1>3 DEF Readers, Reading
  <2>1. \A i \in DOMAIN reading' : reading'[i].by \in Readers'
    BY <1>4, <2>0 DEF FlowInv, ReadInv
  <2>2. \A i, j \in DOMAIN reading' : reading'[i].by = reading'[j].by => i = j
    BY <1>4, <1>5 DEF FlowInv, ReadInv
  <2>3. \A u \in Readers' : \E i \in DOMAIN reading' : reading'[i].by = u
    <3>1. n + 1 \in DOMAIN reading' /\ reading'[n + 1].by = t
      BY <1>4
    <3>2. ASSUME NEW u \in Readers PROVE \E i \in DOMAIN reading' : reading'[i].by = u
      <4>1. PICK i \in DOMAIN reading : reading[i].by = u
        BY DEF FlowInv, ReadInv
      <4>2. i \in DOMAIN reading' /\ reading'[i].by = u
        BY <1>4, <4>1
      <4>3. QED
        BY <4>2
    <3>3. QED
      BY <2>0, <3>1, <3>2
  <2>4. \A i, j \in DOMAIN reading' :
          i <= j /\ reading'[j].by \in late' => reading'[i].by \in late'
    BY <1>1, <1>4, <1>5 DEF FlowInv, ReadInv
  <2>5. late' \subseteq Readers'
    BY <1>1, <2>0 DEF FlowInv, ReadInv
  <2>6. QED
    BY <1>4, <2>1, <2>2, <2>3, <2>4, <2>5 DEF ReadInv
<1>7. CacheInv'
  <2>1. reading' # << >> /\ reading'[Len(reading')].by \notin late' /\ reading'[Len(reading')].list = disk'
    BY <1>1, <1>4, <1>5
  <2>2. QED
    BY <1>1, <2>1 DEF FlowInv, CacheInv
<1>8. WireInv'
  <2>1. ~Pushes(t)
    BY <1>1 DEF Pushes
  <2>2. (\A u \in Tasks : ~Pushes(u)') => \A u \in Tasks : ~Pushes(u)
    BY <1>3, <2>1
  <2>3. AnswerOK'
    BY <1>1 DEF FlowInv, WireInv, AnswerOK
  <2>4. QED
    BY <1>1, <2>2, <2>3 DEF FlowInv, WireInv
<1>9. QED
  BY <1>2, <1>6, <1>7, <1>8 DEF FlowInv

LEMMA AssignKeeps ==
    ASSUME FlowInv, NEW t \in Tasks, Assign(t)
    PROVE  FlowInv'
<1> DEFINE v == IF task[t].pc = "assign" THEN "push" ELSE "repush"
           n == Len(reading)
           i == CHOOSE j \in DOMAIN reading : reading[j].by = t
<1>1. /\ task' = Goto(t, v) /\ Reading(t) /\ reading' = RemoveAt(reading, i)
      /\ cache' = reading[i].list /\ crossed' = (t \in late)
      /\ late' = (late \cup {reading[j].by : j \in 1..(i - 1)}) \ {t}
      /\ UNCHANGED <<disk, wire, answer, shown>>
  BY DEF Assign, At, Goto, Reading, page
<1>2. TaskInv' /\ ~Reading(t)' /\ Pushes(t)' /\ ~Owes(t) /\ ~Owes(t)' /\ Alone(t)
  BY <1>1, Goes DEF FlowInv, Reading, Pushes, Owes
<1>3. \A u \in Tasks \ {t} : /\ Reading(u)' <=> Reading(u)
                             /\ Owes(u)' <=> Owes(u)
  BY <1>2 DEF Alone, Reading, Owes
<1>4. n \in Nat /\ DOMAIN reading = 1..n /\ reading \in Seq(Range(reading))
  BY DEF FlowInv, ReadInv
<1>5. i \in 1..n /\ reading[i].by = t
  BY <1>1, <1>4 DEF FlowInv, ReadInv, Readers
<1> HIDE DEF i, v
<1>6. /\ reading' \in Seq(Range(reading')) /\ Len(reading') = n - 1
      /\ DOMAIN reading' = 1..(n - 1)
      /\ \A k \in 1..(n - 1) : reading'[k] = IF k < i THEN reading[k] ELSE reading[k + 1]
  <2>1. /\ reading' \in Seq(Range(reading)) /\ Len(reading') = n - 1
        /\ \A k \in 1..(n - 1) : reading'[k] = IF k < i THEN reading[k] ELSE reading[k + 1]
    BY <1>1, <1>4, <1>5, Removed
  <2>2. QED
    BY <2>1, SeqOfRange
<1> HIDE DEF n
<1> DEFINE from(k) == IF k < i THEN k ELSE k + 1
<1>7. \A k \in 1..(n - 1) : /\ from(k) \in 1..n /\ from(k) # i
                            /\ reading'[k] = reading[from(k)]
                            /\ reading[from(k)].by # t
  <2>1. \A k \in 1..(n - 1) : /\ from(k) \in 1..n /\ from(k) # i
                              /\ reading'[k] = reading[from(k)]
    BY <1>4, <1>5, <1>6
  <2>2. QED
    BY <1>4, <1>5, <2>1 DEF FlowInv, ReadInv
<1>8. \A j, k \in 1..(n - 1) : /\ from(j) = from(k) => j = k
                               /\ j <= k => from(j) <= from(k)
  BY <1>4, <1>5
<1>9. \A j \in 1..n : j # i => \E k \in 1..(n - 1) : from(k) = j
  <2>1. ASSUME NEW j \in 1..n, j < i PROVE j \in 1..(n - 1) /\ from(j) = j
    BY <1>4, <1>5, <2>1
  <2>2. ASSUME NEW j \in 1..n, j > i PROVE j - 1 \in 1..(n - 1) /\ from(j - 1) = j
    BY <1>4, <1>5, <2>2
  <2>3. ASSUME NEW j \in 1..n, j # i PROVE j < i \/ j > i
    BY <1>4, <1>5, <2>3
  <2>4. QED
    BY <2>1, <2>2, <2>3
<1>10. \A k \in 1..(n - 1) : reading'[k].by \in late' <=> from(k) < i \/ reading[from(k)].by \in late
  <2>1. ASSUME NEW k \in 1..(n - 1) PROVE reading'[k].by \in late' <=>
            (\E j \in 1..(i - 1) : reading[from(k)].by = reading[j].by) \/ reading[from(k)].by \in late
    BY <1>1, <1>7
  <2>2. ASSUME NEW k \in 1..(n - 1)
        PROVE (\E j \in 1..(i - 1) : reading[from(k)].by = reading[j].by) <=> from(k) < i
    <3>1. from(k) \in DOMAIN reading /\ \A j \in 1..(i - 1) : j \in DOMAIN reading /\ j < i
      BY <1>4, <1>5, <1>7
    <3>2. \A j \in 1..(i - 1) : reading[from(k)].by = reading[j].by => from(k) = j
      BY <3>1 DEF FlowInv, ReadInv
    <3>3. from(k) < i => from(k) \in 1..(i - 1)
      BY <1>4, <1>5, <1>7
    <3>4. QED
      BY <3>1, <3>2, <3>3
  <2>3. QED
    BY <2>1, <2>2
<1> HIDE DEF from
<1>11. ReadInv'
  <2>0. Readers' = Readers \ {t}
    BY <1>2, <1>3 DEF Readers, Reading
  <2>1. \A k \in DOMAIN reading' : reading'[k].by \in Readers'
    BY <1>4, <1>6, <1>7, <2>0 DEF FlowInv, ReadInv
  <2>2. \A j, k \in DOMAIN reading' : reading'[j].by = reading'[k].by => j = k
    BY <1>4, <1>6, <1>7, <1>8 DEF FlowInv, ReadInv
  <2>3. ASSUME NEW u \in Readers' PROVE \E k \in DOMAIN reading' : reading'[k].by = u
    <3>1. u # t /\ u \in Readers
      BY <2>0
    <3>2. PICK j \in DOMAIN reading : reading[j].by = u
      BY <3>1 DEF FlowInv, ReadInv
    <3>3. PICK k \in 1..(n - 1) : from(k) = j
      BY <1>4, <1>5, <1>9, <3>1, <3>2
    <3>4. k \in DOMAIN reading' /\ reading'[k].by = u
      BY <1>6, <1>7, <3>2, <3>3
    <3>5. QED
      BY <3>4
  <2>4. ASSUME NEW j \in DOMAIN reading', NEW k \in DOMAIN reading', j <= k, reading'[k].by \in late'
        PROVE  reading'[j].by \in late'
    <3>1. /\ j \in 1..(n - 1) /\ k \in 1..(n - 1)
          /\ from(j) \in 1..n /\ from(k) \in 1..n /\ from(j) <= from(k)
      BY <1>6, <1>7, <1>8, <2>4
    <3>2. CASE from(k) < i
      <4>1. from(j) < i
        BY <1>4, <1>5, <3>1, <3>2
      <4>2. QED
        BY <1>10, <3>1, <4>1
    <3>3. CASE reading[from(k)].by \in late
      <4>1. reading[from(j)].by \in late
        BY <1>4, <3>1, <3>3 DEF FlowInv, ReadInv
      <4>2. QED
        BY <1>10, <3>1, <4>1
    <3>4. QED
      BY <1>10, <2>4, <3>1, <3>2, <3>3
  <2>5. ASSUME NEW u \in late' PROVE u \in Readers'
    <3>1. u # t /\ (u \in late \/ \E j \in 1..(i - 1) : u = reading[j].by)
      BY <1>1
    <3>2. \A j \in 1..(i - 1) : j \in DOMAIN reading
      BY <1>4, <1>5
    <3>3. u \in Readers
      BY <3>1, <3>2 DEF FlowInv, ReadInv
    <3>4. QED
      BY <2>0, <3>1, <3>3
  <2>6. QED
    BY <1>6, <2>1, <2>2, <2>3, <2>4, <2>5 DEF ReadInv
<1>12. CacheInv'
  <2>1. crossed' \in BOOLEAN
    BY <1>1
  <2> SUFFICES ASSUME \A u \in Tasks : ~Owes(u)'
               PROVE  \/ /\ reading' # << >> /\ reading'[Len(reading')].by \notin late'
                         /\ reading'[Len(reading')].list = disk'
                      \/ /\ \A k \in DOMAIN reading' : reading'[k].by \in late'
                         /\ crossed' \/ cache' = disk'
    BY <2>1 DEF CacheInv
  <2>2. \A u \in Tasks : ~Owes(u)
    BY <1>2, <1>3
  <2>3. CASE reading[n].by \notin late /\ reading[n].list = disk
    <3>1. CASE i = n
      <4>1. \A k \in 1..(n - 1) : from(k) < i
        BY <1>4, <1>5, <1>7, <3>1
      <4>2. QED
        BY <1>1, <1>6, <1>10, <2>3, <3>1, <4>1
    <3>2. CASE i # n
      <4>1. n - 1 \in 1..(n - 1) /\ from(n - 1) = n /\ ~(n < i)
        BY <1>4, <1>5, <3>2 DEF from
      <4>2. reading'[n - 1] = reading[n] /\ reading'[n - 1].by \notin late' /\ reading' # << >>
        BY <1>6, <1>7, <1>10, <2>3, <4>1
      <4>3. QED
        BY <1>1, <1>6, <2>3, <4>2
    <3>3. QED
      BY <3>1, <3>2
  <2>4. CASE \A k \in DOMAIN reading : reading[k].by \in late
    <3>1. crossed' = TRUE
      BY <1>1, <1>4, <1>5, <2>4
    <3>2. \A k \in DOMAIN reading' : reading'[k].by \in late'
      BY <1>4, <1>6, <1>7, <1>10, <2>4
    <3>3. QED
      BY <3>1, <3>2
  <2>5. QED
    BY <2>2, <2>3, <2>4 DEF FlowInv, CacheInv, n
<1>13. WireInv'
  <2>1. AnswerOK'
    BY <1>1 DEF FlowInv, WireInv, AnswerOK
  <2>2. QED
    BY <1>1, <1>2, <2>1 DEF FlowInv, WireInv
<1>14. QED
  BY <1>2, <1>11, <1>12, <1>13 DEF FlowInv

LEMMA Taken ==
    ASSUME NEW S, NEW s \in Seq(S), s # << >>
    PROVE  /\ Len(s) \in Nat \ {0} /\ Tail(s) \in Seq(S) /\ Len(Tail(s)) = Len(s) - 1
           /\ \A i \in 1..(Len(s) - 1) : Tail(s)[i] = s[i + 1]
           /\ Head(s) = s[1] /\ (Tail(s) = << >> <=> Len(s) = 1)
<1>1. /\ Len(s) \in Nat \ {0} /\ Tail(s) \in Seq(S) /\ Len(Tail(s)) = Len(s) - 1
      /\ Head(s) = s[1]
  OBVIOUS
<1>2. \A i \in 1..(Len(s) - 1) : Tail(s)[i] = s[i + 1]
  OBVIOUS
<1>3. Tail(s) = << >> <=> Len(Tail(s)) = 0
  <2>1. ASSUME NEW q \in Seq(S) PROVE q = << >> <=> Len(q) = 0
    OBVIOUS
  <2>2. QED
    BY <1>1, <2>1
<1>4. QED
  BY <1>1, <1>2, <1>3

LEMMA DeliverKeeps == ASSUME FlowInv, Deliver PROVE FlowInv'
<1>1. /\ wire # << >> /\ wire' = Tail(wire) /\ shown' = Head(wire)
      /\ UNCHANGED <<task, disk, cache, reading, late, crossed>>
      /\ answer' = IF answer = NoAnswer THEN NoAnswer
                   ELSE [answer EXCEPT !.before = IF answer.before = 0 THEN 0 ELSE answer.before - 1,
                                       !.passed = answer.passed \/ answer.before = 0]
  BY DEF Deliver, Show, runner
<1>2. TaskInv' /\ ReadInv' /\ CacheInv'
  BY <1>1 DEF FlowInv, TaskInv, ReadInv, CacheInv, Readers, Reading, Owes
<1> DEFINE n == Len(wire)
<1>3. /\ n \in Nat \ {0} /\ Len(wire') = n - 1 /\ wire' \in Seq(Range(wire'))
      /\ \A i \in 1..(n - 1) : wire'[i] = wire[i + 1]
      /\ shown' = wire[1] /\ (wire' = << >> <=> n = 1)
  <2>1. wire \in Seq(Range(wire))
    BY DEF FlowInv, WireInv
  <2>2. /\ n \in Nat \ {0} /\ wire' \in Seq(Range(wire)) /\ Len(wire') = n - 1
        /\ \A i \in 1..(n - 1) : wire'[i] = wire[i + 1]
        /\ shown' = wire[1] /\ (wire' = << >> <=> n = 1)
    BY <1>1, <2>1, Taken
  <2>3. wire' \in Seq(Range(wire'))
    BY <2>2, SeqOfRange
  <2>4. QED
    BY <2>2, <2>3
<1>4. AnswerOK /\ n \in Nat \ {0}
  BY <1>3 DEF FlowInv, WireInv
<1> HIDE DEF n
<1>5. ASSUME answer # NoAnswer
      PROVE  /\ {"list", "before", "passed"} \subseteq DOMAIN answer'
             /\ answer'.list = answer.list
             /\ answer'.before = IF answer.before = 0 THEN 0 ELSE answer.before - 1
             /\ answer'.passed = (answer.passed \/ answer.before = 0)
             /\ answer.before \in 0..n /\ answer.passed \in BOOLEAN
  <2>1. /\ {"list", "before", "passed"} \subseteq DOMAIN answer
        /\ answer.before \in 0..n /\ answer.passed \in BOOLEAN
    BY <1>4, <1>5 DEF AnswerOK, n
  <2>2. QED
    BY <1>1, <1>5, <2>1
<1>6. AnswerOK'
  <2> SUFFICES ASSUME answer' # NoAnswer
               PROVE  /\ {"list", "before", "passed"} \subseteq DOMAIN answer'
                      /\ answer'.before \in 0..Len(wire') /\ answer'.passed \in BOOLEAN
    BY DEF AnswerOK
  <2>1. answer # NoAnswer
    BY <1>1
  <2>2. answer'.before \in 0..(n - 1)
    BY <1>4, <1>5, <2>1
  <2>3. QED
    BY <1>3, <1>5, <2>1, <2>2
<1>7. ASSUME \A t \in Tasks : ~Pushes(t)'
      PROVE  /\ IF wire' = << >> THEN crossed' \/ shown' = cache' ELSE wire'[Len(wire')] = cache'
             /\ answer' # NoAnswer /\ ~answer'.passed =>
                  answer'.list = cache' \/ answer'.before < Len(wire')
  <2>1. /\ wire[n] = cache
        /\ answer # NoAnswer /\ ~answer.passed => answer.list = cache \/ answer.before < n
    BY <1>1, <1>7 DEF FlowInv, WireInv, Pushes, n
  <2>2. IF wire' = << >> THEN crossed' \/ shown' = cache' ELSE wire'[Len(wire')] = cache'
    <3>1. CASE n = 1
      BY <1>1, <1>3, <2>1, <3>1
    <3>2. CASE n # 1
      <4>1. n - 1 \in 1..(n - 1) /\ (n - 1) + 1 = n
        BY <1>4, <3>2
      <4>2. wire'[n - 1] = wire[n] /\ wire' # << >>
        BY <1>3, <3>2, <4>1
      <4>3. QED
        BY <1>1, <1>3, <2>1, <4>2
    <3>3. QED
      BY <3>1, <3>2
  <2>3. ASSUME answer' # NoAnswer, ~answer'.passed
        PROVE  answer'.list = cache' \/ answer'.before < Len(wire')
    <3>1. answer # NoAnswer
      BY <1>1, <2>3
    <3>2. ~answer.passed /\ answer.before # 0
      BY <1>5, <2>3, <3>1
    <3>3. QED
      BY <1>1, <1>3, <1>4, <1>5, <2>1, <3>1, <3>2
  <2>4. QED
    BY <2>2, <2>3
<1>8. QED
  BY <1>2, <1>3, <1>6, <1>7 DEF FlowInv, WireInv

LEMMA AnswerKeeps == ASSUME FlowInv, AnswerArrives PROVE FlowInv'
<1>1. /\ answer # NoAnswer /\ answer' = NoAnswer /\ crossed' = (crossed \/ answer.passed)
      /\ shown' = answer.list /\ UNCHANGED <<task, disk, cache, reading, late, wire>>
  BY DEF AnswerArrives, runner
<1>2. AnswerOK /\ answer.passed \in BOOLEAN /\ answer.before \in 0..Len(wire)
  BY <1>1 DEF FlowInv, WireInv, AnswerOK
<1>3. TaskInv' /\ ReadInv'
  BY <1>1 DEF FlowInv, TaskInv, ReadInv, Readers, Reading
<1>4. CacheInv'
  BY <1>1, <1>2 DEF FlowInv, CacheInv, Owes
<1>5. WireInv'
  <2>1. AnswerOK'
    BY <1>1 DEF AnswerOK
  <2>2. ASSUME \A t \in Tasks : ~Pushes(t)', wire = << >> PROVE crossed' \/ shown' = cache
    <3>1. ~answer.passed => answer.list = cache \/ answer.before < Len(wire)
      BY <1>1, <2>2 DEF FlowInv, WireInv, Pushes
    <3>2. Len(wire) = 0
      BY <2>2
    <3>3. QED
      BY <1>1, <1>2, <3>1, <3>2
  <2>3. ASSUME \A t \in Tasks : ~Pushes(t)', wire # << >> PROVE wire[Len(wire)] = cache
    BY <1>1, <2>3 DEF FlowInv, WireInv, Pushes
  <2>4. QED
    BY <1>1, <2>1, <2>2, <2>3 DEF FlowInv, WireInv
<1>6. QED
  BY <1>3, <1>4, <1>5 DEF FlowInv

LEMMA GetStateKeeps == ASSUME FlowInv, GetState PROVE FlowInv'
<1>1. /\ task["request"].pc = "state" /\ task' = [task EXCEPT !["request"] = Idle]
      /\ answer' = [there |-> TRUE, list |-> cache, before |-> Len(wire), passed |-> FALSE]
      /\ UNCHANGED <<disk, cache, reading, late, wire, crossed, shown>>
  BY DEF GetState, At, page
<1>2. TaskInv' /\ task'["request"] = Idle /\ Alone("request") /\ "request" \in Tasks
  <2>1. "request" \in Tasks /\ "pc" \in DOMAIN Idle /\ Idle.pc = "idle"
    BY DEF Tasks, Idle
  <2>2. QED
    BY <1>1, <2>1, Becomes DEF FlowInv
<1>3. \A t \in Tasks : /\ Reading(t)' <=> Reading(t)
                       /\ Owes(t)' <=> Owes(t)
                       /\ Pushes(t)' <=> Pushes(t)
  BY <1>1, <1>2 DEF Alone, Reading, Owes, Pushes, Idle
<1>4. ReadInv'
  <2>1. Readers' = Readers
    BY <1>3 DEF Readers
  <2>2. QED
    BY <1>1, <2>1, SameReads DEF FlowInv
<1>5. CacheInv'
  BY <1>1, <1>3 DEF FlowInv, CacheInv
<1>6. WireInv'
  <2>1. wire \in Seq(Range(wire)) /\ Len(wire) \in Nat
    BY DEF FlowInv, WireInv
  <2>2. AnswerOK'
    BY <1>1, <2>1 DEF AnswerOK
  <2>3. QED
    BY <1>1, <1>3, <2>1, <2>2 DEF FlowInv, WireInv
<1>7. QED
  BY <1>2, <1>4, <1>5, <1>6 DEF FlowInv

LEMMA PushMoves ==
    ASSUME FlowInv, Busy \/ RequestEnds \/ PushGenerating \/ \E t \in Tasks : PushEnd(t)
    PROVE  FlowInv'
<1>0. /\ "request" \in Tasks /\ "generation" \in Tasks
      /\ "pc" \in DOMAIN Idle /\ Idle.pc = "idle" /\ "pc" \in DOMAIN Kicked /\ Kicked.pc = "start"
  BY DEF Tasks, Idle, Kicked
<1>1. /\ Push /\ UNCHANGED <<disk, cache, reading, late, answer, crossed, shown>>
  BY DEF Busy, RequestEnds, PushGenerating, PushEnd, page
<1>2. ASSUME TaskInv', NEW t \in Tasks, Alone(t), ~Reading(t), ~Reading(t)', ~Owes(t)
      PROVE  FlowInv'
  <2>1. Readers' = Readers
    BY <1>2 DEF Readers, Reading, Alone
  <2>2. (\A u \in Tasks : ~Owes(u)') => \A u \in Tasks : ~Owes(u)
    BY <1>2 DEF Alone, Owes
  <2>3. QED
    BY <1>1, <1>2, <2>1, <2>2, PushKeeps
<1>3. CASE Busy
  <2>1. task["request"].pc = "busy" /\ task' = Goto("request", "work")
    BY <1>3 DEF Busy, At, Go
  <2>2. TaskInv' /\ task'["request"].pc = "work" /\ Alone("request")
    BY <1>0, <2>1, Goes DEF FlowInv
  <2>3. QED
    BY <1>0, <1>2, <2>1, <2>2 DEF Reading, Owes
<1>4. CASE PushGenerating
  <2>1. task["generation"].pc = "repush" /\ task' = Goto("generation", "collect")
    BY <1>4 DEF PushGenerating, At, Go
  <2>2. TaskInv' /\ task'["generation"].pc = "collect" /\ Alone("generation")
    BY <1>0, <2>1, Goes DEF FlowInv
  <2>3. QED
    BY <1>0, <1>2, <2>1, <2>2 DEF Reading, Owes
<1>5. ASSUME NEW t \in Tasks, PushEnd(t) PROVE FlowInv'
  <2>1. task[t].pc = "push" /\ task' = [task EXCEPT ![t] = Idle]
    BY <1>5 DEF PushEnd, At
  <2>2. TaskInv' /\ task'[t].pc = "idle" /\ Alone(t)
    BY <1>0, <2>1, Becomes DEF FlowInv
  <2>3. QED
    BY <1>2, <2>1, <2>2 DEF Reading, Owes
<1>6. CASE RequestEnds
  <2> DEFINE q == task["request"]
  <2>0. q.pc = "push"
    BY <1>6 DEF RequestEnds, At
  <2>1. q.next \in {"state", "generate", "saved", "none"}
    BY <2>0 DEF FlowInv, TaskInv
  <2>2. CASE q.next = "state"
    <3>1. task' = Goto("request", "state")
      BY <1>6, <2>2 DEF RequestEnds, Go
    <3>2. TaskInv' /\ task'["request"].pc = "state" /\ Alone("request")
      BY <1>0, <2>0, <3>1, Goes DEF FlowInv
    <3>3. QED
      BY <1>0, <1>2, <2>0, <3>2 DEF Reading, Owes
  <2>3. CASE q.next \in {"saved", "none"}
    <3>1. task' = [task EXCEPT !["request"] = Idle]
      BY <1>6, <2>3 DEF RequestEnds
    <3>2. TaskInv' /\ task'["request"].pc = "idle" /\ Alone("request")
      BY <1>0, <3>1, Becomes DEF FlowInv
    <3>3. QED
      BY <1>0, <1>2, <2>0, <3>2 DEF Reading, Owes
  <2>4. CASE q.next = "generate"
    <3> DEFINE g == IF task["generation"].pc = "idle" THEN Kicked ELSE task["generation"]
    <3>1. task' = [task EXCEPT !["request"] = Idle, !["generation"] = g]
      BY <1>6, <2>4 DEF RequestEnds
    <3>2. /\ task'["request"].pc = "idle" /\ task'["generation"] = g
          /\ \A u \in Tasks \ {"request", "generation"} : task'[u] = task[u]
          /\ TaskInv'
      BY <1>0, <3>1 DEF FlowInv, TaskInv
    <3>3. /\ Reading("generation")' <=> Reading("generation")
          /\ Owes("generation")' <=> Owes("generation")
      BY <1>0, <3>2 DEF Reading, Owes
    <3>4. /\ ~Reading("request") /\ ~Reading("request")' /\ ~Owes("request") /\ ~Owes("request")'
      BY <2>0, <3>2 DEF Reading, Owes
    <3>5. \A u \in Tasks : /\ Reading(u)' <=> Reading(u)
                           /\ Owes(u)' <=> Owes(u)
      <4>1. ASSUME NEW u \in Tasks, u # "request", u # "generation"
            PROVE  /\ Reading(u)' <=> Reading(u)
                   /\ Owes(u)' <=> Owes(u)
        BY <3>2, <4>1 DEF Reading, Owes
      <4>2. QED
        BY <3>3, <3>4, <4>1
    <3>6. Readers' = Readers
      BY <3>5 DEF Readers
    <3>7. QED
      BY <1>1, <3>2, <3>5, <3>6, PushKeeps
  <2>5. QED
    BY <2>1, <2>2, <2>3, <2>4
<1>7. QED
  BY <1>3, <1>4, <1>5, <1>6

\* The work of requests and jobs: who writes the disk is still to read it.
LEMMA WorkMoves ==
    ASSUME FlowInv,
           \/ Work \/ AnalysisStarts \/ AnalysisEnds \/ GenerationStarts \/ GenerationFetches
           \/ GenerationGate \/ GenerationCollects \/ GenerationEnds
    PROVE  FlowInv'
<1>0. Tasks = {"request", "analysis", "generation"}
  BY DEF Tasks
<1>1. UNCHANGED <<cache, reading, late, wire, answer, crossed, shown>>
  BY DEF Work, AnalysisStarts, AnalysisEnds, GenerationStarts, GenerationFetches,
     GenerationGate, GenerationCollects, GenerationEnds, net, page
<1>2. ASSUME NEW t \in Tasks, NEW v, task' = Goto(t, v), task[t].pc # "idle",
             ~Reading(t), ~Pushes(t), v \notin {"assign", "reassign"},
             \/ v \in {"fetch", "gate", "collect", "ask", "read", "reread"}
             \/ disk' = disk /\ ~Owes(t)
      PROVE  FlowInv'
  <2>1. TaskInv' /\ task'[t].pc = v /\ Alone(t)
    BY <1>2, Goes DEF FlowInv
  <2>2. ~Reading(t)' /\ (v \in {"fetch", "gate", "collect", "ask", "read", "reread"} => Owes(t)')
    BY <1>2, <2>1 DEF Reading, Owes
  <2>3. QED
    BY <1>1, <1>2, <2>1, <2>2, WorkKeeps
<1>3. ASSUME NEW t \in Tasks, t # "request", NEW v, NEW r,
             task' = [task EXCEPT ![t] = [pc |-> v, copy |-> r]],
             ~Reading(t), ~Pushes(t), v \in {"fetch", "gate", "ask", "reread"}
      PROVE  FlowInv'
  <2>1. "pc" \in DOMAIN [pc |-> v, copy |-> r] /\ [pc |-> v, copy |-> r].pc = v
    OBVIOUS
  <2>2. TaskInv' /\ task'[t].pc = v /\ Alone(t)
    BY <1>3, <2>1, Becomes DEF FlowInv
  <2>3. ~Reading(t)' /\ Owes(t)'
    BY <1>3, <2>2 DEF Reading, Owes
  <2>4. QED
    BY <1>1, <1>3, <2>2, <2>3, WorkKeeps
<1>4. CASE Work
  <2>1. /\ task["request"].pc = "work"
        /\ task' = Goto("request", "read") \/ (task' = Goto("request", "push") /\ disk' = disk)
    BY <1>4 DEF Work, At, EndWith, Ending, Go
  <2>2. ~Reading("request") /\ ~Pushes("request") /\ ~Owes("request")
    BY <2>1 DEF Reading, Pushes, Owes
  <2>3. QED
    BY <1>0, <1>2, <2>1, <2>2
<1>5. CASE AnalysisStarts \/ AnalysisEnds
  <2>1. /\ task["analysis"].pc \in {"start", "fetch"}
        /\ \/ task' = Goto("analysis", "read")
           \/ \E r : task' = [task EXCEPT !["analysis"] = [pc |-> "fetch", copy |-> r]]
    BY <1>5 DEF AnalysisStarts, AnalysisEnds, At, EndWith, Ending
  <2>2. ~Reading("analysis") /\ ~Pushes("analysis")
    BY <2>1 DEF Reading, Pushes
  <2>3. QED
    BY <1>0, <1>2, <1>3, <2>1, <2>2
<1>6. CASE GenerationStarts \/ GenerationFetches \/ GenerationGate \/ GenerationCollects
           \/ GenerationEnds
  <2>1. task["generation"].pc \in {"start", "fetch", "gate", "collect", "ask"}
    BY <1>6 DEF GenerationStarts, GenerationFetches, GenerationGate, GenerationCollects,
                GenerationEnds, At
  <2>2. \/ task' = Goto("generation", "read") \/ task' = Goto("generation", "ask")
        \/ \E r : \E v \in {"fetch", "gate", "ask", "reread"} :
             task' = [task EXCEPT !["generation"] = [pc |-> v, copy |-> r]]
    <3>1. CASE GenerationStarts
      <4>1. \/ task' = Goto("generation", "read")
            \/ \E v \in {"fetch", "gate"} :
                 task' = [task EXCEPT !["generation"] = [pc |-> v, copy |-> disk]]
        BY <3>1 DEF GenerationStarts, EndWith, Ending
      <4>2. QED
        BY <4>1
    <3>2. CASE GenerationFetches
      BY <3>2 DEF GenerationFetches, EndWith, Ending
    <3>3. CASE GenerationGate
      BY <3>3 DEF GenerationGate, EndWith, Ending
    <3>4. CASE GenerationCollects
      BY <3>4 DEF GenerationCollects, EndWith, Ending, Go
    <3>5. CASE GenerationEnds
      BY <3>5 DEF GenerationEnds, EndWith, Ending
    <3>6. QED
      BY <1>6, <3>1, <3>2, <3>3, <3>4, <3>5
  <2>3. ~Reading("generation") /\ ~Pushes("generation")
    BY <2>1 DEF Reading, Pushes
  <2>4. QED
    BY <1>0, <1>2, <1>3, <2>1, <2>2, <2>3
<1>7. QED
  BY <1>4, <1>5, <1>6

\* The user: a request or job starts, or nothing of the runner's moves.
LEMMA UserMoves ==
    ASSUME FlowInv,
           \/ Create \/ SaveInfo \/ Delete \/ AnalyzeInsights \/ GenerateInsights
           \/ ChooseCompany \/ AnalyzePosting \/ PostingAnalyzed \/ PostingFailed \/ EditUrl
           \/ EditNames \/ NewApplication \/ OpenProject \/ StartEdit \/ TypeNames
           \/ WorkspaceArrives
    PROVE  FlowInv'
<1>0. Tasks = {"request", "analysis", "generation"}
  BY DEF Tasks
<1>1. UNCHANGED <<disk, cache, reading, late, wire, answer, crossed, shown>>
  BY DEF Create, SaveInfo, Delete, AnalyzeInsights, GenerateInsights, ChooseCompany,
     AnalyzePosting, PostingAnalyzed, PostingFailed, EditUrl, EditNames, NewApplication,
     OpenProject, StartEdit, TypeNames, WorkspaceArrives, runner, net, page
<1>2. CASE UNCHANGED task
  BY <1>1, <1>2, RestKeeps
<1>3. ASSUME NEW t \in Tasks, NEW r, task[t].pc = "idle", task' = [task EXCEPT ![t] = r],
             "pc" \in DOMAIN r, r.pc \in {"busy", "start"},
             t = "request" =>
               "next" \in DOMAIN r /\ r.next \in {"state", "generate", "saved", "none"}
      PROVE  FlowInv'
  <2>1. TaskInv' /\ task'[t] = r /\ Alone(t)
    BY <1>3, Becomes DEF FlowInv
  <2>2. ~Reading(t) /\ ~Reading(t)' /\ ~Pushes(t) /\ ~Owes(t)
    BY <1>3, <2>1 DEF Reading, Pushes, Owes
  <2>3. QED
    BY <1>1, <2>1, <2>2, WorkKeeps
<1>4. ASSUME NEW op, NEW patch, NEW next \in {"state", "generate", "saved", "none"},
             MayStart("request"), Start("request", Asked(op, patch, next))
      PROVE  FlowInv'
  <2> DEFINE r == Asked(op, patch, next)
  <2>1. "pc" \in DOMAIN r /\ r.pc = "busy" /\ "next" \in DOMAIN r /\ r.next = next
    BY DEF Asked
  <2>2. task["request"].pc = "idle" /\ task' = [task EXCEPT !["request"] = r]
    BY <1>4 DEF MayStart, Start, At
  <2> HIDE DEF r
  <2>3. QED
    BY <1>0, <1>3, <2>1, <2>2
<1>5. ASSUME NEW t \in {"analysis", "generation"}, MayStart(t), Start(t, Kicked)
      PROVE  FlowInv'
  <2>1. "pc" \in DOMAIN Kicked /\ Kicked.pc = "start"
    BY DEF Kicked
  <2>2. task[t].pc = "idle" /\ task' = [task EXCEPT ![t] = Kicked]
    BY <1>5 DEF MayStart, Start, At
  <2>3. QED
    BY <1>0, <1>3, <2>1, <2>2
<1>6. CASE Create \/ SaveInfo \/ Delete \/ ChooseCompany
  <2>1. \E op, patch : \E next \in {"state", "generate", "saved", "none"} :
          MayStart("request") /\ Start("request", Asked(op, patch, next))
    <3>1. CASE Create
      BY <3>1 DEF Create
    <3>2. CASE SaveInfo
      BY <3>2 DEF SaveInfo
    <3>3. CASE Delete
      BY <3>3 DEF Delete
    <3>4. CASE ChooseCompany
      BY <3>4 DEF ChooseCompany
    <3>5. QED
      BY <1>6, <3>1, <3>2, <3>3, <3>4
  <2>2. QED
    BY <1>4, <2>1
<1>7. CASE AnalyzeInsights
  BY <1>5, <1>7 DEF AnalyzeInsights
<1>8. CASE GenerateInsights
  BY <1>2, <1>5, <1>8 DEF GenerateInsights
<1>9. CASE \/ AnalyzePosting \/ PostingAnalyzed \/ PostingFailed \/ EditUrl
           \/ EditNames \/ NewApplication \/ OpenProject \/ StartEdit \/ TypeNames
           \/ WorkspaceArrives
  BY <1>2, <1>9 DEF AnalyzePosting, PostingAnalyzed, PostingFailed, EditUrl, EditNames,
     NewApplication, OpenProject, StartEdit, TypeNames, WorkspaceArrives, runner
<1>10. QED
  BY <1>6, <1>7, <1>8, <1>9

LEMMA FlowStep == FlowInv /\ [Next]_vars => FlowInv'
<1> SUFFICES ASSUME FlowInv, [Next]_vars PROVE FlowInv'
  OBVIOUS
<1>1. CASE Runner
  BY <1>1, WorkMoves, PushMoves, GetStateKeeps, ReadKeeps, AssignKeeps DEF Runner
<1>2. CASE Page
  BY <1>2, DeliverKeeps, AnswerKeeps, UserMoves DEF Page
<1>3. CASE UNCHANGED vars
  BY <1>3, RestKeeps DEF vars, runner, net, page
<1>4. QED
  BY <1>1, <1>2, <1>3 DEF Next

\* Whatever the order of requests, jobs and snapshots, a page that is told
\* everything shows the project as it is on the disk, but for the overtakings that
\* are named: every writer reads after it wrote and pushes after it read
\* (refreshProjects, notifySidebarStateChanged).
THEOREM PagesCatchUp == Spec => []PageCatchesUp
<1>1. FlowInv => PageCatchesUp
  <2> SUFFICES ASSUME FlowInv, Quiet, ~crossed PROVE shown = disk
    BY DEF PageCatchesUp
  <2>1. \A t \in Tasks : ~Reading(t) /\ ~Owes(t) /\ ~Pushes(t)
    BY DEF Quiet, At, Reading, Owes, Pushes
  <2>2. reading = << >>
    <3>1. Readers = {} /\ reading \in Seq(Range(reading))
      BY <2>1 DEF Readers, FlowInv, ReadInv
    <3>2. \A i \in DOMAIN reading : FALSE
      BY <3>1 DEF FlowInv, ReadInv
    <3>3. DOMAIN reading = 1..Len(reading) /\ Len(reading) \in Nat
      BY <3>1
    <3>4. Len(reading) = 0
      BY <3>2, <3>3
    <3>5. QED
      BY <3>1, <3>4
  <2>3. cache = disk
    BY <2>1, <2>2 DEF FlowInv, CacheInv
  <2>4. shown = cache
    BY <2>1 DEF FlowInv, WireInv, Quiet
  <2>5. QED
    BY <2>3, <2>4
<1>2. QED
  BY <1>1, StartInv, FlowStep, PTL DEF Spec

-----------------------------------------------------------------------------
(* Least and greatest numbers, the best of some candidates *)

LEMMA Least ==
    ASSUME NEW T \in SUBSET Nat, T # {}
    PROVE  \E x \in T : \A y \in T : x <= y
<1> DEFINE R == {ss \in Nat \X Nat : ss[1] < ss[2]}
<1>1. IsWellFoundedOn(R, Nat)
  BY NatLessThanWellFounded DEF OpToRel
<1>2. \E x \in T : \A y \in T : ~ (<<y, x>> \in R)
  <2> HIDE DEF R
  <2>1. QED
    BY <1>1, WFMin
<1>3. \A x, y \in Nat : <<y, x>> \in R <=> y < x
  OBVIOUS
<1> HIDE DEF R
<1>4. PICK x \in T : \A y \in T : ~ (<<y, x>> \in R)
  BY <1>2
<1>5. ASSUME NEW y \in T PROVE x <= y
  <2>1. x \in Nat /\ y \in Nat
    OBVIOUS
  <2>2. ~ (y < x)
    BY <1>3, <1>4, <2>1
  <2>3. QED
    BY <2>1, <2>2
<1>6. QED
  BY <1>5

LEMMA Greatest ==
    ASSUME NEW n \in Nat, NEW T \in SUBSET (0..n), T # {}
    PROVE  \E x \in T : \A y \in T : x >= y
<1> DEFINE D == {n - x : x \in T}
<1>1. D \in SUBSET Nat /\ D # {}
  <2>1. PICK x : x \in T
    OBVIOUS
  <2>2. n - x \in D
    BY <2>1
  <2>3. \A d \in D : d \in Nat
    OBVIOUS
  <2>4. QED
    BY <2>2, <2>3
<1>2. PICK d \in D : \A e \in D : d <= e
  <2> HIDE DEF D
  <2>1. QED
    BY <1>1, Least
<1>3. PICK x \in T : d = n - x
  BY <1>2
<1>4. \A y \in T : n - y \in D /\ d <= n - y
  BY <1>2
<1>5. QED
  BY <1>3, <1>4

LEMMA MinOf == ASSUME NEW T \in SUBSET Nat, T # {} PROVE Min(T) \in T
BY Least DEF Min
LEMMA MaxOf == ASSUME NEW n \in Nat, NEW T \in SUBSET (0..n), T # {} PROVE Max(T) \in T
BY Greatest DEF Max

\* What a selection finds is an element of the sequence.
LEMMA SelectedFirst ==
    ASSUME NEW W, NEW title \in Seq(SUBSET W), NEW role
    PROVE  TitleCompany(title, role) # NoText =>
             \E i \in 1..Len(title) : TitleCompany(title, role) = title[i]
<1> DEFINE I == {i \in 1..Len(title) : title[i] # NoText /\ title[i] # role}
<1>1. TitleCompany(title, role) =
        IF I = {} THEN NoText ELSE IF Min(I) = 0 THEN NoText ELSE title[Min(I)]
  BY DEF TitleCompany, First, SelectInSeq
<1>2. I \in SUBSET Nat
  OBVIOUS
<1>3. I # {} => Min(I) \in I
  BY <1>2, MinOf
<1>4. QED
  BY <1>1, <1>3

\* A candidate is better than another by its words, or by its place.
Weight(c, i) == Cardinality(Tokens(c[i].value))
LEMMA BestOfSome ==
    ASSUME NEW c, NEW n \in Nat, NEW S \in SUBSET Nat, S # {},
           \A i \in S : Weight(c, i) \in 0..n
    PROVE  /\ BestOf(c, S) \in S
           /\ \A j \in S \ {BestOf(c, S)} : Better(c, BestOf(c, S), j)
<1> DEFINE T == {Weight(c, i) : i \in S}
<1>1. T \in SUBSET (0..n) /\ T # {}
  OBVIOUS
<1>2. PICK t \in T : \A u \in T : t >= u
  <2> HIDE DEF T
  <2>1. QED
    BY <1>1, Greatest
<1> DEFINE U == {i \in S : Weight(c, i) = t}
<1>3. U \in SUBSET Nat /\ U # {}
  BY <1>2
<1>4. PICK i \in U : \A j \in U : i <= j
  <2> HIDE DEF U
  <2>1. QED
    BY <1>3, Least
<1>5. i \in S /\ Weight(c, i) = t
  BY <1>4
<1>6. ASSUME NEW j \in S \ {i} PROVE Better(c, i, j)
  <2>1. t \in Nat /\ Weight(c, j) \in Nat /\ t >= Weight(c, j) /\ i \in Nat /\ j \in Nat
    BY <1>1, <1>2, <1>5
  <2>2. Weight(c, j) = t => i < j
    <3>1. Weight(c, j) = t => i <= j
      BY <1>4, <1>6
    <3>2. QED
      BY <1>6, <2>1, <3>1
  <2>3. Weight(c, i) > Weight(c, j) \/ (Weight(c, i) = Weight(c, j) /\ i < j)
    BY <1>5, <2>1, <2>2
  <2>4. QED
    BY <2>3 DEF Better, Weight
<1>7. QED
  BY <1>5, <1>6 DEF BestOf

-----------------------------------------------------------------------------
(* Groups of candidates that agree *)

\* Which place of the posting a source of names is.
Place == [hostname |-> "host", titleStrip |-> "title", ogSiteName |-> "site",
          footer |-> "footer", body |-> "body"]

Cands(W) == [source : DOMAIN Place, value : SUBSET W]

LEMMA Weighed ==
    ASSUME NEW W, IsFiniteSet(W), NEW c \in Seq(Cands(W))
    PROVE  /\ Cardinality(W) \in Nat
           /\ \A i \in DOMAIN c : Weight(c, i) \in 0..Cardinality(W)
<1>1. Cardinality(W) \in Nat
  BY FS_CardinalityType
<1>2. ASSUME NEW i \in DOMAIN c PROVE Weight(c, i) \in 0..Cardinality(W)
  <2>1. c[i] \in Cands(W)
    OBVIOUS
  <2>2. Tokens(c[i].value) \in SUBSET W
    BY <2>1 DEF Cands, Tokens
  <2>3. /\ IsFiniteSet(Tokens(c[i].value)) /\ Cardinality(Tokens(c[i].value)) <= Cardinality(W)
    BY <2>2, FS_Subset
  <2>4. Cardinality(Tokens(c[i].value)) \in Nat
    BY <2>3, FS_CardinalityType
  <2>5. QED
    BY <1>1, <2>3, <2>4 DEF Weight
<1>3. QED
  BY <1>1, <1>2

\* Every member of a group is the best of its source, and agrees with the anchor.
LEMMA GroupMembers ==
    ASSUME NEW W, IsFiniteSet(W), NEW c \in Seq(Cands(W)), NEW a \in DOMAIN c,
           NEW g \in Agreeing(c, a)
    PROVE  /\ g \in DOMAIN c /\ Agree(c[a].value, c[g].value)
           /\ \A h \in Agreeing(c, a) : c[h].source = c[g].source => h = g
<1> DEFINE all == {i \in DOMAIN c : Agree(c[a].value, c[i].value)}
           of(s) == {i \in all : c[i].source = s}
           sources == {c[i].source : i \in all}
<1>1. Agreeing(c, a) = {BestOf(c, of(s)) : s \in sources}
  BY DEF Agreeing
<1>2. ASSUME NEW s \in sources PROVE BestOf(c, of(s)) \in of(s)
  <2>1. of(s) \in SUBSET Nat /\ of(s) # {} /\ of(s) \subseteq DOMAIN c
    <3>1. DOMAIN c \subseteq Nat
      OBVIOUS
    <3>2. QED
      BY <3>1
  <2>2. /\ Cardinality(W) \in Nat /\ \A i \in of(s) : Weight(c, i) \in 0..Cardinality(W)
    BY <2>1, Weighed
  <2> HIDE DEF of
  <2>3. QED
    BY <2>1, <2>2, BestOfSome
<1>3. PICK s \in sources : g = BestOf(c, of(s))
  BY <1>1
<1>4. g \in of(s)
  BY <1>2, <1>3
<1>5. ASSUME NEW h \in Agreeing(c, a), c[h].source = c[g].source PROVE h = g
  <2>1. PICK u \in sources : h = BestOf(c, of(u))
    BY <1>1
  <2>2. c[h].source = u /\ c[g].source = s
    BY <1>2, <1>4, <2>1
  <2>3. QED
    BY <1>3, <1>5, <2>1, <2>2
<1>6. QED
  BY <1>4, <1>5

\* Of some groups one is ahead of all.
LEMMA OneIsAhead ==
    ASSUME NEW W, IsFiniteSet(W), NEW c \in Seq(Cands(W)),
           NEW groups, groups # {},
           \A G \in groups : G # {} /\ G \subseteq DOMAIN c
    PROVE  \E G \in groups : \A H \in groups : Ahead(c, G, H)
<1> DEFINE N == Len(c)
<1>1. N \in Nat /\ DOMAIN c = 1..N
  OBVIOUS
<1>2. ASSUME NEW G \in groups PROVE Cardinality(G) \in 0..N /\ BestOf(c, G) \in G /\ G \subseteq 1..N
  <2>1. IsFiniteSet(1..N) /\ Cardinality(1..N) = N
    <3> HIDE DEF N
    <3>1. 1 \in Int /\ N \in Int /\ N >= 0
      BY <1>1
    <3>2. /\ IsFiniteSet(1..N)
          /\ Cardinality(1..N) = IF 1 > N THEN 0 ELSE N - 1 + 1
      BY <3>1, FS_Interval
    <3>3. QED
      BY <3>1, <3>2
  <2>2. Cardinality(G) \in 0..N
    <3>1. IsFiniteSet(G) /\ Cardinality(G) <= N
      BY <1>1, <2>1, FS_Subset
    <3>2. QED
      BY <1>1, <3>1, FS_CardinalityType
  <2>3. G \in SUBSET Nat /\ G # {}
    BY <1>1
  <2>4. Cardinality(W) \in Nat /\ \A i \in G : Weight(c, i) \in 0..Cardinality(W)
    BY Weighed
  <2>5. BestOf(c, G) \in G
    BY <2>3, <2>4, BestOfSome
  <2>6. QED
    BY <1>1, <2>2, <2>5
<1> HIDE DEF N
<1> DEFINE sizes == {Cardinality(G) : G \in groups}
<1>3. PICK m \in sizes : \A k \in sizes : m >= k
  <2>1. sizes \in SUBSET (0..N) /\ sizes # {}
    BY <1>2
  <2> HIDE DEF sizes
  <2>2. QED
    BY <1>1, <2>1, Greatest
<1> DEFINE large == {G \in groups : Cardinality(G) = m}
           bests == {BestOf(c, G) : G \in large}
<1>4. bests \in SUBSET Nat /\ bests # {} /\ bests \subseteq DOMAIN c
  <2>1. large # {}
    BY <1>3
  <2>2. \A G \in large : BestOf(c, G) \in 1..N
    BY <1>2
  <2>3. QED
    BY <1>1, <2>1, <2>2
<1> DEFINE b == BestOf(c, bests)
<1>5. b \in bests /\ \A j \in bests \ {b} : Better(c, b, j)
  <2> HIDE DEF bests
  <2>1. Cardinality(W) \in Nat /\ \A i \in bests : Weight(c, i) \in 0..Cardinality(W)
    BY <1>4, Weighed
  <2>2. QED
    BY <1>4, <2>1, BestOfSome
<1> HIDE DEF b
<1>6. PICK G \in large : b = BestOf(c, G)
  BY <1>5
<1>7. ASSUME NEW H \in groups PROVE Ahead(c, G, H)
  <2>1. Cardinality(G) = m /\ m >= Cardinality(H) /\ m \in Nat /\ Cardinality(H) \in Nat
    <3>1. Cardinality(H) \in sizes /\ Cardinality(G) = m
      BY <1>6, <1>7
    <3>2. m \in Nat /\ Cardinality(H) \in Nat
      BY <1>2, <1>3, <1>7
    <3> HIDE DEF sizes
    <3>3. QED
      BY <1>3, <3>1, <3>2
  <2>2. Cardinality(H) = m => BestOf(c, H) \in bests
    BY <1>7
  <2> HIDE DEF bests
  <2>3. Cardinality(H) = m => BestOf(c, G) = BestOf(c, H) \/ Better(c, BestOf(c, G), BestOf(c, H))
    BY <1>5, <1>6, <2>2
  <2>4. QED
    BY <2>1, <2>3 DEF Ahead
<1>8. QED
  BY <1>6, <1>7

\* Two members of a group are of two sources, and so one agrees with another: the
\* anchor, if the value is another's, else some other.
LEMMA AgreedByTwo ==
    ASSUME NEW W, IsFiniteSet(W), NEW c \in Seq(Cands(W)),
           \A i, j \in DOMAIN c : c[i].source = c[j].source => c[i].value = c[j].value,
           CrossValidated(c) # NoText
    PROVE  \E i, j \in DOMAIN c : /\ c[i].source # c[j].source
                                  /\ c[i].value = CrossValidated(c)
                                  /\ Agree(c[i].value, c[j].value)
<1> DEFINE groups == {G \in {Agreeing(c, a) : a \in DOMAIN c} : Cardinality(G) >= 2}
           G == CHOOSE F \in groups : \A H \in groups : Ahead(c, F, H)
           x == BestOf(c, G)
<1>1. groups # {} /\ CrossValidated(c) = c[x].value
  BY DEF CrossValidated
<1>2. \A F \in groups : F # {} /\ F \subseteq DOMAIN c
  <2>1. ASSUME NEW a \in DOMAIN c PROVE Agreeing(c, a) \subseteq DOMAIN c
    BY GroupMembers
  <2>2. ASSUME NEW F \in groups PROVE F # {}
    <3>1. Cardinality(F) >= 2
      OBVIOUS
    <3>2. F = {} => Cardinality(F) = 0
      BY FS_EmptySet
    <3> HIDE DEF groups
    <3>3. QED
      BY <3>1, <3>2
  <2>3. QED
    BY <2>1, <2>2
<1>3. G \in groups
  <2> HIDE DEF groups
  <2>1. QED
    BY <1>1, <1>2, OneIsAhead
<1> HIDE DEF G
<1>4. PICK a \in DOMAIN c : G = Agreeing(c, a)
  BY <1>3
<1>5. IsFiniteSet(G) /\ Cardinality(G) >= 2 /\ G \subseteq DOMAIN c /\ G # {}
  <2>1. IsFiniteSet(1..Len(c)) /\ DOMAIN c = 1..Len(c)
    BY FS_Interval
  <2>2. G \in SUBSET (1..Len(c)) /\ G # {} /\ Cardinality(G) >= 2
    BY <1>2, <1>3, <2>1
  <2>3. QED
    BY <2>1, <2>2, FS_Subset
<1>6. x \in G
  <2>1. G \in SUBSET Nat
    <3>1. DOMAIN c \subseteq Nat
      OBVIOUS
    <3>2. QED
      BY <1>5, <3>1
  <2>2. Cardinality(W) \in Nat /\ \A i \in G : Weight(c, i) \in 0..Cardinality(W)
    BY <1>5, Weighed
  <2>3. QED
    BY <1>5, <2>1, <2>2, BestOfSome
<1>7. PICK y \in G : y # x
  <2>1. G # {x}
    <3> HIDE DEF x
    <3>1. G = {x} => Cardinality(G) = 1
      BY FS_Singleton
    <3>2. QED
      BY <1>5, <3>1
  <2>2. QED
    BY <1>6, <2>1
<1> HIDE DEF x
<1>8. /\ x \in DOMAIN c /\ y \in DOMAIN c /\ c[x].source # c[y].source
      /\ Agree(c[a].value, c[x].value) /\ Agree(c[a].value, c[y].value)
  <2>1. x \in Agreeing(c, a) /\ y \in Agreeing(c, a)
    BY <1>4, <1>6
  <2>2. QED
    BY <1>7, <2>1, GroupMembers
<1>9. Agree(c[x].value, c[a].value)
  BY <1>8 DEF Agree
<1>10. CASE c[a].source = c[x].source
  <2>1. Agree(c[x].value, c[y].value)
    BY <1>8, <1>10
  <2>2. QED
    BY <1>1, <1>8, <2>1
<1>11. CASE c[a].source # c[x].source
  BY <1>1, <1>8, <1>9, <1>11
<1>12. QED
  BY <1>10, <1>11

-----------------------------------------------------------------------------
(* The candidates of a page *)

\* A selected line is a line.
LEMMA FooterIsALine ==
    ASSUME NEW S, NEW lines \in Seq(S)
    PROVE  FooterCompany(lines) # NoText =>
             \E i \in DOMAIN lines : FooterCompany(lines) = lines[i].words
<1> DEFINE near == IF Len(lines) > FooterLines
                   THEN SubSeq(lines, Len(lines) - FooterLines + 1, Len(lines)) ELSE lines
           I == {i \in 1..Len(near) : near[i].company /\ near[i].short}
<1>1. FooterCompany(lines) =
        IF I = {} THEN NoText ELSE IF Max(I) = 0 THEN NoText ELSE near[Max(I)].words
  BY DEF FooterCompany, SelectLastInSeq
<1>2. near \in Seq(S) /\ \A i \in 1..Len(near) : \E j \in DOMAIN lines : near[i] = lines[j]
  <2>1. CASE ~(Len(lines) > FooterLines)
    <3>1. near = lines
      BY <2>1
    <3> HIDE DEF near
    <3>2. QED
      BY <3>1
  <2>2. CASE Len(lines) > FooterLines
    <3> USE LinesAssumption
    <3> DEFINE m == Len(lines) - FooterLines + 1
    <3>1. near = SubSeq(lines, m, Len(lines)) /\ m \in 1..(Len(lines) + 1)
      BY <2>2
    <3> HIDE DEF near
    <3>2. near \in Seq(S) /\ Len(near) = Len(lines) - m + 1
      BY <3>1
    <3>3. \A i \in 1..Len(near) : near[i] = lines[m + i - 1] /\ m + i - 1 \in DOMAIN lines
      BY <3>1, <3>2
    <3> HIDE DEF m
    <3>4. QED
      BY <3>2, <3>3
  <2>3. QED
    BY <2>1, <2>2
<1> HIDE DEF near
<1>3. I \in SUBSET (0..Len(near)) /\ Len(near) \in Nat
  BY <1>2
<1>4. I # {} => Max(I) \in I
  BY <1>3, MaxOf
<1>5. QED
  BY <1>1, <1>2, <1>4

LEMMA BodyIsALine ==
    ASSUME NEW S, NEW lines \in Seq(S)
    PROVE  BodyCompany(lines) # NoText =>
             \E i \in DOMAIN lines : BodyCompany(lines) = lines[i].words
<1> DEFINE I == {i \in 1..Len(lines) : lines[i].company}
<1>1. BodyCompany(lines) =
        IF (IF I = {} THEN 0 ELSE Min(I)) # 0
           /\ lines[IF I = {} THEN 0 ELSE Min(I)].short
        THEN lines[IF I = {} THEN 0 ELSE Min(I)].words ELSE NoText
  BY DEF BodyCompany, SelectInSeq
<1>2. I \in SUBSET Nat
  OBVIOUS
<1>3. I # {} => Min(I) \in I
  BY <1>2, MinOf
<1> HIDE DEF I
<1>4. I \subseteq DOMAIN lines
  BY DEF I
<1>5. QED
  BY <1>1, <1>3, <1>4

\* Candidates are the given ones of five values, each with its own source.
Given(V) == {[source |-> s, value |-> V[s]] : s \in {t \in DOMAIN V : V[t] # NoText}}
LEMMA GivenOne ==
    ASSUME NEW V, NEW s \in DOMAIN V PROVE Candidate(s, V[s]) \in Seq(Given(V))
<1>1. CASE V[s] = NoText
  BY <1>1 DEF Candidate
<1>2. CASE V[s] # NoText
  <2>1. [source |-> s, value |-> V[s]] \in Given(V)
    BY <1>2 DEF Given
  <2> HIDE DEF Given
  <2>2. QED
    BY <1>2, <2>1 DEF Candidate
<1>3. QED
  BY <1>1, <1>2

Values(p, role) ==
    [hostname |-> p.host, titleStrip |-> TitleCompany(PageTitle(p), role),
     ogSiteName |-> p.site, footer |-> FooterCompany(p.lines),
     body |-> BodyCompany(p.lines)]
LEMMA CandidatesGiven ==
    ASSUME NEW p, NEW role
    PROVE  CompanyCandidates(p, p.lines, PageTitle(p), role) \in Seq(Given(Values(p, role)))
<1> DEFINE V == Values(p, role)
           c(s) == Candidate(s, V[s])
<1>1. /\ DOMAIN V = {"hostname", "titleStrip", "ogSiteName", "footer", "body"}
      /\ V["hostname"] = p.host /\ V["titleStrip"] = TitleCompany(PageTitle(p), role)
      /\ V["ogSiteName"] = p.site /\ V["footer"] = FooterCompany(p.lines)
      /\ V["body"] = BodyCompany(p.lines)
  BY DEF Values
<1> HIDE DEF V
<1>2. /\ c("hostname") \in Seq(Given(V)) /\ c("titleStrip") \in Seq(Given(V))
      /\ c("ogSiteName") \in Seq(Given(V)) /\ c("footer") \in Seq(Given(V))
      /\ c("body") \in Seq(Given(V))
  BY <1>1, GivenOne
<1>3. CompanyCandidates(p, p.lines, PageTitle(p), role)
        = c("hostname") \o c("titleStrip") \o c("ogSiteName") \o c("footer") \o c("body")
  BY <1>1 DEF CompanyCandidates
<1> HIDE DEF c
<1>4. QED
  BY <1>2, <1>3 DEF V

\* The pages a fetch may bring.
LEMMA StaticPage ==
    ASSUME web \in Pages, web.scripted
    PROVE  LET p == Static(web)
           IN  /\ p.host = web.host /\ p.title = web.title /\ p.listed = web.listed
               /\ p.lines = << >> /\ p.site = NoText /\ p.embedded = NoEmbedded
               /\ JsonLd(p) = NoData
<1> DEFINE p == [Nothing EXCEPT !.title = web.title, !.listed = web.listed,
                                !.host = web.host]
<1>1. /\ p.host = web.host /\ p.title = web.title /\ p.listed = web.listed
      /\ p.lines = << >> /\ p.site = NoText /\ p.embedded = NoEmbedded
      /\ p.blocks = << >>
  BY DEF Nothing
<1>2. Static(web) = p
  BY DEF Static
<1> HIDE DEF p
<1>3. Nodes(p) = << >>
  <2>1. [i \in DOMAIN p.blocks |->
           IF p.blocks[i].broken THEN << >> ELSE p.blocks[i].nodes] = << >>
    BY <1>1
  <2>2. QED
    BY <2>1 DEF Nodes, FlattenSeq
<1>4. JsonLd(p) = NoData
  BY <1>3 DEF JsonLd, SelectInSeq
<1>5. QED
  BY <1>1, <1>2, <1>4

\* A fetched page says what the posting says, or less.
LEMMA FetchedPage ==
    ASSUME web \in Pages, NEW p \in Fetched(web)
    PROVE  /\ p.host = web.host
           /\ p.site \in {web.site, NoText}
           /\ p.lines = web.lines \/ p.lines = << >>
           /\ p.embedded \in {web.embedded, NoEmbedded}
           /\ JsonLd(p) \in {JsonLd(web), NoData}
           /\ p.title = web.title /\ p.listed = web.listed
<1>1. CASE p = web
  BY <1>1
<1>2. CASE p # web
  <2>1. web.scripted /\ p = Static(web)
    BY <1>2 DEF Fetched, Browser, Static
  <2>2. QED
    BY <2>1, StaticPage
<1>3. QED
  BY <1>1, <1>2

LEMMA TitleParts ==
    ASSUME web \in Pages, NEW p \in Fetched(web), NEW role,
           TitleCompany(PageTitle(p), role) # NoText
    PROVE  /\ <<"title", TitleCompany(PageTitle(p), role)>> \in Places
           /\ TitleCompany(PageTitle(p), role) \in Texts(web)
<1>1. /\ web.title \in Seq(Range(web.title)) /\ p.title = web.title /\ p.listed = web.listed
      /\ p.embedded \in {web.embedded, NoEmbedded}
  BY PagesAssumption, FetchedPage
<1>2. CASE p.embedded.present /\ p.embedded.title # NoText
  <2>1. PageTitle(p) = <<web.embedded.title>>
    BY <1>1, <1>2 DEF PageTitle, NoEmbedded
  <2> DEFINE t == <<web.embedded.title>>
  <2>2. t \in Seq({web.embedded.title}) /\ \A i \in 1..Len(t) : t[i] = web.embedded.title
    OBVIOUS
  <2> HIDE DEF t
  <2>3. \E i \in 1..Len(t) : TitleCompany(t, role) = t[i]
    <3>1. t \in Seq(SUBSET UNION {web.embedded.title})
      BY <2>2
    <3>2. QED
      BY <2>1, <3>1, SelectedFirst DEF t
  <2>4. TitleCompany(PageTitle(p), role) = web.embedded.title
    BY <2>1, <2>2, <2>3 DEF t
  <2>5. QED
    BY <2>4 DEF Places, Texts
<1>3. CASE ~(p.embedded.present /\ p.embedded.title # NoText)
  <2>1. PageTitle(p) = IF web.listed THEN << >> ELSE web.title
    BY <1>1, <1>3 DEF PageTitle, OwnTitle
  <2> DEFINE W == UNION Range(web.title)
  <2>2. web.title \in Seq(SUBSET W) /\ PageTitle(p) \in Seq(SUBSET W)
    <3>1. \A i \in 1..Len(web.title) : web.title[i] \in SUBSET W
      BY <1>1 DEF Range
    <3> HIDE DEF W
    <3>2. QED
      BY <1>1, <2>1, <3>1
  <2>3. PICK i \in 1..Len(PageTitle(p)) : TitleCompany(PageTitle(p), role) = PageTitle(p)[i]
    <3> HIDE DEF W
    <3>1. QED
      BY <2>2, SelectedFirst
  <2>4. ~web.listed /\ i \in DOMAIN web.title
          /\ TitleCompany(PageTitle(p), role) = web.title[i]
    BY <1>1, <2>1, <2>3
  <2>5. web.title[i] \in Range(web.title)
    BY <2>4 DEF Range
  <2>6. QED
    BY <2>4, <2>5 DEF Places, Texts
<1>4. QED
  BY <1>2, <1>3

LEMMA LineNames ==
    ASSUME web \in Pages, NEW p \in Fetched(web)
    PROVE  /\ FooterCompany(p.lines) # NoText =>
                /\ FooterCompany(p.lines) = FooterCompany(web.lines)
                /\ FooterCompany(p.lines) \in Texts(web)
           /\ BodyCompany(p.lines) # NoText =>
                /\ BodyCompany(p.lines) = BodyCompany(web.lines)
                /\ BodyCompany(p.lines) \in Texts(web)
<1>1. web.lines \in Seq(Range(web.lines))
  BY PagesAssumption
<1>2. CASE p.lines = web.lines
  <2>1. \A i \in DOMAIN web.lines : web.lines[i].words \in Texts(web)
    BY DEF Texts, Range
  <2>2. /\ FooterCompany(web.lines) # NoText =>
             \E i \in DOMAIN web.lines : FooterCompany(web.lines) = web.lines[i].words
        /\ BodyCompany(web.lines) # NoText =>
             \E i \in DOMAIN web.lines : BodyCompany(web.lines) = web.lines[i].words
    BY <1>1, FooterIsALine, BodyIsALine
  <2>3. QED
    BY <1>2, <2>1, <2>2
<1>3. CASE p.lines = << >>
  <2>1. << >> \in Seq(Range(web.lines)) /\ DOMAIN << >> = {}
    OBVIOUS
  <2>2. FooterCompany(<< >>) = NoText
    BY <1>1, <2>1, FooterIsALine
  <2>3. BodyCompany(<< >>) = NoText
    BY <2>1, BodyIsALine
  <2>4. QED
    BY <1>3, <2>2, <2>3
<1>4. QED
  BY <1>2, <1>3, FetchedPage

\* Every value a company is chosen from is a text of the posting, found at the place
\* its source names.
LEMMA ValuesInPlace ==
    ASSUME web \in Pages, NEW p \in Fetched(web), NEW role,
           NEW s \in DOMAIN Place, Values(p, role)[s] # NoText
    PROVE  /\ <<Place[s], Values(p, role)[s]>> \in Places
           /\ Values(p, role)[s] \in Texts(web)
<1> DEFINE V == Values(p, role)
<1>1. /\ V["hostname"] = p.host /\ V["titleStrip"] = TitleCompany(PageTitle(p), role)
      /\ V["ogSiteName"] = p.site /\ V["footer"] = FooterCompany(p.lines)
      /\ V["body"] = BodyCompany(p.lines)
  BY DEF Values
<1>2. V[s] # NoText
  OBVIOUS
<1> HIDE DEF V
<1>3. /\ Place["hostname"] = "host" /\ Place["titleStrip"] = "title"
      /\ Place["ogSiteName"] = "site" /\ Place["footer"] = "footer" /\ Place["body"] = "body"
      /\ DOMAIN Place = {"hostname", "titleStrip", "ogSiteName", "footer", "body"}
  BY DEF Place
<1>4. CASE s = "hostname"
  BY <1>1, <1>3, <1>4, FetchedPage DEF Places, Texts, V
<1>5. CASE s = "titleStrip"
  BY <1>1, <1>2, <1>3, <1>5, TitleParts DEF V
<1>6. CASE s = "ogSiteName"
  BY <1>1, <1>2, <1>3, <1>6, FetchedPage DEF Places, Texts, V
<1>7. CASE s = "footer"
  BY <1>1, <1>2, <1>3, <1>7, LineNames DEF Places, V
<1>8. CASE s = "body"
  BY <1>1, <1>2, <1>3, <1>8, LineNames DEF Places, V
<1>9. QED
  BY <1>3, <1>4, <1>5, <1>6, <1>7, <1>8

-----------------------------------------------------------------------------
(* What the form is told *)

LEMMA RangeIsFinite == ASSUME NEW S, NEW q \in Seq(S) PROVE IsFiniteSet(Range(q))
<1>1. IsFiniteSet(1..Len(q)) /\ DOMAIN q = 1..Len(q)
  BY FS_Interval
<1>2. q \in Surjection(1..Len(q), Range(q))
  BY <1>1 DEF Range, Surjection
<1>3. QED
  BY <1>1, <1>2, FS_Surjection

\* Of the candidates of a page, all are weighed, and a source has one value.
LEMMA PageCandidates ==
    ASSUME web \in Pages, NEW p \in Fetched(web), NEW role
    PROVE  LET c == CompanyCandidates(p, p.lines, PageTitle(p), role)
           IN  /\ IsFiniteSet(UNION Texts(web)) /\ c \in Seq(Cands(UNION Texts(web)))
               /\ \A i \in DOMAIN c : c[i].source \in DOMAIN Place
                                      /\ <<Place[c[i].source], c[i].value>> \in Places
               /\ \A i, j \in DOMAIN c :
                     c[i].source = c[j].source => c[i].value = c[j].value
<1> DEFINE V == Values(p, role)
           W == UNION Texts(web)
           c == CompanyCandidates(p, p.lines, PageTitle(p), role)
<1>1. c \in Seq(Given(V)) /\ DOMAIN V = DOMAIN Place
  BY CandidatesGiven DEF Values, Place
<1>2. \A s \in DOMAIN Place : V[s] # NoText =>
        <<Place[s], V[s]>> \in Places /\ V[s] \in Texts(web)
  BY ValuesInPlace
<1> HIDE DEF V, c
<1>3. IsFiniteSet(W)
  <2>1. \A t \in Texts(web) : IsFiniteSet(t)
    BY PagesAssumption
  <2>2. IsFiniteSet(Range(web.title)) /\ IsFiniteSet({l.words : l \in Range(web.lines)})
    <3>1. /\ web.title \in Seq(Range(web.title)) /\ web.lines \in Seq(Range(web.lines))
      BY PagesAssumption
    <3>2. IsFiniteSet(Range(web.title)) /\ IsFiniteSet(Range(web.lines))
      BY <3>1, RangeIsFinite
    <3> DEFINE f == [i \in 1..Len(web.lines) |-> web.lines[i].words]
    <3>3. f \in Seq({l.words : l \in Range(web.lines)})
      BY <3>1 DEF Range
    <3>4. Range(f) = {l.words : l \in Range(web.lines)}
      <4>1. DOMAIN web.lines = 1..Len(web.lines)
        BY <3>1
      <4>2. \A x : x \in Range(f) <=> \E i \in 1..Len(web.lines) : x = web.lines[i].words
        BY DEF Range
      <4>3. \A x : x \in {l.words : l \in Range(web.lines)}
                     <=> \E i \in 1..Len(web.lines) : x = web.lines[i].words
        BY <4>1 DEF Range
      <4>4. QED
        BY <4>2, <4>3
    <3>5. IsFiniteSet({l.words : l \in Range(web.lines)})
      <4> HIDE DEF f
      <4>1. QED
        BY <3>3, <3>4, RangeIsFinite
    <3>6. QED
      BY <3>2, <3>5
  <2>3. IsFiniteSet({web.host, web.site, web.embedded.title})
    <3>1. {web.host, web.site, web.embedded.title}
            = {web.host} \cup {web.site} \cup {web.embedded.title}
      OBVIOUS
    <3>2. /\ IsFiniteSet({web.host}) /\ IsFiniteSet({web.site})
          /\ IsFiniteSet({web.embedded.title})
      BY FS_Singleton
    <3>3. IsFiniteSet({web.host} \cup {web.site})
      BY <3>2, FS_Union
    <3>4. IsFiniteSet({web.host} \cup {web.site} \cup {web.embedded.title})
      BY <3>2, <3>3, FS_Union
    <3>5. QED
      BY <3>1, <3>4
  <2>4. IsFiniteSet(Texts(web))
    <3>1. ASSUME NEW A, NEW B, NEW C, IsFiniteSet(A), IsFiniteSet(B), IsFiniteSet(C)
          PROVE  IsFiniteSet(A \cup B \cup C)
      BY <3>1, FS_Union
    <3>2. QED
      BY <2>2, <2>3, <3>1 DEF Texts
  <2>5. QED
    BY <2>1, <2>4, FS_UNION
<1>4. \A i \in DOMAIN c : \E s \in DOMAIN Place :
        c[i] = [source |-> s, value |-> V[s]] /\ V[s] # NoText
  <2>1. \A i \in DOMAIN c : c[i] \in Given(V)
    BY <1>1
  <2>2. QED
    BY <1>1, <2>1 DEF Given
<1>5. Given(V) \subseteq Cands(W)
  <2>1. ASSUME NEW x \in Given(V) PROVE x \in Cands(W)
    <3>1. PICK s \in DOMAIN Place : x = [source |-> s, value |-> V[s]] /\ V[s] # NoText
      BY <1>1 DEF Given
    <3>2. V[s] \in SUBSET W
      BY <1>1, <1>2, <3>1
    <3> HIDE DEF W
    <3>3. QED
      BY <3>1, <3>2 DEF Cands
  <2>2. QED
    BY <2>1
<1>6. c \in Seq(Cands(W))
  <2> HIDE DEF W
  <2>1. QED
    BY <1>1, <1>5
<1>7. ASSUME NEW i \in DOMAIN c
      PROVE  /\ c[i].source \in DOMAIN Place /\ c[i].value = V[c[i].source]
             /\ <<Place[c[i].source], c[i].value>> \in Places
  <2>1. PICK s \in DOMAIN Place : c[i] = [source |-> s, value |-> V[s]] /\ V[s] # NoText
    BY <1>4
  <2>2. c[i].source = s /\ c[i].value = V[s]
    BY <2>1
  <2>3. QED
    BY <1>2, <2>1, <2>2
<1>8. ASSUME NEW i \in DOMAIN c, NEW j \in DOMAIN c, c[i].source = c[j].source
      PROVE  c[i].value = c[j].value
  <2>1. c[i].value = V[c[i].source] /\ c[j].value = V[c[j].source]
    BY <1>7
  <2>2. QED
    BY <1>8, <2>1
<1>9. QED
  BY <1>3, <1>6, <1>7, <1>8 DEF c

\* A name two sources agree on has the support of two places.
LEMMA AgreedIsSupported ==
    ASSUME web \in Pages, NEW p \in Fetched(web), NEW role, NEW name, name # NoText,
           name = CrossValidated(CompanyCandidates(p, p.lines, PageTitle(p), role))
    PROVE  Supported(name)
<1> DEFINE c == CompanyCandidates(p, p.lines, PageTitle(p), role)
           W == UNION Texts(web)
<1>1. /\ IsFiniteSet(W) /\ c \in Seq(Cands(W))
      /\ \A i \in DOMAIN c : c[i].source \in DOMAIN Place
                             /\ <<Place[c[i].source], c[i].value>> \in Places
      /\ \A i, j \in DOMAIN c : c[i].source = c[j].source => c[i].value = c[j].value
  BY PageCandidates
<1>2. CrossValidated(c) = name
  OBVIOUS
<1> HIDE DEF c, W
<1>3. PICK i \in DOMAIN c, j \in DOMAIN c :
        /\ c[i].source # c[j].source /\ c[i].value = name
        /\ Agree(c[i].value, c[j].value)
  BY <1>1, <1>2, AgreedByTwo
<1>4. \A s, t \in DOMAIN Place : Place[s] = Place[t] => s = t
  BY DEF Place
<1> DEFINE a == <<Place[c[i].source], c[i].value>>
           b == <<Place[c[j].source], c[j].value>>
<1>5. /\ a \in Places /\ b \in Places
      /\ a[1] = Place[c[i].source] /\ a[2] = name
      /\ b[1] = Place[c[j].source] /\ b[2] = c[j].value
  BY <1>1, <1>3
<1> HIDE DEF a, b
<1>6. a[1] # b[1] /\ Agree(name, b[2])
  <2>1. c[i].source \in DOMAIN Place /\ c[j].source \in DOMAIN Place
    BY <1>1
  <2>2. Place[c[i].source] # Place[c[j].source]
    BY <1>3, <1>4, <2>1
  <2>3. QED
    BY <1>3, <1>5, <2>2
<1>7. QED
  BY <1>5, <1>6 DEF Supported

\* What an analysis calls factual, of the company and of the role.
LEMMA FactsOfAnalysis ==
    ASSUME web \in Pages, NEW e \in Analyses
    PROVE  /\ e.company.tier = "factual" =>
                \/ e.company.value \in {JsonLd(web).company, web.embedded.company}
                \/ Supported(e.company.value)
           /\ e.role.tier = "factual" =>
                \/ e.role.value = RoleOfTitle(JsonLd(web))
                \/ Overlap(e.role.value, web.embedded.title, 2)
<1>1. PICK p \in Fetched(web) : e = FromUrl(p, NoSeeds)
  BY DEF Analyses, FromWeb
<1> DEFINE seeds == [NoSeeds EXCEPT !.company =
                       IF p.embedded.company # NoText THEN p.embedded.company ELSE @]
           title == PageTitle(p)
<1>2. /\ seeds.role = NoText
      /\ seeds.company = IF p.embedded.company # NoText THEN p.embedded.company ELSE NoText
  BY DEF NoSeeds
<1>3. e = Extraction(p, seeds, title)
  BY <1>1 DEF FromUrl
<1> HIDE DEF seeds, title
<1>4. /\ e.role = InferRole(p, p.lines, seeds.role, title)
      /\ e.company = InferCompany(p, p.lines, seeds.company, title, e.role.value)
  BY <1>3 DEF Extraction
<1>5. /\ p.embedded \in {web.embedded, NoEmbedded}
      /\ JsonLd(p) \in {JsonLd(web), NoData}
  BY FetchedPage
<1>6. ASSUME e.company.tier = "factual"
      PROVE  \/ e.company.value \in {JsonLd(web).company, web.embedded.company}
             \/ Supported(e.company.value)
  <2> DEFINE agreed == CrossValidated(CompanyCandidates(p, p.lines, title, e.role.value))
  <2>1. \/ seeds.company # NoText /\ e.company.value = seeds.company
        \/ JsonLd(p).company # NoText /\ e.company.value = JsonLd(p).company
        \/ agreed # NoText /\ e.company.value = agreed
    BY <1>4, <1>6 DEF InferCompany, Field, NoField
  <2>2. agreed # NoText /\ e.company.value = agreed => Supported(e.company.value)
    BY AgreedIsSupported DEF title
  <2> HIDE DEF agreed
  <2>3. QED
    BY <1>2, <1>5, <2>1, <2>2 DEF NoEmbedded, NoData
<1>7. ASSUME e.role.tier = "factual"
      PROVE  \/ e.role.value = RoleOfTitle(JsonLd(web))
             \/ Overlap(e.role.value, web.embedded.title, 2)
  <2>1. \/ /\ RoleOfTitle(JsonLd(p)) # NoText
           /\ e.role.value = RoleOfTitle(JsonLd(p))
        \/ p.embedded.present /\ Overlap(e.role.value, p.embedded.title, 2)
    BY <1>2, <1>4, <1>7 DEF InferRole, Field, NoField
  <2>2. RoleOfTitle(NoData) = NoText
    BY DEF RoleOfTitle, NoData, NoText
  <2>3. QED
    BY <1>5, <2>1, <2>2 DEF NoEmbedded
<1>8. QED
  BY <1>6, <1>7

LEMMA FormStart == Init => FormInv
BY DEF Init, FormInv, Empty

\* Only an answer to the form's question sets what it shows.
LEMMA FormStep == FormInv /\ [Next]_vars => FormInv'
<1> SUFFICES ASSUME FormInv, [Next]_vars PROVE FormInv'
  OBVIOUS
<1>1. UNCHANGED <<web, form>> => FormInv'
  BY DEF FormInv, Analyses, FromWeb
<1>2. CASE \/ AnalyzePosting \/ PostingFailed \/ EditUrl \/ EditNames \/ Create
           \/ AnswerArrives \/ OpenProject
  <2>1. UNCHANGED web /\ "result" \in DOMAIN form' /\ form'.result \in {form.result, NoResult}
    <3>1. "result" \in DOMAIN form
      BY DEF FormInv
    <3>2. CASE AnalyzePosting
      BY <3>1, <3>2 DEF AnalyzePosting
    <3>3. CASE PostingFailed
      BY <3>1, <3>3 DEF PostingFailed
    <3>4. CASE EditUrl
      BY <3>1, <3>4 DEF EditUrl
    <3>5. CASE EditNames
      BY <3>1, <3>5 DEF EditNames
    <3>6. CASE Create
      BY <3>1, <3>6 DEF Create
    <3>7. CASE AnswerArrives
      BY <3>1, <3>7 DEF AnswerArrives, Empty
    <3>8. CASE OpenProject
      BY <3>1, <3>8 DEF OpenProject, Empty
    <3>9. QED
      BY <1>2, <3>2, <3>3, <3>4, <3>5, <3>6, <3>7, <3>8
  <2>2. Analyses' = Analyses
    BY <2>1 DEF Analyses, FromWeb
  <2>3. QED
    BY <2>1, <2>2 DEF FormInv
<1>3. CASE PostingAnalyzed
  <2>1. PICK e \in Analyses :
          form' = [form EXCEPT !.asked = FALSE, !.status = "ready",
                     !.company = e.company.value, !.role = e.role.value,
                     !.result = e]
    BY <1>3 DEF PostingAnalyzed
  <2>2. UNCHANGED web /\ "result" \in DOMAIN form'
          /\ form'.result = e
    BY <1>3, <2>1 DEF FormInv, PostingAnalyzed
  <2>3. Analyses' = Analyses
    BY <2>2 DEF Analyses, FromWeb
  <2>4. QED
    BY <2>2, <2>3 DEF FormInv
<1>4. CASE Runner
  <2>1. UNCHANGED <<web, form>>
    BY <1>4 DEF Runner, Busy, Work, RequestEnds, GetState, Read, Assign, PushEnd,
       AnalysisStarts, AnalysisEnds, GenerationStarts, GenerationFetches, GenerationGate,
       PushGenerating, GenerationCollects, GenerationEnds, net, page
  <2>2. QED
    BY <1>1, <2>1
<1>5. CASE \/ Deliver \/ NewApplication \/ StartEdit \/ TypeNames \/ SaveInfo \/ Delete
           \/ AnalyzeInsights \/ GenerateInsights \/ ChooseCompany \/ WorkspaceArrives
  <2>1. UNCHANGED <<web, form>>
    BY <1>5 DEF Deliver, NewApplication, StartEdit, TypeNames, SaveInfo, Delete,
       AnalyzeInsights, GenerateInsights, ChooseCompany, WorkspaceArrives, net, page
  <2>2. QED
    BY <1>1, <2>1
<1>6. CASE UNCHANGED vars
  BY <1>1, <1>6 DEF vars, page
<1>7. QED
  BY <1>2, <1>3, <1>4, <1>5, <1>6 DEF Next, Page

\* Whatever was fetched, a name the form calls factual is given as data, or is what
\* two places of the posting agree on (inferCompanyNameWithTier, inferRoleWithTier,
\* crossValidateCandidates).
THEOREM FactsAreSupported == Spec => []FactsHaveSupport
<1>1. ASSUME FormInv PROVE FactsHaveSupport
  <2> SUFFICES ASSUME form.result # NoResult
               PROVE  /\ form.result.company.tier = "factual" =>
                           \/ form.result.company.value
                                \in {JsonLd(web).company, web.embedded.company}
                           \/ Supported(form.result.company.value)
                      /\ form.result.role.tier = "factual" =>
                           \/ form.result.role.value = RoleOfTitle(JsonLd(web))
                           \/ Overlap(form.result.role.value, web.embedded.title, 2)
    BY DEF FactsHaveSupport
  <2>1. PICK e \in Analyses : form.result = e
    BY <1>1 DEF FormInv
  <2>2. QED
    BY <1>1, <2>1, FactsOfAnalysis DEF FormInv
<1>2. QED
  BY <1>1, FormStart, FormStep, PTL DEF Spec
==============================================================================
