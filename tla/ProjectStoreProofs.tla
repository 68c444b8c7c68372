------------------------- MODULE ProjectStoreProofs -------------------------
(***************************************************************************)
(* Proofs about ProjectStore, for any documents, question lists, requests  *)
(* and jobs, when a request and a job meet only where the job waits; and   *)
(* about Uploads, for any uploads, files and sizes of a chunk.             *)
(*                                                                         *)
(* What an actor still has to do is a plan, so the invariant is about      *)
(* plans: which step may come after which (Bars, Good), what the steps     *)
(* that are left have found in the files, the manifest and the record      *)
(* (DocFacts, RecordFacts), and what a job relies on (JobOK).  An actor    *)
(* that moves leaves these facts of the others alone, because they rest    *)
(* and a plan that rests has no step that needs one.                       *)
(*                                                                         *)
(* Two more invariants stand on that one: ReadyInv, about the job that     *)
(* makes a project ready, and ChoiceInv, about the choices of documents.   *)
(*                                                                         *)
(* The page's word on an upload rests on where the upload is (UploadInv):  *)
(* on the answer that is on its way, the manifest its handler has read and *)
(* what it has written.  Without a fault page and runner count the same    *)
(* chunks, sent, waited for and collected (SessionInv).                    *)
(***************************************************************************)
EXTENDS MCProjectStore, SequenceTheorems, TLAPS

-----------------------------------------------------------------------------
(***************************************************************************)
(* Plans.                                                                  *)
(***************************************************************************)
StepsOf(p) == {p[i] : i \in DOMAIN p}

\* The steps that write the manifest or the files of a document, or read what
\* such a step needs.
DocSteps == {"writeFiles", "extract", "loadManifest", "loadExisting", "addDocument",
             "markDocument", "dropDocument", "removeFiles"}

\* The steps that write the record back, and those that read it.
Writers == {"markRecord", "writeReasons", "writeAnswer", "writeInfo", "writeError"}
Loaders == {"loadRecord", "readInfo"}

\* The steps of a job after its posting was fetched, and all its own steps.
LateSteps == {"confidence", "collected", "companyPhase", "supportPhase", "writeReady"}
JobSteps == LateSteps \cup {"checkInputs", "fetched", "analyzed", "writeStale"}

StepNames == DocSteps \cup Writers \cup Loaders \cup JobSteps \cup
  {"makeManifest", "makeRecord", "removeProject", "unpinNext", "readAnswer", "await",
   "findGenerated"}

\* Step b never comes after step a, however far.
Bars(a, b) ==
  \/ /\ a \in {"addDocument", "markDocument", "removeFiles", "removeProject", "readInfo",
               "unpinNext", "readAnswer", "findGenerated", "checkInputs", "await",
               "makeManifest", "writeInfo", "markRecord"}
     /\ b \in DocSteps
  \/ a = "dropDocument" /\ b \in DocSteps \ {"removeFiles"}
  \/ /\ a \in {"markRecord", "removeProject", "readInfo", "unpinNext", "readAnswer",
               "findGenerated", "checkInputs", "await", "makeManifest", "writeInfo"}
     /\ b = "markRecord"
  \/ b = "makeManifest"
  \/ a \in {"writeInfo", "makeRecord", "await", "checkInputs"} /\ b = "writeAnswer"
  \/ a \in {"writeInfo", "checkInputs"} /\ b \in LateSteps \cup {"fetched"}

Good(p) ==
  /\ p \in Seq(StepNames)
  /\ \A i, j \in 1..Len(p) : i < j => ~Bars(p[i], p[j])
  /\ \A i \in 2..Len(p) : p[i] \in Writers => p[i - 1] \in Loaders

Fallbacks == {<< >>, <<"loadRecord", "writeError">>, <<"writeStale">>}

-----------------------------------------------------------------------------
(***************************************************************************)
(* The invariant.                                                          *)
(***************************************************************************)
\* Answers fit questions.
Fit(questions, answers) ==
  \A i \in DOMAIN answers : i \in DOMAIN questions /\ questions[i] = answers[i].text

RecordOK(r) ==
  /\ {"questions", "answers", "pinned", "status", "generated", "rev", "posting", "low",
      "dart"} \subseteq DOMAIN r
  /\ Fit(r.questions, r.answers)
  /\ r.status = "ready" => r.generated /\ r.posting # "url"

\* What the steps R of a job rely on in the record it has written last.
JobOK(R, own) ==
  /\ R \cap LateSteps # {} => own.posting # "url"
  /\ "fetched" \in R => own.posting = "url"
  /\ "collected" \in R => own.status = "generating"

OpOK(o, t) ==
  /\ {"plan", "scope", "doc", "pin", "title", "man", "rec", "own", "answers", "index",
      "text", "edit", "list", "drop", "failed"} \subseteq DOMAIN t
  /\ t.scope \in Scopes
  /\ Good(t.plan)
  /\ t.failed \in Fallbacks
  /\ RecordOK(t.own)
  /\ Fit(t.list, t.answers)
  /\ JobOK(StepsOf(t.plan), t.own)
  /\ o \in Requests => StepsOf(t.plan) \cap JobSteps = {} /\ t.failed = << >>

\* What the steps R of t rely on in the manifest m and the files f: a copy of
\* the manifest that is written back names files that exist, a document that
\* is entered is there, one whose files are removed is not in the manifest.
DocFacts(R, t, m, f) ==
  /\ "addDocument" \in R /\ "writeFiles" \notin R => t.doc \in f[t.scope]
  /\ /\ R \cap {"addDocument", "markDocument", "dropDocument"} # {}
     /\ R \cap {"loadManifest", "loadExisting"} = {}
     => DOMAIN t.man \subseteq f[t.scope]
  /\ "removeFiles" \in R /\ "dropDocument" \notin R => t.doc \notin DOMAIN m[t.scope]
  /\ "extract" \in R => t.doc \notin DOMAIN m[t.scope]

\* What t relies on in the record r: a step that writes the record back comes
\* right after it was read, and the question of an answer is where it was.
RecordFacts(t, r) ==
  /\ t.plan # << >> /\ Head(t.plan) \in Writers => r # NoFile /\ t.rec = r
  /\ "writeAnswer" \in StepsOf(t.plan) /\ r # NoFile
       => t.index \in DOMAIN r.questions /\ r.questions[t.index] = t.text

TaskOK(o, t, r, m, f) ==
  OpOK(o, t) /\ DocFacts(StepsOf(t.plan), t, m, f) /\ RecordFacts(t, r)

DiskOK(r, m, f) ==
  /\ DOMAIN m = Scopes /\ DOMAIN f = Scopes
  /\ \A s \in Scopes : DOMAIN m[s] \subseteq f[s]
  /\ r # NoFile => RecordOK(r)

StoreInv ==
  /\ DiskOK(record, manifest, files)
  /\ DOMAIN op = Actors
  /\ \A o \in Actors : TaskOK(o, op[o], record, manifest, files)

-----------------------------------------------------------------------------
(***************************************************************************)
(* Lemmas about plans.                                                     *)
(***************************************************************************)
\* What is left of a plan is a plan.
LEMMA TailIsGood ==
    ASSUME NEW p, Good(p), p # << >>
    PROVE  /\ Good(Tail(p))
           /\ StepsOf(p) = {Head(p)} \cup StepsOf(Tail(p))
           /\ \A b \in StepsOf(Tail(p)) : ~Bars(Head(p), b)
           /\ Tail(p) # << >> /\ Head(Tail(p)) \in Writers => Head(p) \in Loaders
<1> DEFINE q == Tail(p)
<1>1. p \in Seq(StepNames) /\ Len(p) \in Nat /\ Len(p) > 0
  BY DEF Good
<1>2. /\ q \in Seq(StepNames) /\ Len(q) = Len(p) - 1
      /\ \A i \in 1..Len(q) : q[i] = p[i + 1]
  BY <1>1
<1>3. /\ DOMAIN p = 1..Len(p) /\ DOMAIN q = 1..Len(q)
      /\ Head(p) = p[1] /\ (q # << >> => Len(q) > 0 /\ Head(q) = q[1])
  BY <1>1, <1>2
<1> HIDE DEF q
<1>4. Good(q)
  <2>1. \A i, j \in 1..Len(q) : i < j => ~Bars(q[i], q[j])
    <3> SUFFICES ASSUME NEW i \in 1..Len(q), NEW j \in 1..Len(q), i < j
                 PROVE  ~Bars(p[i + 1], p[j + 1])
      BY <1>2
    <3>1. i + 1 \in 1..Len(p) /\ j + 1 \in 1..Len(p) /\ i + 1 < j + 1
      BY <1>1, <1>2
    <3>2. QED
      BY <3>1 DEF Good
  <2>2. \A i \in 2..Len(q) : q[i] \in Writers => q[i - 1] \in Loaders
    <3> SUFFICES ASSUME NEW i \in 2..Len(q), p[i + 1] \in Writers
                 PROVE  p[i] \in Loaders
      BY <1>1, <1>2, SMTT(30)
    <3>1. i + 1 \in 2..Len(p) /\ (i + 1) - 1 = i
      BY <1>1, <1>2
    <3>2. QED
      BY <3>1 DEF Good
  <2>3. QED
    BY <1>2, <2>1, <2>2 DEF Good
<1>5. StepsOf(p) = {Head(p)} \cup StepsOf(q)
  <2>1. ASSUME NEW i \in 1..Len(p) PROVE p[i] \in {Head(p)} \cup StepsOf(q)
    <3>1. CASE i = 1
      BY <1>3, <3>1
    <3>2. CASE i # 1
      <4>1. i - 1 \in 1..Len(q) /\ q[i - 1] = p[i]
        BY <1>1, <1>2, <3>2
      <4>2. QED
        BY <1>3, <4>1 DEF StepsOf
    <3>3. QED
      BY <3>1, <3>2
  <2>2. ASSUME NEW i \in 1..Len(q) PROVE q[i] \in StepsOf(p)
    <3>1. i + 1 \in 1..Len(p) /\ q[i] = p[i + 1]
      BY <1>1, <1>2
    <3>2. QED
      BY <1>3, <3>1 DEF StepsOf
  <2>3. Head(p) \in StepsOf(p)
    BY <1>1, <1>3 DEF StepsOf
  <2>4. QED
    BY <1>3, <2>1, <2>2, <2>3 DEF StepsOf
<1>6. \A b \in StepsOf(q) : ~Bars(Head(p), b)
  <2> SUFFICES ASSUME NEW i \in 1..Len(q) PROVE ~Bars(p[1], q[i])
    BY <1>3 DEF StepsOf
  <2>1. 1 \in 1..Len(p) /\ i + 1 \in 1..Len(p) /\ 1 < i + 1 /\ q[i] = p[i + 1]
    BY <1>1, <1>2
  <2>2. QED
    BY <2>1 DEF Good
<1>7. q # << >> /\ Head(q) \in Writers => Head(p) \in Loaders
  <2> SUFFICES ASSUME q # << >>, Head(q) \in Writers PROVE p[1] \in Loaders
    BY <1>3
  <2>1. 2 \in 2..Len(p) /\ q[1] = p[2] /\ 2 - 1 = 1
    BY <1>1, <1>2, <1>3
  <2>2. QED
    BY <1>3, <2>1 DEF Good
<1>8. QED
  BY <1>4, <1>5, <1>6, <1>7 DEF q

\* The steps of two plans, one after the other.
LEMMA JoinSteps ==
    ASSUME NEW s \in Seq(StepNames), NEW p \in Seq(StepNames)
    PROVE  StepsOf(s \o p) = StepsOf(s) \cup StepsOf(p)
<1> DEFINE q == s \o p
<1>1. /\ Len(s) \in Nat /\ Len(p) \in Nat /\ Len(q) = Len(s) + Len(p)
      /\ DOMAIN s = 1..Len(s) /\ DOMAIN p = 1..Len(p) /\ DOMAIN q = 1..Len(q)
      /\ \A i \in 1..Len(s) : q[i] = s[i]
      /\ \A i \in 1..Len(p) : q[Len(s) + i] = p[i]
  OBVIOUS
<1> HIDE DEF q
<1>2. ASSUME NEW i \in 1..Len(q) PROVE q[i] \in StepsOf(s) \cup StepsOf(p)
  <2>1. CASE i \in 1..Len(s)
    BY <1>1, <2>1 DEF StepsOf
  <2>2. CASE i \notin 1..Len(s)
    <3>1. i - Len(s) \in 1..Len(p) /\ Len(s) + (i - Len(s)) = i
      BY <1>1, <2>2
    <3>2. q[i] = p[i - Len(s)]
      BY <1>1, <3>1
    <3>3. QED
      BY <1>1, <3>1, <3>2 DEF StepsOf
  <2>3. QED
    BY <2>1, <2>2
<1>3. ASSUME NEW i \in 1..Len(s) PROVE s[i] \in StepsOf(q)
  <2>1. i \in 1..Len(q) /\ q[i] = s[i]
    BY <1>1
  <2>2. QED
    BY <1>1, <2>1 DEF StepsOf
<1>4. ASSUME NEW i \in 1..Len(p) PROVE p[i] \in StepsOf(q)
  <2>1. Len(s) + i \in 1..Len(q) /\ q[Len(s) + i] = p[i]
    BY <1>1
  <2>2. QED
    BY <1>1, <2>1 DEF StepsOf
<1>5. StepsOf(q) = StepsOf(s) \cup StepsOf(p)
  BY <1>1, <1>2, <1>3, <1>4, ZenonT(40) DEF StepsOf
<1>6. QED
  BY <1>5 DEF q

\* More steps before what is left.
LEMMA JoinIsGood ==
    ASSUME NEW s, NEW p, Good(s), Good(p), s # << >>,
           \A a \in StepsOf(s), b \in StepsOf(p) : ~Bars(a, b),
           p # << >> /\ Head(p) \in Writers => s[Len(s)] \in Loaders
    PROVE  /\ Good(s \o p)
           /\ StepsOf(s \o p) = StepsOf(s) \cup StepsOf(p)
           /\ s \o p # << >> /\ Head(s \o p) = Head(s)
<1> DEFINE q == s \o p
<1>1. /\ s \in Seq(StepNames) /\ p \in Seq(StepNames)
      /\ Len(s) \in Nat /\ Len(s) > 0 /\ Len(p) \in Nat
      /\ DOMAIN s = 1..Len(s) /\ DOMAIN p = 1..Len(p)
  BY DEF Good
<1>2. /\ q \in Seq(StepNames) /\ Len(q) = Len(s) + Len(p)
      /\ \A i \in 1..Len(s) : q[i] = s[i]
      /\ \A i \in 1..Len(p) : q[Len(s) + i] = p[i]
      /\ DOMAIN q = 1..Len(q)
  BY <1>1
<1>3. q # << >> /\ Head(q) = q[1] /\ Head(s) = s[1] /\ q[1] = s[1]
  BY <1>1, <1>2
<1>4. p # << >> => Len(p) > 0 /\ Head(p) = p[1]
  BY <1>1
<1> HIDE DEF q
<1>5. \A i, j \in 1..Len(q) : i < j => ~Bars(q[i], q[j])
  <2> SUFFICES ASSUME NEW i \in 1..Len(q), NEW j \in 1..Len(q), i < j
               PROVE  ~Bars(q[i], q[j])
    OBVIOUS
  <2>1. CASE j \in 1..Len(s)
    <3>1. i \in 1..Len(s)
      BY <1>1, <2>1
    <3>2. QED
      BY <1>2, <2>1, <3>1 DEF Good
  <2>2. CASE i \notin 1..Len(s)
    <3>1. /\ i - Len(s) \in 1..Len(p) /\ j - Len(s) \in 1..Len(p)
          /\ i - Len(s) < j - Len(s)
          /\ Len(s) + (i - Len(s)) = i /\ Len(s) + (j - Len(s)) = j
      BY <1>1, <1>2, <2>2
    <3>2. q[i] = p[i - Len(s)] /\ q[j] = p[j - Len(s)]
      BY <1>2, <3>1
    <3>3. QED
      BY <3>1, <3>2 DEF Good
  <2>3. CASE i \in 1..Len(s) /\ j \notin 1..Len(s)
    <3>1. j - Len(s) \in 1..Len(p) /\ Len(s) + (j - Len(s)) = j
      BY <1>1, <1>2, <2>3
    <3>2. q[i] \in StepsOf(s) /\ q[j] \in StepsOf(p)
      <4>1. q[i] = s[i] /\ q[j] = p[j - Len(s)]
        BY <1>2, <2>3, <3>1
      <4>2. QED
        BY <1>1, <2>3, <3>1, <4>1 DEF StepsOf
    <3>3. QED
      BY <3>2
  <2>4. QED
    BY <2>1, <2>2, <2>3
<1>6. \A i \in 2..Len(q) : q[i] \in Writers => q[i - 1] \in Loaders
  <2> SUFFICES ASSUME NEW i \in 2..Len(q), q[i] \in Writers
               PROVE  q[i - 1] \in Loaders
    OBVIOUS
  <2>1. CASE i \in 1..Len(s)
    <3>1. i \in 2..Len(s) /\ i - 1 \in 1..Len(s)
      BY <1>1, <2>1
    <3>2. q[i] = s[i] /\ q[i - 1] = s[i - 1]
      BY <1>2, <3>1, <2>1
    <3>3. QED
      BY <3>1, <3>2 DEF Good
  <2>2. CASE i = Len(s) + 1
    <3>1. /\ 1 \in 1..Len(p) /\ p # << >> /\ Len(s) \in 1..Len(s) /\ i - 1 = Len(s)
      BY <1>1, <1>2, <2>2
    <3>2. q[i] = p[1] /\ q[i - 1] = s[Len(s)]
      BY <1>2, <2>2, <3>1
    <3>3. QED
      BY <1>4, <3>1, <3>2
  <2>3. CASE i > Len(s) + 1
    <3>1. /\ i - Len(s) \in 2..Len(p) /\ (i - Len(s)) - 1 \in 1..Len(p)
          /\ i - Len(s) \in 1..Len(p)
          /\ Len(s) + (i - Len(s)) = i /\ Len(s) + ((i - Len(s)) - 1) = i - 1
      BY <1>1, <1>2, <2>3
    <3>2. q[i] = p[i - Len(s)] /\ q[i - 1] = p[(i - Len(s)) - 1]
      BY <1>2, <3>1
    <3>3. QED
      BY <3>1, <3>2 DEF Good
  <2>4. QED
    BY <1>1, <1>2, <2>1, <2>2, <2>3
<1>7. StepsOf(q) = StepsOf(s) \cup StepsOf(p)
  BY <1>1, JoinSteps DEF q
<1>8. QED
  BY <1>2, <1>3, <1>5, <1>6, <1>7 DEF q, Good

\* A plan with its steps, its first one and its last one.
IsPlan(p, S, first, last) ==
  /\ Good(p) /\ StepsOf(p) = S
  /\ p # << >> /\ Head(p) = first /\ p[Len(p)] = last

\* Step b may follow step a at once.
Follows(a, b) == ~Bars(a, b) /\ (b \in Writers => a \in Loaders)

LEMMA EmptyIsGood == Good(<< >>) /\ StepsOf(<< >>) = {}
BY DEF Good, StepsOf

LEMMA OneIsGood ==
    ASSUME NEW a \in StepNames
    PROVE  IsPlan(<<a>>, {a}, a, a)
BY DEF IsPlan, Good, StepsOf

LEMMA TwoIsGood ==
    ASSUME NEW a \in StepNames, NEW b \in StepNames, Follows(a, b)
    PROVE  IsPlan(<<a, b>>, {a, b}, a, b)
BY DEF IsPlan, Good, StepsOf, Follows

LEMMA ThreeIsGood ==
    ASSUME NEW a \in StepNames, NEW b \in StepNames, NEW c \in StepNames,
           Follows(a, b), Follows(b, c), ~Bars(a, c)
    PROVE  IsPlan(<<a, b, c>>, {a, b, c}, a, c)
BY DEF IsPlan, Good, StepsOf, Follows

LEMMA FourIsGood ==
    ASSUME NEW a \in StepNames, NEW b \in StepNames, NEW c \in StepNames,
           NEW d \in StepNames, Follows(a, b), Follows(b, c), Follows(c, d),
           ~Bars(a, c), ~Bars(a, d), ~Bars(b, d)
    PROVE  IsPlan(<<a, b, c, d>>, {a, b, c, d}, a, d)
<1> DEFINE p == <<a, b, c, d>>
<1>1. p \in Seq(StepNames) /\ Len(p) = 4
  OBVIOUS
<1>2. p[1] = a /\ p[2] = b /\ p[3] = c /\ p[4] = d
  OBVIOUS
<1>3. p # << >> /\ Head(p) = p[1] /\ DOMAIN p = 1..4
  OBVIOUS
<1> HIDE DEF p
<1>4. StepsOf(p) = {a, b, c, d}
  BY <1>2, <1>3 DEF StepsOf
<1>5. Good(p)
  BY <1>1, <1>2 DEF Good, Follows
<1>6. QED
  BY <1>1, <1>2, <1>3, <1>4, <1>5 DEF p, IsPlan

LEMMA FiveIsGood ==
    ASSUME NEW a \in StepNames, NEW b \in StepNames, NEW c \in StepNames,
           NEW d \in StepNames, NEW e \in StepNames,
           Follows(a, b), Follows(b, c), Follows(c, d), Follows(d, e),
           ~Bars(a, c), ~Bars(a, d), ~Bars(a, e), ~Bars(b, d), ~Bars(b, e), ~Bars(c, e)
    PROVE  IsPlan(<<a, b, c, d, e>>, {a, b, c, d, e}, a, e)
<1> DEFINE p == <<a, b, c, d, e>>
<1>1. p \in Seq(StepNames) /\ Len(p) = 5
  OBVIOUS
<1>2. p[1] = a /\ p[2] = b /\ p[3] = c /\ p[4] = d /\ p[5] = e
  OBVIOUS
<1>3. p # << >> /\ Head(p) = p[1] /\ DOMAIN p = 1..5
  OBVIOUS
<1> HIDE DEF p
<1>4. StepsOf(p) = {a, b, c, d, e}
  BY <1>2, <1>3 DEF StepsOf
<1>5. Good(p)
  BY <1>1, <1>2 DEF Good, Follows
<1>6. QED
  BY <1>1, <1>2, <1>3, <1>4, <1>5 DEF p, IsPlan

\* The plans that are written down.
LEMMA DeleteIsGood ==
    IsPlan(DeleteSteps,
           {"loadExisting", "dropDocument", "removeFiles", "loadRecord", "markRecord"},
           "loadExisting", "markRecord")
BY FiveIsGood DEF DeleteSteps, Follows, Bars, StepNames, DocSteps, Writers, Loaders,
                  JobSteps, LateSteps

LEMMA UpdateIsGood ==
    IsPlan(UpdateSteps,
           {"loadExisting", "writeFiles", "markDocument", "loadRecord", "markRecord"},
           "loadExisting", "markRecord")
BY FiveIsGood DEF UpdateSteps, Follows, Bars, StepNames, DocSteps, Writers, Loaders,
                  JobSteps, LateSteps

LEMMA PinIsGood ==
    IsPlan(PinSteps, {"loadManifest", "markDocument", "loadRecord", "markRecord"},
           "loadManifest", "markRecord")
BY FourIsGood DEF PinSteps, Follows, Bars, StepNames, DocSteps, Writers, Loaders,
                  JobSteps, LateSteps

LEMMA SaveIsGood ==
    /\ IsPlan(SaveSteps(FALSE), {"writeFiles", "loadManifest", "addDocument"},
              "writeFiles", "addDocument")
    /\ IsPlan(SaveSteps(TRUE),
              {"writeFiles", "loadManifest", "addDocument", "loadRecord", "markRecord"},
              "writeFiles", "markRecord")
<1> DEFINE first == <<"writeFiles", "loadManifest", "addDocument">>
           marks == <<"loadRecord", "markRecord">>
<1>1. IsPlan(first, {"writeFiles", "loadManifest", "addDocument"},
             "writeFiles", "addDocument")
  BY ThreeIsGood DEF Follows, Bars, StepNames, DocSteps, Writers, Loaders, JobSteps, LateSteps
<1>2. IsPlan(marks, {"loadRecord", "markRecord"}, "loadRecord", "markRecord")
  BY TwoIsGood DEF Follows, Bars, StepNames, DocSteps, Writers, Loaders, JobSteps, LateSteps
<1>3. SaveSteps(FALSE) = first \o << >> /\ SaveSteps(TRUE) = first \o marks
  BY DEF SaveSteps
<1> HIDE DEF first, marks
<1>4. first \o << >> = first
  BY <1>1 DEF IsPlan, Good
<1>5. (first \o marks)[Len(first \o marks)] = marks[Len(marks)]
  BY <1>1, <1>2 DEF IsPlan, Good
<1>6. \A a \in StepsOf(first), b \in StepsOf(marks) : ~Bars(a, b)
  BY <1>1, <1>2 DEF IsPlan, Bars, DocSteps, LateSteps
<1>7. Head(marks) \notin Writers
  BY <1>2 DEF IsPlan, Writers
<1>8. /\ Good(first \o marks) /\ Head(first \o marks) = Head(first)
      /\ StepsOf(first \o marks) = StepsOf(first) \cup StepsOf(marks)
      /\ first \o marks # << >>
  BY <1>1, <1>2, <1>6, <1>7, JoinIsGood DEF IsPlan
<1>9. IsPlan(first \o marks,
             {"writeFiles", "loadManifest", "addDocument", "loadRecord", "markRecord"},
             "writeFiles", "markRecord")
  BY <1>1, <1>2, <1>5, <1>8 DEF IsPlan
<1>10. QED
  BY <1>1, <1>3, <1>4, <1>9

LEMMA UploadIsGood ==
    IsPlan(<<"writeFiles", "extract">> \o Tail(SaveSteps(FALSE)),
           {"writeFiles", "extract", "loadManifest", "addDocument"},
           "writeFiles", "addDocument")
<1> DEFINE first == <<"writeFiles", "extract">>
           next == <<"loadManifest", "addDocument">>
<1>1. IsPlan(first, {"writeFiles", "extract"}, "writeFiles", "extract")
  BY TwoIsGood DEF Follows, Bars, StepNames, DocSteps, Writers, Loaders, JobSteps, LateSteps
<1>2. IsPlan(next, {"loadManifest", "addDocument"}, "loadManifest", "addDocument")
  BY TwoIsGood DEF Follows, Bars, StepNames, DocSteps, Writers, Loaders, JobSteps, LateSteps
<1>3. Tail(SaveSteps(FALSE)) = next
  <2> DEFINE save == <<"writeFiles", "loadManifest", "addDocument">>
  <2>1. save \in Seq(StepNames) /\ save \o << >> = save
    BY DEF StepNames, DocSteps
  <2>2. SaveSteps(FALSE) = save
    BY <2>1 DEF SaveSteps
  <2>3. Tail(save) = next
    OBVIOUS
  <2> HIDE DEF save, next
  <2>4. QED
    BY <2>2, <2>3
<1> HIDE DEF first, next
<1>4. (first \o next)[Len(first \o next)] = next[Len(next)]
  BY <1>1, <1>2 DEF IsPlan, Good
<1>5. \A a \in StepsOf(first), b \in StepsOf(next) : ~Bars(a, b)
  BY <1>1, <1>2 DEF IsPlan, Bars, DocSteps, LateSteps
<1>6. Head(next) \notin Writers
  BY <1>2 DEF IsPlan, Writers
<1>7. /\ Good(first \o next) /\ Head(first \o next) = Head(first)
      /\ StepsOf(first \o next) = StepsOf(first) \cup StepsOf(next)
      /\ first \o next # << >>
  BY <1>1, <1>2, <1>5, <1>6, JoinIsGood DEF IsPlan
<1>8. IsPlan(first \o next, {"writeFiles", "extract", "loadManifest", "addDocument"},
             "writeFiles", "addDocument")
  BY <1>1, <1>2, <1>4, <1>7 DEF IsPlan
<1>9. QED
  BY <1>3, <1>8 DEF first

\* The plan of saveProject; the last steps take the block of a low confidence away.
LEMMA PatchIsGood ==
    ASSUME NEW edit
    PROVE  LET p == <<"readInfo", "writeInfo">>
                      \o IF edit = "confirmed" THEN <<"loadRecord", "writeReasons">> ELSE << >>
           IN  /\ Good(p) /\ p # << >> /\ Head(p) = "readInfo"
               /\ StepsOf(p) \subseteq {"readInfo", "writeInfo", "loadRecord", "writeReasons"}
<1> DEFINE first == <<"readInfo", "writeInfo">>
           next == IF edit = "confirmed" THEN <<"loadRecord", "writeReasons">> ELSE << >>
<1>1. IsPlan(first, {"readInfo", "writeInfo"}, "readInfo", "writeInfo")
  BY TwoIsGood DEF Follows, Bars, StepNames, DocSteps, Writers, Loaders, JobSteps, LateSteps
<1>2. /\ Good(next) /\ StepsOf(next) \subseteq {"loadRecord", "writeReasons"}
      /\ next # << >> => Head(next) \notin Writers
  <2>1. CASE edit = "confirmed"
    <3>1. IsPlan(<<"loadRecord", "writeReasons">>, {"loadRecord", "writeReasons"},
                 "loadRecord", "writeReasons")
      BY TwoIsGood DEF Follows, Bars, StepNames, DocSteps, Writers, Loaders, JobSteps,
                       LateSteps
    <3>2. QED
      BY <2>1, <3>1 DEF IsPlan, Writers
  <2>2. CASE edit # "confirmed"
    BY <2>2, EmptyIsGood
  <2>3. QED
    BY <2>1, <2>2
<1> HIDE DEF first, next
<1>3. \A a \in StepsOf(first), b \in StepsOf(next) : ~Bars(a, b)
  BY <1>1, <1>2 DEF IsPlan, Bars, DocSteps, LateSteps
<1>4. /\ Good(first \o next) /\ Head(first \o next) = Head(first)
      /\ StepsOf(first \o next) = StepsOf(first) \cup StepsOf(next)
      /\ first \o next # << >>
  BY <1>1, <1>2, <1>3, JoinIsGood DEF IsPlan
<1>5. QED
  BY <1>1, <1>2, <1>4 DEF IsPlan, first, next

-----------------------------------------------------------------------------
(***************************************************************************)
(* Lemmas about what an actor has still to do.                             *)
(***************************************************************************)
LEMMA BlankIsOK == RecordOK(Blank)
BY DEF RecordOK, Blank, Fit

\* Who does nothing relies on nothing.
LEMMA IdleIsOK ==
    ASSUME NEW o, NEW r, NEW m, NEW f
    PROVE  TaskOK(o, Idle, r, m, f)
<1>1. Idle.plan = << >>
  BY DEF Idle
<1>2. StepsOf(Idle.plan) = {} /\ Good(Idle.plan)
  BY <1>1, EmptyIsGood
<1>3. Idle.own = Blank /\ Idle.answers = << >> /\ Idle.failed = << >>
  BY DEF Idle
<1>4. Fit(Idle.list, Idle.answers)
  BY <1>3 DEF Fit
<1>5. OpOK(o, Idle)
  <2>1. {"plan", "scope", "doc", "pin", "title", "man", "rec", "own", "answers", "index",
         "text", "edit", "list", "drop", "failed"} \subseteq DOMAIN Idle
    BY DEF Idle
  <2>2. Idle.scope \in Scopes
    BY DEF Idle, Scopes
  <2>3. Idle.failed \in Fallbacks
    BY <1>3 DEF Fallbacks
  <2>4. JobOK(StepsOf(Idle.plan), Idle.own)
    BY <1>2 DEF JobOK
  <2>5. QED
    BY <1>2, <1>3, <1>4, <2>1, <2>2, <2>3, <2>4, BlankIsOK DEF OpOK
<1>6. QED
  BY <1>1, <1>2, <1>5 DEF TaskOK, DocFacts, RecordFacts

\* A plan that rests needs nothing of the disk.
LEMMA RestingIsFree ==
    ASSUME NEW o, NEW t, OpOK(o, t), t.plan # << >> => Head(t.plan) = "await",
           NEW r, NEW m, NEW f
    PROVE  TaskOK(o, t, r, m, f)
<1>1. StepsOf(t.plan) \cap (DocSteps \cup {"writeAnswer"}) = {}
  <2>1. CASE t.plan = << >>
    BY <2>1, EmptyIsGood
  <2>2. CASE t.plan # << >>
    <3>1. /\ StepsOf(t.plan) = {"await"} \cup StepsOf(Tail(t.plan))
          /\ \A b \in StepsOf(Tail(t.plan)) : ~Bars("await", b)
      BY <2>2, TailIsGood DEF OpOK
    <3>2. QED
      BY <3>1 DEF Bars, DocSteps
  <2>3. QED
    BY <2>1, <2>2
<1>2. t.plan # << >> => Head(t.plan) \notin Writers
  BY DEF Writers
<1>3. QED
  BY <1>1, <1>2 DEF TaskOK, DocFacts, RecordFacts, DocSteps

\* A step of one actor while the others rest.
LEMMA StepKeeps ==
    ASSUME StoreInv, NEW o \in Actors, \A p \in Actors \ {o} : Resting(p),
           NEW t, Put(o, t), DiskOK(record', manifest', files'),
           t.plan # << >> => TaskOK(o, t, record', manifest', files')
    PROVE  StoreInv'
<1>1. DOMAIN op' = Actors
  BY DEF Put, StoreInv
<1>2. ASSUME NEW p \in Actors PROVE TaskOK(p, op'[p], record', manifest', files')
  <2>1. CASE p = o
    <3>1. op'[o] = IF t.plan = << >> THEN Idle ELSE t
      BY DEF Put, StoreInv
    <3>2. QED
      BY <2>1, <3>1, IdleIsOK
  <2>2. CASE p # o
    <3>1. op'[p] = op[p]
      BY <2>2 DEF Put, StoreInv
    <3>2. OpOK(p, op[p])
      BY DEF StoreInv, TaskOK
    <3>3. QED
      BY <2>2, <3>1, <3>2, RestingIsFree DEF Resting
  <2>3. QED
    BY <2>1, <2>2
<1>3. QED
  BY <1>1, <1>2 DEF StoreInv

\* What is known of an actor that takes a step.
LEMMA Moving ==
    ASSUME StoreInv, ~LateRequests, NEW o \in Actors, NEW step, At(o, step)
    PROVE  /\ op[o].plan # << >> /\ Head(op[o].plan) = step
           /\ \A p \in Actors \ {o} : Resting(p)
           /\ OpOK(o, op[o]) /\ DocFacts(StepsOf(op[o].plan), op[o], manifest, files)
           /\ RecordFacts(op[o], record) /\ DiskOK(record, manifest, files)
           /\ Good(Rest(o)) /\ StepsOf(op[o].plan) = {step} \cup StepsOf(Rest(o))
           /\ \A b \in StepsOf(Rest(o)) : ~Bars(step, b)
           /\ Rest(o) # << >> /\ Head(Rest(o)) \in Writers => step \in Loaders
<1>1. op[o].plan # << >> /\ Head(op[o].plan) = step /\ \A p \in Actors \ {o} : Resting(p)
  BY DEF At
<1>2. TaskOK(o, op[o], record, manifest, files) /\ DiskOK(record, manifest, files)
  BY DEF StoreInv
<1>3. Good(op[o].plan)
  BY <1>2 DEF TaskOK, OpOK
<1>4. QED
  BY <1>1, <1>2, <1>3, TailIsGood DEF TaskOK, Rest

\* An actor that goes on with what is left, with other copies in its hands.
LEMMA RestIsOK ==
    ASSUME NEW o, NEW t, OpOK(o, t), t.plan # << >>, NEW n,
           DOMAIN t \subseteq DOMAIN n, n.plan = Tail(t.plan), n.scope = t.scope,
           n.failed = t.failed, n.list = t.list, n.answers = t.answers, RecordOK(n.own),
           JobOK(StepsOf(n.plan), n.own)
    PROVE  OpOK(o, n)
<1>1. Good(n.plan) /\ StepsOf(n.plan) \subseteq StepsOf(t.plan)
  BY TailIsGood DEF OpOK
<1>2. QED
  BY <1>1 DEF OpOK

LEMMA LessIsOK ==
    ASSUME NEW R, NEW S, S \subseteq R, NEW own, JobOK(R, own)
    PROVE  JobOK(S, own)
BY DEF JobOK

\* A step that goes on with the same copies: what is left must have found what
\* it needs on the disk as the step leaves it.
LEMMA GoesOnKeeps ==
    ASSUME StoreInv, ~LateRequests, NEW o \in Actors, NEW step, At(o, step),
           step \notin Loaders, GoesOn(o), DiskOK(record', manifest', files'),
           DocFacts(StepsOf(Rest(o)), op[o], manifest', files'),
           "writeAnswer" \in StepsOf(Rest(o)) /\ record' # NoFile
             => record # NoFile /\ record'.questions = record.questions
    PROVE  StoreInv'
<1> DEFINE t == op[o]
           n == [t EXCEPT !.plan = Rest(o)]
<1> USE DEF Rest
<1>1. /\ t.plan # << >> /\ \A p \in Actors \ {o} : Resting(p)
      /\ OpOK(o, t) /\ RecordFacts(t, record) 
      /\ StepsOf(t.plan) = {step} \cup StepsOf(Rest(o))
      /\ Rest(o) # << >> => Head(Rest(o)) \notin Writers
  BY Moving
<1>2. "plan" \in DOMAIN t
  BY <1>1 DEF OpOK
<1>3. /\ DOMAIN n = DOMAIN t /\ n.plan = Tail(t.plan) /\ n.scope = t.scope
      /\ n.failed = t.failed /\ n.list = t.list /\ n.answers = t.answers
      /\ n.own = t.own /\ n.doc = t.doc /\ n.man = t.man /\ n.index = t.index
      /\ n.text = t.text
  BY <1>2
<1>4. Put(o, n)
  BY DEF GoesOn
<1> HIDE DEF n
<1>5. RecordOK(n.own) /\ JobOK(StepsOf(n.plan), n.own)
  BY <1>1, <1>3, LessIsOK DEF OpOK
<1>6. OpOK(o, n)
  BY <1>1, <1>3, <1>5, RestIsOK
<1>7. DocFacts(StepsOf(n.plan), n, manifest', files')
  BY <1>3 DEF DocFacts
<1>8. RecordFacts(n, record')
  BY <1>1, <1>3 DEF RecordFacts
<1>9. QED
  BY <1>1, <1>4, <1>6, <1>7, <1>8, StepKeeps DEF TaskOK

\* A step that fails.
LEMMA ThrowsKeeps ==
    ASSUME StoreInv, ~LateRequests, NEW o \in Actors, NEW step, At(o, step), Throws(o),
           DiskOK(record', manifest', files')
    PROVE  StoreInv'
<1> DEFINE t == op[o]
           n == [t EXCEPT !.plan = t.failed, !.failed = << >>]
<1>1. OpOK(o, t) /\ \A p \in Actors \ {o} : Resting(p)
  BY Moving
<1>2. {"plan", "failed"} \subseteq DOMAIN t
  BY <1>1 DEF OpOK
<1>3. /\ DOMAIN n = DOMAIN t /\ n.plan = t.failed /\ n.failed = << >> /\ n.scope = t.scope
      /\ n.list = t.list /\ n.answers = t.answers /\ n.own = t.own
  BY <1>2
<1>4. Put(o, n)
  BY DEF Throws
<1> HIDE DEF n
<1>5. ASSUME n.plan # << >> PROVE TaskOK(o, n, record', manifest', files')
  <2>1. /\ Good(n.plan) /\ StepsOf(n.plan) \subseteq {"loadRecord", "writeError", "writeStale"}
        /\ Head(n.plan) \notin Writers
    <3>1. CASE n.plan = <<"loadRecord", "writeError">>
      <4>1. IsPlan(<<"loadRecord", "writeError">>, {"loadRecord", "writeError"},
                   "loadRecord", "writeError")
        BY TwoIsGood DEF Follows, Bars, StepNames, DocSteps, Writers, Loaders, JobSteps,
                         LateSteps
      <4>2. QED
        BY <3>1, <4>1 DEF IsPlan, Writers
    <3>2. CASE n.plan = <<"writeStale">>
      <4>1. IsPlan(<<"writeStale">>, {"writeStale"}, "writeStale", "writeStale")
        BY OneIsGood DEF StepNames, JobSteps
      <4>2. QED
        BY <3>2, <4>1 DEF IsPlan, Writers
    <3>3. QED
      BY <1>1, <1>3, <1>5, <3>1, <3>2 DEF OpOK, Fallbacks
  <2>2. JobOK(StepsOf(n.plan), n.own)
    BY <2>1 DEF JobOK, LateSteps
  <2>3. StepsOf(n.plan) \cap (DocSteps \cup {"writeAnswer"}) = {} /\ o \notin Requests
    BY <1>1, <1>3, <1>5, <2>1 DEF OpOK, DocSteps
  <2>4. OpOK(o, n)
    BY <1>1, <1>3, <2>1, <2>2, <2>3 DEF OpOK, Fallbacks
  <2>5. QED
    BY <2>1, <2>3, <2>4 DEF TaskOK, DocFacts, RecordFacts, DocSteps
<1>6. QED
  BY <1>1, <1>4, <1>5, StepKeeps

\* A step after which nothing is left that needs a document or an answer.
LEMMA PlanKeeps ==
    ASSUME StoreInv, ~LateRequests, NEW o \in Actors, NEW step, At(o, step),
           NEW n, Put(o, n), OpOK(o, n),
           StepsOf(n.plan) \cap (DocSteps \cup {"writeAnswer"}) = {},
           Head(n.plan) \notin Writers,
           DiskOK(record', manifest', files')
    PROVE  StoreInv'
<1>1. \A p \in Actors \ {o} : Resting(p)
  BY Moving
<1>2. TaskOK(o, n, record', manifest', files')
  BY DEF TaskOK, DocFacts, RecordFacts, DocSteps
<1>3. QED
  BY <1>1, <1>2, StepKeeps

\* A job that ends.
LEMMA EndsKeeps ==
    ASSUME StoreInv, ~LateRequests, NEW o \in Actors, NEW step, At(o, step),
           Ends(o), DiskOK(record', manifest', files')
    PROVE  StoreInv'
<1>1. \A p \in Actors \ {o} : Resting(p)
  BY Moving
<1>2. Put(o, Idle) /\ Idle.plan = << >>
  BY DEF Ends, Idle
<1>3. QED
  BY <1>1, <1>2, StepKeeps

-----------------------------------------------------------------------------
(***************************************************************************)
(* The steps of the storage.                                               *)
(***************************************************************************)
LEMMA WriteFilesKeeps ==
    ASSUME StoreInv, ~LateRequests, NEW o \in Actors, WriteFiles(o)
    PROVE  StoreInv'
<1> DEFINE t == op[o]
<1>1. /\ At(o, "writeFiles") /\ GoesOn(o)
      /\ record' = record /\ manifest' = manifest
      /\ files' = [files EXCEPT ![t.scope] = @ \cup {t.doc}]
  BY DEF WriteFiles
<1>2. /\ DiskOK(record, manifest, files) /\ OpOK(o, t)
      /\ DocFacts(StepsOf(t.plan), t, manifest, files) /\ RecordFacts(t, record)
      /\ StepsOf(t.plan) = {"writeFiles"} \cup StepsOf(Rest(o))
  BY <1>1, Moving
<1>3. /\ t.scope \in Scopes /\ DOMAIN files' = Scopes /\ t.doc \in files'[t.scope]
      /\ \A s \in Scopes : files[s] \subseteq files'[s]
  BY <1>1, <1>2 DEF DiskOK, OpOK
<1>4. DiskOK(record', manifest', files')
  BY <1>1, <1>2, <1>3 DEF DiskOK
<1>5. DocFacts(StepsOf(Rest(o)), t, manifest', files')
  BY <1>1, <1>2, <1>3 DEF DocFacts
<1>6. QED
  BY <1>1, <1>2, <1>4, <1>5, GoesOnKeeps DEF RecordFacts, Loaders

LEMMA ExtractKeeps ==
    ASSUME StoreInv, ~LateRequests, NEW o \in Actors, Extract(o)
    PROVE  StoreInv'
<1> DEFINE t == op[o]
<1>1. At(o, "extract") /\ record' = record /\ manifest' = manifest
  BY DEF Extract
<1>2. /\ DiskOK(record, manifest, files) /\ OpOK(o, t)
      /\ DocFacts(StepsOf(t.plan), t, manifest, files) /\ RecordFacts(t, record)
      /\ StepsOf(t.plan) = {"extract"} \cup StepsOf(Rest(o))
  BY <1>1, Moving
<1>3. CASE GoesOn(o) /\ UNCHANGED files
  <2>1. DocFacts(StepsOf(Rest(o)), t, manifest', files')
    BY <1>1, <1>2, <1>3 DEF DocFacts
  <2>2. QED
    BY <1>1, <1>2, <1>3, <2>1, GoesOnKeeps DEF Loaders
<1>4. CASE Throws(o) /\ files' = [files EXCEPT ![t.scope] = @ \ {t.doc}]
  <2>1. t.doc \notin DOMAIN manifest[t.scope]
    BY <1>2 DEF DocFacts
  <2>2. DOMAIN files' = Scopes
    BY <1>2, <1>4 DEF DiskOK
  <2>3. ASSUME NEW s \in Scopes PROVE DOMAIN manifest[s] \subseteq files'[s]
    BY <1>2, <1>4, <2>1 DEF DiskOK
  <2>4. DiskOK(record', manifest', files')
    BY <1>1, <1>2, <2>2, <2>3 DEF DiskOK
  <2>5. QED
    BY <1>1, <1>4, <2>4, ThrowsKeeps
<1>5. QED
  BY <1>3, <1>4 DEF Extract

\* A copy of the manifest is taken: it names files that exist.
LEMMA ReadsManifest ==
    ASSUME StoreInv, ~LateRequests, NEW o \in Actors, NEW step, At(o, step),
           step \in {"loadManifest", "loadExisting"},
           Put(o, [op[o] EXCEPT !.plan = Rest(o), !.man = manifest[op[o].scope]]),
           UNCHANGED <<record, manifest, files>>
    PROVE  StoreInv'
<1> DEFINE t == op[o]
           n == [t EXCEPT !.plan = Rest(o), !.man = manifest[op[o].scope]]
<1>1. /\ DiskOK(record, manifest, files) /\ OpOK(o, t) /\ t.plan # << >>
      /\ DocFacts(StepsOf(t.plan), t, manifest, files) /\ RecordFacts(t, record)
      /\ StepsOf(t.plan) = {step} \cup StepsOf(Rest(o))
      /\ Rest(o) # << >> => Head(Rest(o)) \notin Writers
      /\ \A p \in Actors \ {o} : Resting(p)
  BY Moving DEF Loaders
<1>2. {"plan", "man"} \subseteq DOMAIN t
  BY <1>1 DEF OpOK
<1>3. /\ DOMAIN n = DOMAIN t /\ n.plan = Rest(o) /\ n.scope = t.scope
      /\ n.failed = t.failed /\ n.list = t.list /\ n.answers = t.answers
      /\ n.own = t.own /\ n.doc = t.doc /\ n.man = manifest[t.scope]
      /\ n.index = t.index /\ n.text = t.text
  BY <1>2
<1> HIDE DEF n
<1>4. RecordOK(n.own) /\ JobOK(StepsOf(n.plan), n.own)
  BY <1>1, <1>3, LessIsOK DEF OpOK
<1>5. OpOK(o, n)
  BY <1>1, <1>3, <1>4, RestIsOK DEF Rest
<1>6. DOMAIN n.man \subseteq files[n.scope]
  BY <1>1, <1>3 DEF DiskOK, OpOK
<1>7. DocFacts(StepsOf(n.plan), n, manifest, files)
  BY <1>1, <1>3, <1>6 DEF DocFacts
<1>8. RecordFacts(n, record)
  BY <1>1, <1>3 DEF RecordFacts
<1>9. QED
  BY <1>1, <1>5, <1>7, <1>8, StepKeeps DEF TaskOK, n

LEMMA LoadManifestKeeps ==
    ASSUME StoreInv, ~LateRequests, NEW o \in Actors, LoadManifest(o)
    PROVE  StoreInv'
BY ReadsManifest DEF LoadManifest

LEMMA LoadExistingKeeps ==
    ASSUME StoreInv, ~LateRequests, NEW o \in Actors, LoadExisting(o)
    PROVE  StoreInv'
<1>1. At(o, "loadExisting") /\ UNCHANGED <<record, manifest, files>>
  BY DEF LoadExisting
<1>2. DiskOK(record, manifest, files)
  BY DEF StoreInv
<1>3. CASE op[o].doc \in DOMAIN manifest[op[o].scope]
  BY <1>1, <1>3, ReadsManifest DEF LoadExisting
<1>4. CASE op[o].doc \notin DOMAIN manifest[op[o].scope]
  <2>1. Throws(o)
    BY <1>4 DEF LoadExisting
  <2>2. QED
    BY <1>1, <1>2, <2>1, ThrowsKeeps
<1>5. QED
  BY <1>3, <1>4

\* The steps that write a manifest back.
LEMMA ManifestOK ==
    ASSUME DiskOK(record, manifest, files), NEW s \in Scopes, NEW m,
           DOMAIN m \subseteq files[s]
    PROVE  /\ DiskOK(record, [manifest EXCEPT ![s] = m], files)
           /\ [manifest EXCEPT ![s] = m][s] = m
BY DEF DiskOK

LEMMA AddDocumentKeeps ==
    ASSUME StoreInv, ~LateRequests, NEW o \in Actors, AddDocument(o)
    PROVE  StoreInv'
<1> DEFINE t == op[o]
           m == [d \in DOMAIN t.man \cup {t.doc} |->
                   IF d = t.doc THEN Entry(o) ELSE t.man[d]]
<1>1. /\ At(o, "addDocument") /\ GoesOn(o) /\ record' = record /\ files' = files
      /\ manifest' = [manifest EXCEPT ![t.scope] = m]
  BY DEF AddDocument, Saved
<1>2. /\ DiskOK(record, manifest, files) /\ OpOK(o, t)
      /\ DocFacts(StepsOf(t.plan), t, manifest, files) /\ RecordFacts(t, record)
      /\ StepsOf(t.plan) = {"addDocument"} \cup StepsOf(Rest(o))
      /\ \A b \in StepsOf(Rest(o)) : ~Bars("addDocument", b)
  BY <1>1, Moving
<1>3. StepsOf(Rest(o)) \cap DocSteps = {}
  BY <1>2 DEF Bars
<1>4. t.scope \in Scopes /\ t.doc \in files[t.scope] /\ DOMAIN t.man \subseteq files[t.scope]
  BY <1>2, <1>3 DEF DocFacts, OpOK, DocSteps
<1>5. DOMAIN m \subseteq files[t.scope]
  BY <1>4
<1> HIDE DEF m
<1>6. DiskOK(record', manifest', files')
  BY <1>1, <1>2, <1>4, <1>5, ManifestOK
<1>7. DocFacts(StepsOf(Rest(o)), t, manifest', files')
  BY <1>3 DEF DocFacts, DocSteps
<1>8. QED
  BY <1>1, <1>2, <1>6, <1>7, GoesOnKeeps DEF Loaders

LEMMA MarkDocumentKeeps ==
    ASSUME StoreInv, ~LateRequests, NEW o \in Actors, MarkDocument(o)
    PROVE  StoreInv'
<1> DEFINE t == op[o]
           m == [d \in DOMAIN t.man |->
                   IF d = t.doc THEN [t.man[d] EXCEPT !.pin = t.pin] ELSE t.man[d]]
<1>1. /\ At(o, "markDocument") /\ GoesOn(o) /\ record' = record /\ files' = files
      /\ manifest' = [manifest EXCEPT ![t.scope] = m]
  BY DEF MarkDocument, Saved
<1>2. /\ DiskOK(record, manifest, files) /\ OpOK(o, t)
      /\ DocFacts(StepsOf(t.plan), t, manifest, files) /\ RecordFacts(t, record)
      /\ StepsOf(t.plan) = {"markDocument"} \cup StepsOf(Rest(o))
      /\ \A b \in StepsOf(Rest(o)) : ~Bars("markDocument", b)
  BY <1>1, Moving
<1>3. StepsOf(Rest(o)) \cap DocSteps = {}
  BY <1>2 DEF Bars
<1>4. t.scope \in Scopes /\ DOMAIN t.man \subseteq files[t.scope]
  BY <1>2, <1>3 DEF DocFacts, OpOK, DocSteps
<1>5. DOMAIN m \subseteq files[t.scope]
  BY <1>4
<1> HIDE DEF m
<1>6. DiskOK(record', manifest', files')
  BY <1>1, <1>2, <1>4, <1>5, ManifestOK
<1>7. DocFacts(StepsOf(Rest(o)), t, manifest', files')
  BY <1>3 DEF DocFacts, DocSteps
<1>8. QED
  BY <1>1, <1>2, <1>6, <1>7, GoesOnKeeps DEF Loaders

LEMMA DropDocumentKeeps ==
    ASSUME StoreInv, ~LateRequests, NEW o \in Actors, DropDocument(o)
    PROVE  StoreInv'
<1> DEFINE t == op[o]
           m == [d \in DOMAIN t.man \ {t.doc} |-> t.man[d]]
<1>1. /\ At(o, "dropDocument") /\ GoesOn(o) /\ record' = record /\ files' = files
      /\ manifest' = [manifest EXCEPT ![t.scope] = m]
  BY DEF DropDocument, Saved
<1>2. /\ DiskOK(record, manifest, files) /\ OpOK(o, t)
      /\ DocFacts(StepsOf(t.plan), t, manifest, files) /\ RecordFacts(t, record)
      /\ StepsOf(t.plan) = {"dropDocument"} \cup StepsOf(Rest(o))
      /\ \A b \in StepsOf(Rest(o)) : ~Bars("dropDocument", b)
  BY <1>1, Moving
<1>3. StepsOf(Rest(o)) \cap DocSteps \subseteq {"removeFiles"}
  BY <1>2 DEF Bars
<1>4. t.scope \in Scopes /\ DOMAIN t.man \subseteq files[t.scope]
  BY <1>2, <1>3 DEF DocFacts, OpOK, DocSteps
<1>5. DOMAIN m \subseteq files[t.scope] /\ t.doc \notin DOMAIN m
  BY <1>4
<1> HIDE DEF m
<1>6. DiskOK(record', manifest', files') /\ t.doc \notin DOMAIN manifest'[t.scope]
  BY <1>1, <1>2, <1>4, <1>5, ManifestOK
<1>7. DocFacts(StepsOf(Rest(o)), t, manifest', files')
  BY <1>3, <1>6 DEF DocFacts, DocSteps
<1>8. QED
  BY <1>1, <1>2, <1>6, <1>7, GoesOnKeeps DEF Loaders

LEMMA RemoveFilesKeeps ==
    ASSUME StoreInv, ~LateRequests, NEW o \in Actors, RemoveFiles(o)
    PROVE  StoreInv'
<1> DEFINE t == op[o]
<1>1. /\ At(o, "removeFiles") /\ GoesOn(o) /\ record' = record /\ manifest' = manifest
      /\ files' = [files EXCEPT ![t.scope] = @ \ {t.doc}]
  BY DEF RemoveFiles
<1>2. /\ DiskOK(record, manifest, files) /\ OpOK(o, t)
      /\ DocFacts(StepsOf(t.plan), t, manifest, files) /\ RecordFacts(t, record)
      /\ StepsOf(t.plan) = {"removeFiles"} \cup StepsOf(Rest(o))
      /\ \A b \in StepsOf(Rest(o)) : ~Bars("removeFiles", b)
  BY <1>1, Moving
<1>3. StepsOf(Rest(o)) \cap DocSteps = {}
  BY <1>2 DEF Bars
<1>4. t.doc \notin DOMAIN manifest[t.scope]
  BY <1>2, <1>3 DEF DocFacts, DocSteps
<1>5. DOMAIN files' = Scopes
  BY <1>1, <1>2 DEF DiskOK
<1>6. ASSUME NEW s \in Scopes PROVE DOMAIN manifest[s] \subseteq files'[s]
  BY <1>1, <1>2, <1>4 DEF DiskOK
<1>7. DiskOK(record', manifest', files')
  BY <1>1, <1>2, <1>5, <1>6 DEF DiskOK
<1>8. DocFacts(StepsOf(Rest(o)), t, manifest', files')
  BY <1>3 DEF DocFacts, DocSteps
<1>9. QED
  BY <1>1, <1>2, <1>7, <1>8, GoesOnKeeps DEF Loaders

LEMMA RemoveProjectKeeps ==
    ASSUME StoreInv, ~LateRequests, NEW o \in Actors, RemoveProject(o)
    PROVE  StoreInv'
<1> DEFINE t == op[o]
<1>1. /\ At(o, "removeProject") /\ GoesOn(o) /\ record' = NoFile
      /\ manifest' = [manifest EXCEPT !["project"] = << >>]
      /\ files' = [files EXCEPT !["project"] = {}]
  BY DEF RemoveProject
<1>2. /\ DiskOK(record, manifest, files) /\ OpOK(o, t)
      /\ \A b \in StepsOf(Rest(o)) : ~Bars("removeProject", b)
  BY <1>1, Moving
<1>3. StepsOf(Rest(o)) \cap DocSteps = {}
  BY <1>2 DEF Bars
<1>4. ASSUME NEW s \in Scopes PROVE DOMAIN manifest'[s] \subseteq files'[s]
  BY <1>1, <1>2 DEF DiskOK
<1>5. DOMAIN manifest' = Scopes /\ DOMAIN files' = Scopes
  BY <1>1, <1>2 DEF DiskOK
<1>6. DiskOK(record', manifest', files')
  BY <1>1, <1>4, <1>5 DEF DiskOK
<1>7. DocFacts(StepsOf(Rest(o)), t, manifest', files')
  BY <1>3 DEF DocFacts, DocSteps
<1>8. QED
  BY <1>1, <1>6, <1>7, GoesOnKeeps DEF Loaders

LEMMA MakeManifestKeeps ==
    ASSUME StoreInv, ~LateRequests, NEW o \in Actors, MakeManifest(o)
    PROVE  StoreInv'
<1> DEFINE t == op[o]
<1>1. /\ At(o, "makeManifest") /\ GoesOn(o) /\ record' = record /\ files' = files
      /\ manifest' = [manifest EXCEPT !["project"] = << >>]
  BY DEF MakeManifest
<1>2. /\ DiskOK(record, manifest, files) /\ OpOK(o, t)
      /\ DocFacts(StepsOf(t.plan), t, manifest, files)
      /\ StepsOf(t.plan) = {"makeManifest"} \cup StepsOf(Rest(o))
  BY <1>1, Moving
<1>3. ASSUME NEW s \in Scopes PROVE DOMAIN manifest'[s] \subseteq DOMAIN manifest[s]
  BY <1>1, <1>2 DEF DiskOK
<1>4. DOMAIN manifest' = Scopes
  BY <1>1, <1>2 DEF DiskOK
<1>5. DiskOK(record', manifest', files')
  BY <1>1, <1>2, <1>3, <1>4 DEF DiskOK
<1>6. DocFacts(StepsOf(Rest(o)), t, manifest', files')
  BY <1>1, <1>2, <1>3 DEF DocFacts, OpOK
<1>7. QED
  BY <1>1, <1>2, <1>5, <1>6, GoesOnKeeps DEF Loaders

-----------------------------------------------------------------------------
(***************************************************************************)
(* The steps that read the record or write it.                             *)
(***************************************************************************)
LEMMA FactsStay ==
    ASSUME NEW R, NEW step, NEW t, NEW m, NEW f, DocFacts({step} \cup R, t, m, f),
           step \notin {"writeFiles", "loadManifest", "loadExisting", "dropDocument"}
    PROVE  DocFacts(R, t, m, f)
BY DEF DocFacts

\* A step that writes a sound record and goes on.
LEMMA WritesRecord ==
    ASSUME StoreInv, ~LateRequests, NEW o \in Actors, NEW step, At(o, step),
           step \notin Loaders \cup DocSteps, GoesOn(o), UNCHANGED <<manifest, files>>,
           record' # NoFile => RecordOK(record'),
           "writeAnswer" \in StepsOf(Rest(o)) /\ record' # NoFile
             => record # NoFile /\ record'.questions = record.questions
    PROVE  StoreInv'
<1> DEFINE t == op[o]
<1>1. /\ DiskOK(record, manifest, files)
      /\ DocFacts(StepsOf(t.plan), t, manifest, files)
      /\ StepsOf(t.plan) = {step} \cup StepsOf(Rest(o))
  BY Moving
<1>2. DiskOK(record', manifest', files')
  BY <1>1 DEF DiskOK
<1>3. DocFacts(StepsOf(Rest(o)), t, manifest', files')
  BY <1>1, FactsStay DEF DocSteps
<1>4. QED
  BY <1>2, <1>3, GoesOnKeeps

LEMMA MakeRecordKeeps ==
    ASSUME StoreInv, ~LateRequests, NEW o \in Actors, MakeRecord(o)
    PROVE  StoreInv'
<1>1. /\ At(o, "makeRecord") /\ GoesOn(o) /\ record' = Blank
      /\ UNCHANGED <<manifest, files>>
  BY DEF MakeRecord
<1>2. "writeAnswer" \notin StepsOf(Rest(o))
  BY <1>1, Moving DEF Bars
<1>3. QED
  BY <1>1, <1>2, BlankIsOK, WritesRecord DEF Loaders, DocSteps

\* A step that writes the record back has just read it.
LEMMA WriterReads ==
    ASSUME StoreInv, ~LateRequests, NEW o \in Actors, NEW step \in Writers, At(o, step)
    PROVE  record # NoFile /\ op[o].rec = record /\ RecordOK(record)
<1>1. RecordFacts(op[o], record) /\ op[o].plan # << >> /\ Head(op[o].plan) = step
  BY Moving
<1>2. DiskOK(record, manifest, files)
  BY DEF StoreInv
<1>3. QED
  BY <1>1, <1>2 DEF RecordFacts, DiskOK

LEMMA MarkRecordKeeps ==
    ASSUME StoreInv, ~LateRequests, NEW o \in Actors, MarkRecord(o)
    PROVE  StoreInv'
<1> DEFINE r == op[o].rec
           pins == IF op[o].pin THEN r.pinned \cup {op[o].doc} ELSE r.pinned \ {op[o].doc}
<1>1. /\ At(o, "markRecord") /\ GoesOn(o) /\ UNCHANGED <<manifest, files>>
      /\ record' = [r EXCEPT !.pinned = pins]
  BY DEF MarkRecord
<1>2. record # NoFile /\ r = record /\ RecordOK(record)
  BY <1>1, WriterReads DEF Writers
<1>3. RecordOK(record') /\ record'.questions = record.questions
  BY <1>1, <1>2 DEF RecordOK, Fit
<1>4. QED
  BY <1>1, <1>2, <1>3, WritesRecord DEF Loaders, DocSteps

LEMMA WriteReasonsKeeps ==
    ASSUME StoreInv, ~LateRequests, NEW o \in Actors, WriteReasons(o)
    PROVE  StoreInv'
<1>1. /\ At(o, "writeReasons") /\ GoesOn(o) /\ UNCHANGED <<manifest, files>>
      /\ record' = [op[o].rec EXCEPT !.low = FALSE]
  BY DEF WriteReasons
<1>2. record # NoFile /\ op[o].rec = record /\ RecordOK(record)
  BY <1>1, WriterReads DEF Writers
<1>3. RecordOK(record') /\ record'.questions = record.questions
  BY <1>1, <1>2 DEF RecordOK, Fit
<1>4. QED
  BY <1>1, <1>2, <1>3, WritesRecord DEF Loaders, DocSteps

\* The answer is entered at the question it was written for.
LEMMA WriteAnswerKeeps ==
    ASSUME StoreInv, ~LateRequests, NEW o \in Actors, WriteAnswer(o)
    PROVE  StoreInv'
<1> DEFINE t == op[o]
           r == t.rec
           a == [doc |-> t.doc, text |-> t.text]
           all == [i \in DOMAIN r.answers \cup {t.index} |->
                     IF i = t.index THEN a ELSE r.answers[i]]
<1>1. /\ At(o, "writeAnswer") /\ GoesOn(o) /\ UNCHANGED <<manifest, files>>
      /\ record' = [r EXCEPT !.answers = all]
  BY DEF WriteAnswer
<1>2. record # NoFile /\ r = record /\ RecordOK(record)
  BY <1>1, WriterReads DEF Writers
<1>3. t.index \in DOMAIN r.questions /\ r.questions[t.index] = t.text
  <2>1. /\ RecordFacts(t, record)
        /\ StepsOf(t.plan) = {"writeAnswer"} \cup StepsOf(Rest(o))
    BY <1>1, Moving
  <2>2. QED
    BY <1>2, <2>1 DEF RecordFacts
<1>4. Fit(r.questions, all)
  <2> SUFFICES ASSUME NEW i \in DOMAIN all
               PROVE  i \in DOMAIN r.questions /\ r.questions[i] = all[i].text
    BY DEF Fit
  <2>1. CASE i = t.index
    BY <1>3, <2>1
  <2>2. CASE i # t.index
    BY <1>2, <2>2 DEF RecordOK, Fit
  <2>3. QED
    BY <2>1, <2>2
<1> HIDE DEF all
<1>5. RecordOK(record') /\ record'.questions = record.questions
  BY <1>1, <1>2, <1>4 DEF RecordOK
<1>6. QED
  BY <1>1, <1>2, <1>5, WritesRecord DEF Loaders, DocSteps

LEMMA LoadRecordKeeps ==
    ASSUME StoreInv, ~LateRequests, NEW o \in Actors, LoadRecord(o)
    PROVE  StoreInv'
<1> DEFINE t == op[o]
           n == [t EXCEPT !.plan = Rest(o), !.rec = record]
<1>1. At(o, "loadRecord") /\ UNCHANGED <<record, manifest, files>>
  BY DEF LoadRecord
<1>2. /\ DiskOK(record, manifest, files) /\ OpOK(o, t) /\ t.plan # << >>
      /\ DocFacts(StepsOf(t.plan), t, manifest, files) /\ RecordFacts(t, record)
      /\ StepsOf(t.plan) = {"loadRecord"} \cup StepsOf(Rest(o))
      /\ \A p \in Actors \ {o} : Resting(p)
  BY <1>1, Moving
<1>3. CASE record = NoFile
  <2>1. Throws(o)
    BY <1>3 DEF LoadRecord
  <2>2. QED
    BY <1>1, <1>2, <2>1, ThrowsKeeps
<1>4. CASE record # NoFile
  <2>1. Put(o, n)
    BY <1>4 DEF LoadRecord
  <2>2. {"plan", "rec"} \subseteq DOMAIN t
    BY <1>2 DEF OpOK
  <2>3. /\ DOMAIN n = DOMAIN t /\ n.plan = Rest(o) /\ n.scope = t.scope
        /\ n.failed = t.failed /\ n.list = t.list /\ n.answers = t.answers
        /\ n.own = t.own /\ n.doc = t.doc /\ n.man = t.man /\ n.rec = record
        /\ n.index = t.index /\ n.text = t.text
    BY <2>2
  <2> HIDE DEF n
  <2>4. RecordOK(n.own) /\ JobOK(StepsOf(n.plan), n.own)
    BY <1>2, <2>3, LessIsOK DEF OpOK
  <2>5. OpOK(o, n)
    BY <1>2, <2>3, <2>4, RestIsOK DEF Rest
  <2>6. DocFacts(StepsOf(n.plan), n, manifest, files)
    BY <1>2, <2>3 DEF DocFacts
  <2>7. RecordFacts(n, record)
    BY <1>2, <1>4, <2>3 DEF RecordFacts
  <2>8. QED
    BY <1>1, <1>2, <2>1, <2>5, <2>6, <2>7, StepKeeps DEF TaskOK
<1>5. QED
  BY <1>3, <1>4

-----------------------------------------------------------------------------
(***************************************************************************)
(* updateProjectInfo and saveCompletedEssayAnswer.                         *)
(***************************************************************************)
\* The answers kept are answers to the new questions.
LEMMA KeptFits ==
    ASSUME NEW old, NEW new, NEW answers, Fit(old, answers)
    PROVE  Fit(new, Kept(old, new, answers))
<1> SUFFICES ASSUME NEW n \in DOMAIN Kept(old, new, answers)
             PROVE  /\ n \in DOMAIN new
                    /\ new[n] = Kept(old, new, answers)[n].text
  BY DEF Fit
<1> DEFINE i == CHOOSE i \in Taken(old, new, answers, n) : TRUE
<1>1. n \in DOMAIN new /\ Taken(old, new, answers, n) # {}
  BY DEF Kept
<1>2. Kept(old, new, answers)[n] = answers[i]
  BY DEF Kept
<1>3. i \in Taken(old, new, answers, n)
  BY <1>1
<1> HIDE DEF i
<1>4. i \in DOMAIN answers /\ i \in DOMAIN old /\ old[i] = new[n]
  BY <1>3 DEF Taken
<1>5. QED
  BY <1>1, <1>2, <1>4 DEF Fit

LEMMA RereadIsGood ==
    IsPlan(RereadSteps, {"unpinNext", "loadRecord"}, "unpinNext", "loadRecord")
BY TwoIsGood DEF RereadSteps, Follows, Bars, StepNames, DocSteps, Writers, Loaders,
                 JobSteps, LateSteps

LEMMA ReadInfoKeeps ==
    ASSUME StoreInv, ~LateRequests, NEW o \in Actors, ReadInfo(o)
    PROVE  StoreInv'
<1> DEFINE t == op[o]
           new == IF t.edit = "questions" THEN t.list ELSE record.questions
           gone == Removed(record.questions, new, record.answers)
           kept == Kept(record.questions, new, record.answers)
           plan == (IF gone = {} THEN << >> ELSE RereadSteps) \o Rest(o)
           n == [t EXCEPT !.plan = plan, !.rec = record, !.list = new, !.drop = gone,
                          !.answers = kept]
<1>1. At(o, "readInfo") /\ UNCHANGED <<record, manifest, files>>
  BY DEF ReadInfo
<1>2. /\ DiskOK(record, manifest, files) /\ OpOK(o, t) /\ t.plan # << >>
      /\ RecordFacts(t, record)
      /\ StepsOf(t.plan) = {"readInfo"} \cup StepsOf(Rest(o)) /\ Good(Rest(o))
      /\ \A b \in StepsOf(Rest(o)) : ~Bars("readInfo", b)
      /\ \A p \in Actors \ {o} : Resting(p)
  BY <1>1, Moving
<1>3. CASE record = NoFile
  <2>1. Throws(o)
    BY <1>3 DEF ReadInfo
  <2>2. QED
    BY <1>1, <1>2, <2>1, ThrowsKeeps
<1>4. CASE record # NoFile
  <2>1. Put(o, n)
    BY <1>4 DEF ReadInfo
  <2>2. Fit(new, kept)
    BY <1>2, <1>4, KeptFits DEF DiskOK, RecordOK
  <2>3. /\ StepsOf(Rest(o)) \cap DocSteps = {}
        /\ StepsOf(Rest(o)) \cap {"markRecord", "makeManifest"} = {}
    BY <1>2 DEF Bars
  <2>4. /\ Good(plan) /\ StepsOf(plan) \subseteq {"unpinNext", "loadRecord"} \cup StepsOf(Rest(o))
    <3>1. CASE gone = {}
      <4>1. plan = Rest(o)
        BY <1>2, <3>1 DEF Good
      <4>2. QED
        BY <1>2, <4>1
    <3>2. CASE gone # {}
      <4>1. plan = RereadSteps \o Rest(o)
        BY <3>2
      <4>2. \A a \in {"unpinNext", "loadRecord"}, b \in StepsOf(Rest(o)) : ~Bars(a, b)
        BY <2>3 DEF Bars
      <4> HIDE DEF plan
      <4>3. QED
        BY <1>2, <4>1, <4>2, RereadIsGood, JoinIsGood DEF IsPlan, Loaders
    <3>3. QED
      BY <3>1, <3>2
  <2> HIDE DEF plan, new, gone, kept
  <2>5. {"plan", "rec", "list", "drop", "answers"} \subseteq DOMAIN t
    BY <1>2 DEF OpOK
  <2>6. /\ DOMAIN n = DOMAIN t /\ n.plan = plan /\ n.scope = t.scope
        /\ n.failed = t.failed /\ n.list = new /\ n.answers = kept
        /\ n.own = t.own /\ n.rec = record /\ n.index = t.index /\ n.text = t.text
    BY <2>5
  <2> HIDE DEF n
  <2>7. JobOK(StepsOf(plan), t.own)
    BY <1>2, <2>4 DEF OpOK, JobOK, LateSteps
  <2>8. StepsOf(plan) \cap JobSteps \subseteq StepsOf(t.plan)
    BY <1>2, <2>4 DEF JobSteps, LateSteps
  <2>9. OpOK(o, n)
    BY <1>2, <2>2, <2>4, <2>6, <2>7, <2>8 DEF OpOK
  <2>10. DocFacts(StepsOf(n.plan), n, manifest, files)
    BY <2>3, <2>4, <2>6 DEF DocFacts, DocSteps
  <2>11. RecordFacts(n, record)
    BY <1>2, <1>4, <2>4, <2>6 DEF RecordFacts
  <2>12. QED
    BY <1>1, <1>2, <2>1, <2>9, <2>10, <2>11, StepKeeps DEF TaskOK
<1>5. QED
  BY <1>3, <1>4

\* The documents of answers that are gone are unpinned one by one.
LEMMA UnpinNextKeeps ==
    ASSUME StoreInv, ~LateRequests, NEW o \in Actors, UnpinNext(o)
    PROVE  StoreInv'
<1> DEFINE t == op[o]
<1>1. At(o, "unpinNext") /\ UNCHANGED <<record, manifest, files>>
  BY DEF UnpinNext
<1>2. /\ DiskOK(record, manifest, files) /\ OpOK(o, t) /\ t.plan # << >>
      /\ Head(t.plan) = "unpinNext"
      /\ DocFacts(StepsOf(t.plan), t, manifest, files) /\ RecordFacts(t, record)
      /\ StepsOf(t.plan) = {"unpinNext"} \cup StepsOf(Rest(o)) /\ Good(Rest(o))
      /\ \A b \in StepsOf(Rest(o)) : ~Bars("unpinNext", b)
      /\ \A p \in Actors \ {o} : Resting(p)
  BY <1>1, Moving
<1>3. CASE t.drop = {}
  <2>1. GoesOn(o)
    BY <1>3 DEF UnpinNext
  <2>2. DocFacts(StepsOf(Rest(o)), t, manifest', files')
    BY <1>1, <1>2, FactsStay
  <2>3. QED
    BY <1>1, <1>2, <2>1, <2>2, GoesOnKeeps DEF Loaders
<1>4. CASE t.drop # {}
  <2>1. PICK d \in t.drop :
          Put(o, [t EXCEPT !.plan = PinSteps \o @, !.doc = d, !.pin = FALSE,
                           !.drop = @ \ {d}])
    BY <1>4 DEF UnpinNext
  <2> DEFINE plan == PinSteps \o t.plan
             n == [t EXCEPT !.plan = plan, !.doc = d, !.pin = FALSE, !.drop = @ \ {d}]
  <2>2. Put(o, n)
    BY <2>1
  <2>3. /\ StepsOf(t.plan) \cap DocSteps = {}
        /\ StepsOf(t.plan) \cap {"markRecord", "makeManifest"} = {}
    BY <1>2 DEF Bars, DocSteps
  <2>4. /\ Good(plan) /\ plan # << >> /\ Head(plan) = "loadManifest"
        /\ StepsOf(plan) = {"loadManifest", "markDocument", "loadRecord", "markRecord"}
                              \cup StepsOf(t.plan)
    <3>1. \A a \in {"loadManifest", "markDocument", "loadRecord", "markRecord"},
             b \in StepsOf(t.plan) : ~Bars(a, b)
      BY <2>3 DEF Bars
    <3>2. Good(t.plan) /\ Head(t.plan) \notin Writers
      BY <1>2 DEF OpOK, Writers
    <3>3. QED
      BY <3>1, <3>2, PinIsGood, JoinIsGood DEF IsPlan
  <2> HIDE DEF plan
  <2>5. {"plan", "doc", "pin", "drop"} \subseteq DOMAIN t
    BY <1>2 DEF OpOK
  <2>6. /\ DOMAIN n = DOMAIN t /\ n.plan = plan /\ n.scope = t.scope
        /\ n.failed = t.failed /\ n.list = t.list /\ n.answers = t.answers
        /\ n.own = t.own /\ n.index = t.index /\ n.text = t.text
    BY <2>5
  <2> HIDE DEF n
  <2>7. JobOK(StepsOf(plan), t.own)
    BY <1>2, <2>4 DEF OpOK, JobOK, LateSteps
  <2>8. StepsOf(plan) \cap JobSteps \subseteq StepsOf(t.plan)
    BY <2>4 DEF JobSteps, LateSteps
  <2>9. OpOK(o, n)
    BY <1>2, <2>4, <2>6, <2>7, <2>8 DEF OpOK
  <2>10. DocFacts(StepsOf(n.plan), n, manifest, files)
    BY <2>3, <2>4, <2>6 DEF DocFacts, DocSteps
  <2>11. RecordFacts(n, record)
    BY <1>2, <2>4, <2>6 DEF RecordFacts, Writers
  <2>12. QED
    BY <1>1, <1>2, <2>2, <2>9, <2>10, <2>11, StepKeeps DEF TaskOK
<1>5. QED
  BY <1>3, <1>4

LEMMA WriteInfoKeeps ==
    ASSUME StoreInv, ~LateRequests, NEW o \in Actors, WriteInfo(o)
    PROVE  StoreInv'
<1> DEFINE t == op[o]
           r == t.rec
           rev == IF SourceChanged(o) THEN edits + 1 ELSE r.rev
           dart == CASE t.edit = "skip" -> "skipped"
                     [] t.edit = "pick" -> "picked"
                     [] OTHER -> r.dart
           w == [r EXCEPT !.questions = t.list, !.answers = t.answers, !.rev = rev,
                          !.dart = dart, !.status = NextStatus(o, r)]
           n == [t EXCEPT !.plan = Rest(o), !.own = w]
<1>1. At(o, "writeInfo") /\ UNCHANGED <<manifest, files>> /\ record' = w /\ Put(o, n)
  BY DEF WriteInfo
<1>2. /\ DiskOK(record, manifest, files) /\ OpOK(o, t) /\ t.plan # << >>
      /\ DocFacts(StepsOf(t.plan), t, manifest, files)
      /\ StepsOf(t.plan) = {"writeInfo"} \cup StepsOf(Rest(o))
      /\ \A b \in StepsOf(Rest(o)) : ~Bars("writeInfo", b)
      /\ Rest(o) # << >> => Head(Rest(o)) \notin Writers
      /\ \A p \in Actors \ {o} : Resting(p)
  BY <1>1, Moving DEF Loaders
<1>3. r = record /\ RecordOK(r)
  BY <1>1, WriterReads DEF Writers
<1> HIDE DEF rev, dart
<1>4. RecordOK(w)
  <2>1. Fit(t.list, t.answers)
    BY <1>2 DEF OpOK
  <2>2. /\ DOMAIN w = DOMAIN r /\ w.questions = t.list /\ w.answers = t.answers
        /\ w.status = NextStatus(o, r) /\ w.generated = r.generated
        /\ w.posting = r.posting
    BY <1>3 DEF RecordOK
  <2>3. NextStatus(o, r) = "ready" => r.status = "ready"
    BY DEF NextStatus
  <2> HIDE DEF w
  <2>4. QED
    BY <1>3, <2>1, <2>2, <2>3 DEF RecordOK
<1> HIDE DEF w
<1>5. {"plan", "own"} \subseteq DOMAIN t
  BY <1>2 DEF OpOK
<1>6. /\ DOMAIN n = DOMAIN t /\ n.plan = Rest(o) /\ n.scope = t.scope
      /\ n.failed = t.failed /\ n.list = t.list /\ n.answers = t.answers
      /\ n.own = w /\ n.doc = t.doc /\ n.man = t.man
  BY <1>5
<1> HIDE DEF n
<1>7. StepsOf(Rest(o)) \cap (LateSteps \cup {"fetched", "writeAnswer"}) = {}
  BY <1>2 DEF Bars
<1>8. JobOK(StepsOf(n.plan), n.own)
  BY <1>6, <1>7 DEF JobOK, LateSteps
<1>9. OpOK(o, n)
  BY <1>2, <1>4, <1>6, <1>8, RestIsOK DEF Rest
<1>10. DocFacts(StepsOf(Rest(o)), t, manifest', files')
  BY <1>1, <1>2, FactsStay
<1>11. DocFacts(StepsOf(n.plan), n, manifest', files')
  BY <1>6, <1>10 DEF DocFacts
<1>12. RecordFacts(n, record')
  BY <1>2, <1>6, <1>7 DEF RecordFacts
<1>13. DiskOK(record', manifest', files')
  BY <1>1, <1>2, <1>4 DEF DiskOK
<1>14. QED
  BY <1>1, <1>2, <1>9, <1>11, <1>12, <1>13, StepKeeps DEF TaskOK

\* A document is saved or updated before what is left: the plan reads what it
\* writes back.
LEMMA SavingKeeps ==
    ASSUME StoreInv, ~LateRequests, NEW o \in Actors,
           NEW step \in {"readAnswer", "findGenerated"}, At(o, step),
           NEW steps \in {UpdateSteps, SaveSteps(TRUE)}, NEW n, Put(o, n),
           DOMAIN op[o] \subseteq DOMAIN n, n.plan = steps \o Rest(o),
           n.scope = op[o].scope, n.failed = op[o].failed, n.list = op[o].list,
           n.answers = op[o].answers, n.own = op[o].own, n.index = op[o].index,
           n.text = op[o].text, UNCHANGED <<record, manifest, files>>
    PROVE  StoreInv'
<1> DEFINE t == op[o]
<1>1. /\ DiskOK(record, manifest, files) /\ OpOK(o, t) /\ t.plan # << >>
      /\ RecordFacts(t, record)
      /\ StepsOf(t.plan) = {step} \cup StepsOf(Rest(o)) /\ Good(Rest(o))
      /\ \A b \in StepsOf(Rest(o)) : ~Bars(step, b)
      /\ Rest(o) # << >> => Head(Rest(o)) \notin Writers
      /\ \A p \in Actors \ {o} : Resting(p)
  BY Moving DEF Loaders
<1>2. /\ Good(steps) /\ steps # << >> /\ Head(steps) \in {"loadExisting", "writeFiles"}
      /\ \/ StepsOf(steps) =
              {"loadExisting", "writeFiles", "markDocument", "loadRecord", "markRecord"}
         \/ StepsOf(steps) =
              {"writeFiles", "loadManifest", "addDocument", "loadRecord", "markRecord"}
  BY UpdateIsGood, SaveIsGood DEF IsPlan
<1>3. /\ StepsOf(Rest(o)) \cap DocSteps = {}
      /\ StepsOf(Rest(o)) \cap {"markRecord", "makeManifest"} = {}
  BY <1>1 DEF Bars
<1>4. \A a \in StepsOf(steps), b \in StepsOf(Rest(o)) : ~Bars(a, b)
  BY <1>2, <1>3 DEF Bars
<1>5. /\ Good(n.plan) /\ Head(n.plan) \in {"loadExisting", "writeFiles"}
      /\ StepsOf(n.plan) = StepsOf(steps) \cup StepsOf(Rest(o))
  BY <1>1, <1>2, <1>4, JoinIsGood
<1>6. /\ StepsOf(n.plan) \cap (JobSteps \cup {"writeAnswer"}) \subseteq StepsOf(t.plan)
      /\ JobOK(StepsOf(n.plan), t.own)
  <2>1. StepsOf(steps) \cap (JobSteps \cup {"writeAnswer"}) = {}
    BY <1>2 DEF JobSteps, LateSteps
  <2>2. StepsOf(n.plan) \cap (JobSteps \cup {"writeAnswer"}) \subseteq StepsOf(t.plan)
    BY <1>1, <1>5, <2>1
  <2>3. QED
    BY <1>1, <2>2 DEF OpOK, JobOK, JobSteps, LateSteps
<1>7. OpOK(o, n)
  BY <1>1, <1>5, <1>6 DEF OpOK
<1>8. DocFacts(StepsOf(n.plan), n, manifest, files)
  BY <1>2, <1>3, <1>5 DEF DocFacts, DocSteps
<1>9. RecordFacts(n, record)
  BY <1>1, <1>5, <1>6 DEF RecordFacts, Writers
<1>10. QED
  BY <1>1, <1>7, <1>8, <1>9, StepKeeps DEF TaskOK

LEMMA ReadAnswerKeeps ==
    ASSUME StoreInv, ~LateRequests, NEW o \in Actors, ReadAnswer(o)
    PROVE  StoreInv'
<1> DEFINE t == op[o]
<1>1. At(o, "readAnswer") /\ UNCHANGED <<record, manifest, files>>
  BY DEF ReadAnswer
<1>2. DiskOK(record, manifest, files) /\ OpOK(o, t)
  BY <1>1, Moving
<1>3. {"plan", "pin", "doc", "title"} \subseteq DOMAIN t
  BY <1>2 DEF OpOK
<1>4. CASE record = NoFile
  <2>1. Throws(o)
    BY <1>4 DEF ReadAnswer
  <2>2. QED
    BY <1>1, <1>2, <2>1, ThrowsKeeps
<1>5. CASE record # NoFile /\ t.index \in DOMAIN record.answers
  <2> DEFINE n == [t EXCEPT !.plan = UpdateSteps \o Rest(o), !.pin = TRUE,
                            !.doc = record.answers[t.index].doc]
  <2>1. Put(o, n)
    BY <1>5 DEF ReadAnswer
  <2>2. /\ DOMAIN t \subseteq DOMAIN n /\ n.plan = UpdateSteps \o Rest(o)
        /\ n.scope = t.scope /\ n.failed = t.failed /\ n.list = t.list
        /\ n.answers = t.answers /\ n.own = t.own /\ n.index = t.index
        /\ n.text = t.text
    BY <1>3
  <2> HIDE DEF n
  <2>3. QED
    BY <1>1, <2>1, <2>2, SavingKeeps
<1>6. CASE record # NoFile /\ t.index \notin DOMAIN record.answers
  <2>1. PICK d \in Docs :
          Put(o, [t EXCEPT !.plan = SaveSteps(TRUE) \o Rest(o), !.pin = TRUE, !.doc = d,
                           !.title = "answer"])
    BY <1>6 DEF ReadAnswer
  <2> DEFINE plan == SaveSteps(TRUE) \o Rest(o)
             n == [t EXCEPT !.plan = plan, !.pin = TRUE, !.doc = d, !.title = "answer"]
  <2>2. Put(o, n)
    BY <2>1
  <2> HIDE DEF plan
  <2>3. /\ DOMAIN t \subseteq DOMAIN n /\ n.plan = plan
        /\ n.scope = t.scope /\ n.failed = t.failed /\ n.list = t.list
        /\ n.answers = t.answers /\ n.own = t.own /\ n.index = t.index
        /\ n.text = t.text
    BY <1>3
  <2> HIDE DEF n
  <2>4. QED
    BY <1>1, <2>2, <2>3, SavingKeeps DEF plan
<1>7. QED
  BY <1>4, <1>5, <1>6

LEMMA FindGeneratedKeeps ==
    ASSUME StoreInv, ~LateRequests, NEW o \in Actors, FindGenerated(o)
    PROVE  StoreInv'
<1> DEFINE t == op[o]
<1>1. At(o, "findGenerated") /\ UNCHANGED <<record, manifest, files>>
  BY DEF FindGenerated
<1>2. OpOK(o, t)
  BY <1>1, Moving
<1>3. {"plan", "doc"} \subseteq DOMAIN t
  BY <1>2 DEF OpOK
<1>4. \E d, steps : /\ steps \in {UpdateSteps, SaveSteps(TRUE)}
                    /\ Put(o, [t EXCEPT !.plan = steps \o Rest(o), !.doc = d])
  BY DEF FindGenerated
<1>5. PICK d, steps : /\ steps \in {UpdateSteps, SaveSteps(TRUE)}
                      /\ Put(o, [t EXCEPT !.plan = steps \o Rest(o), !.doc = d])
  BY <1>4
<1> DEFINE n == [t EXCEPT !.plan = steps \o Rest(o), !.doc = d]
<1>6. Put(o, n)
  BY <1>5
<1>7. /\ DOMAIN t \subseteq DOMAIN n /\ n.plan = steps \o Rest(o)
      /\ n.scope = t.scope /\ n.failed = t.failed /\ n.list = t.list
      /\ n.answers = t.answers /\ n.own = t.own /\ n.index = t.index
      /\ n.text = t.text
  BY <1>3
<1> HIDE DEF n
<1>8. QED
  BY <1>1, <1>5, <1>6, <1>7, SavingKeeps

-----------------------------------------------------------------------------
(***************************************************************************)
(* The steps of a job.                                                     *)
(***************************************************************************)
LEMMA AwaitKeeps ==
    ASSUME StoreInv, ~LateRequests, NEW o \in Actors, Await(o)
    PROVE  StoreInv'
<1>1. /\ At(o, "await") /\ GoesOn(o) /\ record' = record
      /\ UNCHANGED <<manifest, files>>
  BY DEF Await
<1>2. DiskOK(record, manifest, files) /\ \A b \in StepsOf(Rest(o)) : ~Bars("await", b)
  BY <1>1, Moving
<1>3. record # NoFile => RecordOK(record)
  BY <1>2 DEF DiskOK
<1>4. "writeAnswer" \notin StepsOf(Rest(o))
  BY <1>2 DEF Bars
<1>5. QED
  BY <1>1, <1>3, <1>4, WritesRecord DEF Loaders, DocSteps

\* A job that ends writes a sound record with a status.
LEMMA EndsWithKeeps ==
    ASSUME StoreInv, ~LateRequests, NEW o \in Actors, NEW step, At(o, step),
           NEW r, RecordOK(r), NEW st, st = "ready" => r.generated /\ r.posting # "url",
           EndsWith(o, r, st), UNCHANGED <<manifest, files>>
    PROVE  StoreInv'
<1>1. record' = [r EXCEPT !.status = st] /\ Ends(o)
  BY DEF EndsWith
<1>2. RecordOK(record')
  BY <1>1 DEF RecordOK
<1>3. DiskOK(record', manifest', files')
  BY <1>2 DEF StoreInv, DiskOK
<1>4. QED
  BY <1>1, <1>3, EndsKeeps

\* What is known of a job at one of its own steps.
LEMMA JobMoves ==
    ASSUME StoreInv, ~LateRequests, NEW o \in Actors, NEW step, At(o, step)
    PROVE  /\ OpOK(o, op[o]) /\ RecordOK(op[o].own)
           /\ step \in JobSteps => o \notin Requests
           /\ step \in LateSteps => op[o].own.posting # "url"
           /\ step = "fetched" => op[o].own.posting = "url"
           /\ step = "collected" => op[o].own.status = "generating"
<1>1. OpOK(o, op[o]) /\ step \in StepsOf(op[o].plan)
  BY Moving
<1>2. QED
  BY <1>1 DEF OpOK, JobOK

LEMMA ExtractedIsOK ==
    ASSUME NEW r, RecordOK(r)
    PROVE  /\ RecordOK([Extracted(r) EXCEPT !.status = "reviewNeeded"])
           /\ r.status # "ready" => RecordOK(Extracted(r))
           /\ Extracted(r).posting = "text"
BY DEF RecordOK, Extracted, Fit

LEMMA AnalyzedKeeps ==
    ASSUME StoreInv, ~LateRequests, NEW o \in Actors, Analyzed(o)
    PROVE  StoreInv'
<1> DEFINE own == op[o].own
           e == Extracted(own)
           w(low) == [e EXCEPT !.low = low,
                               !.dart = IF @ = "candidates" THEN "open" ELSE @]
<1>1. At(o, "analyzed") /\ UNCHANGED <<manifest, files>>
  BY DEF Analyzed
<1>2. RecordOK(own)
  BY <1>1, JobMoves
<1>3. ASSUME NEW low \in BOOLEAN, EndsWith(o, w(low), "reviewNeeded")
      PROVE  StoreInv'
  <2>1. /\ record' = [w(low) EXCEPT !.status = "reviewNeeded"] /\ Ends(o)
    BY <1>3 DEF EndsWith
  <2>2. {"questions", "answers", "pinned", "status", "generated", "rev", "posting", "low",
         "dart"} \subseteq DOMAIN e /\ Fit(e.questions, e.answers)
    BY <1>2 DEF RecordOK, Extracted
  <2> HIDE DEF e
  <2>3. RecordOK(record')
    BY <2>1, <2>2 DEF RecordOK
  <2>4. DiskOK(record', manifest', files')
    BY <1>1, <2>3 DEF StoreInv, DiskOK
  <2>5. QED
    BY <1>1, <2>1, <2>4, EndsKeeps
<1>4. CASE EndsWith(o, own, "reviewNeeded")
  BY <1>1, <1>2, <1>4, EndsWithKeeps
<1>5. QED
  BY <1>3, <1>4 DEF Analyzed

\* A job that goes on with a plan of its own and a sound record.
LEMMA JobGoesOn ==
    ASSUME StoreInv, ~LateRequests, NEW o \in Actors, NEW step, At(o, step),
           o \notin Requests, NEW n, Put(o, n),
           DOMAIN op[o] \subseteq DOMAIN n, n.scope = op[o].scope,
           n.failed \in Fallbacks, n.list = op[o].list, n.answers = op[o].answers,
           Good(n.plan), StepsOf(n.plan) \cap (DocSteps \cup {"writeAnswer"}) = {},
           Head(n.plan) \notin Writers, RecordOK(n.own), JobOK(StepsOf(n.plan), n.own),
           record' # NoFile => RecordOK(record'), UNCHANGED <<manifest, files>>
    PROVE  StoreInv'
<1>1. OpOK(o, op[o]) /\ DiskOK(record, manifest, files)
  BY Moving
<1>2. OpOK(o, n)
  BY <1>1 DEF OpOK
<1>3. DiskOK(record', manifest', files')
  BY <1>1 DEF DiskOK
<1>4. QED
  BY <1>2, <1>3, PlanKeeps

LEMMA JobPlans ==
    /\ IsPlan(<<"await", "fetched">>, {"await", "fetched"}, "await", "fetched")
    /\ IsPlan(<<"confidence">>, {"confidence"}, "confidence", "confidence")
    /\ IsPlan(<<"await", "collected">>, {"await", "collected"}, "await", "collected")
    /\ IsPlan(<<"await", "companyPhase">>, {"await", "companyPhase"}, "await", "companyPhase")
    /\ IsPlan(<<"findGenerated", "await", "supportPhase">>,
              {"findGenerated", "await", "supportPhase"}, "findGenerated", "supportPhase")
    /\ IsPlan(<<"findGenerated", "writeReady">>, {"findGenerated", "writeReady"},
              "findGenerated", "writeReady")
<1> USE DEF Follows, Bars, StepNames, DocSteps, Writers, Loaders, JobSteps, LateSteps
<1>1. /\ IsPlan(<<"await", "fetched">>, {"await", "fetched"}, "await", "fetched")
      /\ IsPlan(<<"confidence">>, {"confidence"}, "confidence", "confidence")
  BY OneIsGood, TwoIsGood
<1>2. /\ IsPlan(<<"await", "collected">>, {"await", "collected"}, "await", "collected")
      /\ IsPlan(<<"await", "companyPhase">>, {"await", "companyPhase"}, "await",
                "companyPhase")
  BY TwoIsGood
<1>3. /\ IsPlan(<<"findGenerated", "await", "supportPhase">>,
                {"findGenerated", "await", "supportPhase"}, "findGenerated", "supportPhase")
      /\ IsPlan(<<"findGenerated", "writeReady">>, {"findGenerated", "writeReady"},
                "findGenerated", "writeReady")
  BY TwoIsGood, ThreeIsGood
<1>4. QED
  BY <1>1, <1>2, <1>3

LEMMA CheckInputsKeeps ==
    ASSUME StoreInv, ~LateRequests, NEW o \in Actors, CheckInputs(o)
    PROVE  StoreInv'
<1> DEFINE t == op[o]
           first == IF t.own.posting = "url" THEN <<"await", "fetched">> ELSE <<"confidence">>
           plan == first \o Rest(o)
           n == [t EXCEPT !.plan = plan]
<1>1. At(o, "checkInputs") /\ UNCHANGED <<record, manifest, files>>
  BY DEF CheckInputs
<1>2. /\ OpOK(o, t) /\ DiskOK(record, manifest, files) /\ Good(Rest(o))
      /\ \A b \in StepsOf(Rest(o)) : ~Bars("checkInputs", b)
      /\ Rest(o) # << >> => Head(Rest(o)) \notin Writers
  BY <1>1, Moving DEF Loaders
<1>3. o \notin Requests /\ RecordOK(t.own)
  BY <1>1, JobMoves DEF JobSteps
<1>4. CASE Throws(o)
  BY <1>1, <1>2, <1>4, ThrowsKeeps
<1>5. CASE Put(o, n)
  <2>1. /\ StepsOf(Rest(o)) \cap (DocSteps \cup LateSteps \cup {"fetched", "writeAnswer"}) = {}
        /\ StepsOf(Rest(o)) \cap {"markRecord", "makeManifest"} = {}
    BY <1>2 DEF Bars
  <2>2. /\ Good(first) /\ first # << >> /\ Head(first) \in {"await", "confidence"}
        /\ StepsOf(first) =
             IF t.own.posting = "url" THEN {"await", "fetched"} ELSE {"confidence"}
    BY JobPlans DEF IsPlan
  <2>3. \A a \in StepsOf(first), b \in StepsOf(Rest(o)) : ~Bars(a, b)
    BY <2>1, <2>2 DEF Bars
  <2> HIDE DEF first
  <2>4. /\ Good(plan) /\ Head(plan) \in {"await", "confidence"}
        /\ StepsOf(plan) = StepsOf(first) \cup StepsOf(Rest(o))
    BY <1>2, <2>2, <2>3, JoinIsGood
  <2> HIDE DEF plan
  <2>5. "plan" \in DOMAIN t
    BY <1>2 DEF OpOK
  <2>6. /\ DOMAIN t \subseteq DOMAIN n /\ n.plan = plan /\ n.scope = t.scope
        /\ n.failed = t.failed /\ n.list = t.list /\ n.answers = t.answers
        /\ n.own = t.own
    BY <2>5
  <2> HIDE DEF n
  <2>7. JobOK(StepsOf(plan), t.own)
    BY <2>1, <2>2, <2>4 DEF JobOK, LateSteps
  <2>8. StepsOf(plan) \cap (DocSteps \cup {"writeAnswer"}) = {}
    BY <2>1, <2>2, <2>4 DEF DocSteps
  <2>9. RecordOK(n.own) /\ n.failed \in Fallbacks /\ (record # NoFile => RecordOK(record))
    BY <1>2, <1>3, <2>6 DEF OpOK, DiskOK
  <2>10. Head(n.plan) \notin Writers
    BY <2>4, <2>6 DEF Writers
  <2>11. QED
    BY <1>1, <1>3, <1>5, <2>4, <2>6, <2>7, <2>8, <2>9, <2>10, JobGoesOn
<1>6. QED
  BY <1>4, <1>5 DEF CheckInputs, Expands

LEMMA FetchedKeeps ==
    ASSUME StoreInv, ~LateRequests, NEW o \in Actors, Fetched(o)
    PROVE  StoreInv'
<1> DEFINE t == op[o]
           w == Extracted(t.own)
           n == [t EXCEPT !.plan = <<"confidence">>, !.own = w]
<1>1. At(o, "fetched") /\ UNCHANGED <<manifest, files>>
  BY DEF Fetched
<1>2. /\ OpOK(o, t) /\ RecordOK(t.own) /\ o \notin Requests /\ t.own.posting = "url"
  BY <1>1, JobMoves DEF JobSteps
<1>3. RecordOK(w) /\ w.posting = "text"
  BY <1>2, ExtractedIsOK DEF RecordOK
<1>4. CASE record' = w /\ Put(o, [t EXCEPT !.plan = <<"confidence">>, !.own = record'])
  <2>1. Put(o, n)
    BY <1>4
  <2> HIDE DEF w
  <2>2. {"plan", "own"} \subseteq DOMAIN t
    BY <1>2 DEF OpOK
  <2>3. /\ DOMAIN t \subseteq DOMAIN n /\ n.plan = <<"confidence">> /\ n.scope = t.scope
        /\ n.failed = t.failed /\ n.list = t.list /\ n.answers = t.answers
        /\ n.own = w
    BY <2>2
  <2> HIDE DEF n
  <2>4. /\ Good(n.plan) /\ Head(n.plan) \notin Writers
        /\ StepsOf(n.plan) = {"confidence"}
    BY <2>3, JobPlans DEF IsPlan, Writers
  <2>5. JobOK(StepsOf(n.plan), n.own) /\ StepsOf(n.plan) \cap (DocSteps \cup {"writeAnswer"}) = {}
    BY <1>3, <2>3, <2>4 DEF JobOK, DocSteps
  <2>6. n.failed \in Fallbacks
    BY <1>2, <2>3 DEF OpOK
  <2>7. QED
    BY <1>1, <1>2, <1>3, <1>4, <2>1, <2>3, <2>4, <2>5, <2>6, JobGoesOn
<1>5. CASE EndsWith(o, t.own, "reviewNeeded")
  BY <1>1, <1>2, <1>5, EndsWithKeeps
<1>6. QED
  BY <1>4, <1>5 DEF Fetched

LEMMA ConfidenceKeeps ==
    ASSUME StoreInv, ~LateRequests, NEW o \in Actors, Confidence(o)
    PROVE  StoreInv'
<1> DEFINE t == op[o]
           w == [t.own EXCEPT !.status = "generating"]
           n == [t EXCEPT !.plan = <<"await", "collected">>, !.own = w]
<1>1. At(o, "confidence") /\ UNCHANGED <<manifest, files>>
  BY DEF Confidence
<1>2. /\ OpOK(o, t) /\ RecordOK(t.own) /\ o \notin Requests /\ t.own.posting # "url"
  BY <1>1, JobMoves DEF JobSteps, LateSteps
<1>3. RecordOK(w) /\ w.posting # "url" /\ w.status = "generating"
  BY <1>2 DEF RecordOK, Fit
<1>4. CASE t.own.low
  BY <1>1, <1>2, <1>4, EndsWithKeeps DEF Confidence
<1>5. CASE ~t.own.low
  <2>1. Put(o, n) /\ record' = w
    BY <1>5 DEF Confidence
  <2> HIDE DEF w
  <2>2. {"plan", "own"} \subseteq DOMAIN t
    BY <1>2 DEF OpOK
  <2>3. /\ DOMAIN t \subseteq DOMAIN n /\ n.plan = <<"await", "collected">>
        /\ n.scope = t.scope /\ n.failed = t.failed /\ n.list = t.list
        /\ n.answers = t.answers /\ n.own = w
    BY <2>2
  <2> HIDE DEF n
  <2>4. /\ Good(n.plan) /\ Head(n.plan) \notin Writers
        /\ StepsOf(n.plan) = {"await", "collected"}
    BY <2>3, JobPlans DEF IsPlan, Writers
  <2>5. JobOK(StepsOf(n.plan), n.own) /\ StepsOf(n.plan) \cap (DocSteps \cup {"writeAnswer"}) = {}
    BY <1>3, <2>3, <2>4 DEF JobOK, DocSteps
  <2>6. n.failed \in Fallbacks
    BY <1>2, <2>3 DEF OpOK
  <2>7. QED
    BY <1>1, <1>2, <1>3, <2>1, <2>3, <2>4, <2>5, <2>6, JobGoesOn
<1>6. QED
  BY <1>4, <1>5

LEMMA CollectedKeeps ==
    ASSUME StoreInv, ~LateRequests, NEW o \in Actors, Collected(o)
    PROVE  StoreInv'
<1> DEFINE t == op[o]
           picked == [t.own EXCEPT !.dart = "picked"]
           several == [t.own EXCEPT !.dart = "candidates"]
           n(own) == [t EXCEPT !.plan = <<"await", "companyPhase">>, !.own = own]
<1>1. At(o, "collected") /\ UNCHANGED <<manifest, files>>
  BY DEF Collected
<1>2. /\ OpOK(o, t) /\ RecordOK(t.own) /\ o \notin Requests /\ t.own.posting # "url"
  BY <1>1, JobMoves DEF JobSteps, LateSteps
<1>3. /\ RecordOK(picked) /\ picked.posting # "url"
      /\ RecordOK(several)
  BY <1>2 DEF RecordOK, Fit
<1>4. {"plan", "own"} \subseteq DOMAIN t
  BY <1>2 DEF OpOK
<1>5. record # NoFile => RecordOK(record)
  BY DEF StoreInv, DiskOK
<1>6. ASSUME NEW own, RecordOK(own), own.posting # "url", Put(o, n(own)),
             record' # NoFile => RecordOK(record')
      PROVE  StoreInv'
  <2> DEFINE k == n(own)
  <2>1. /\ DOMAIN t \subseteq DOMAIN k /\ k.plan = <<"await", "companyPhase">>
        /\ k.scope = t.scope /\ k.failed = t.failed /\ k.list = t.list
        /\ k.answers = t.answers /\ k.own = own
    BY <1>4
  <2>2. Put(o, k)
    BY <1>6
  <2> HIDE DEF k
  <2>3. /\ Good(k.plan) /\ Head(k.plan) \notin Writers
        /\ StepsOf(k.plan) = {"await", "companyPhase"}
    BY <2>1, JobPlans DEF IsPlan, Writers
  <2>4. JobOK(StepsOf(k.plan), k.own) /\ StepsOf(k.plan) \cap (DocSteps \cup {"writeAnswer"}) = {}
    BY <1>6, <2>1, <2>3 DEF JobOK, DocSteps
  <2>5. k.failed \in Fallbacks
    BY <1>2, <2>1 DEF OpOK
  <2>6. QED
    BY <1>1, <1>2, <1>6, <2>1, <2>2, <2>3, <2>4, <2>5, JobGoesOn
<1>7. CASE EndsWith(o, several, "reviewNeeded")
  BY <1>1, <1>3, <1>7, EndsWithKeeps
<1>8. CASE record' = picked /\ Put(o, n(record'))
  BY <1>3, <1>6, <1>8
<1>9. CASE Put(o, [t EXCEPT !.plan = <<"await", "companyPhase">>]) /\ UNCHANGED record
  <2>1. [t EXCEPT !.plan = <<"await", "companyPhase">>] = n(t.own)
    BY <1>4
  <2>2. QED
    BY <1>2, <1>5, <1>6, <1>9, <2>1
<1>10. QED
  BY <1>7, <1>8, <1>9 DEF Collected

LEMMA CompanyPhaseKeeps ==
    ASSUME StoreInv, ~LateRequests, NEW o \in Actors, CompanyPhase(o)
    PROVE  StoreInv'
<1> DEFINE t == op[o]
           n == [t EXCEPT !.plan = <<"findGenerated", "await", "supportPhase">>,
                          !.title = "company", !.pin = TRUE]
<1>1. At(o, "companyPhase") /\ UNCHANGED <<manifest, files>>
  BY DEF CompanyPhase
<1>2. /\ OpOK(o, t) /\ RecordOK(t.own) /\ o \notin Requests /\ t.own.posting # "url"
  BY <1>1, JobMoves DEF JobSteps, LateSteps
<1>3. record # NoFile => RecordOK(record)
  BY DEF StoreInv, DiskOK
<1>4. CASE EndsWith(o, t.own, "error")
  BY <1>1, <1>2, <1>4, EndsWithKeeps
<1>5. CASE Put(o, n) /\ UNCHANGED record
  <2>1. {"plan", "title", "pin"} \subseteq DOMAIN t
    BY <1>2 DEF OpOK
  <2>2. /\ DOMAIN t \subseteq DOMAIN n
        /\ n.plan = <<"findGenerated", "await", "supportPhase">>
        /\ n.scope = t.scope /\ n.failed = t.failed /\ n.list = t.list
        /\ n.answers = t.answers /\ n.own = t.own
    BY <2>1
  <2>3. Put(o, n)
    BY <1>5
  <2> HIDE DEF n
  <2>4. /\ Good(n.plan) /\ Head(n.plan) \notin Writers
        /\ StepsOf(n.plan) = {"findGenerated", "await", "supportPhase"}
    BY <2>2, JobPlans DEF IsPlan, Writers
  <2>5. JobOK(StepsOf(n.plan), n.own) /\ StepsOf(n.plan) \cap (DocSteps \cup {"writeAnswer"}) = {}
    BY <1>2, <2>2, <2>4 DEF JobOK, DocSteps
  <2>6. n.failed \in Fallbacks
    BY <1>2, <2>2 DEF OpOK
  <2>7. QED
    BY <1>1, <1>2, <1>3, <1>5, <2>2, <2>3, <2>4, <2>5, <2>6, JobGoesOn
<1>6. QED
  BY <1>4, <1>5 DEF CompanyPhase

LEMMA SupportPhaseKeeps ==
    ASSUME StoreInv, ~LateRequests, NEW o \in Actors, SupportPhase(o)
    PROVE  StoreInv'
<1> DEFINE t == op[o]
           n == [t EXCEPT !.plan = <<"findGenerated", "writeReady">>,
                          !.title = "supporting", !.pin = TRUE, !.failed = <<"writeStale">>]
<1>1. At(o, "supportPhase") /\ UNCHANGED <<manifest, files>>
  BY DEF SupportPhase
<1>2. /\ OpOK(o, t) /\ RecordOK(t.own) /\ o \notin Requests /\ t.own.posting # "url"
  BY <1>1, JobMoves DEF JobSteps, LateSteps
<1>3. record # NoFile => RecordOK(record)
  BY DEF StoreInv, DiskOK
<1>4. CASE EndsWith(o, t.own, "error")
  BY <1>1, <1>2, <1>4, EndsWithKeeps
<1>5. CASE Put(o, n) /\ UNCHANGED record
  <2>1. {"plan", "title", "pin", "failed"} \subseteq DOMAIN t
    BY <1>2 DEF OpOK
  <2>2. /\ DOMAIN t \subseteq DOMAIN n
        /\ n.plan = <<"findGenerated", "writeReady">>
        /\ n.scope = t.scope /\ n.failed = <<"writeStale">> /\ n.list = t.list
        /\ n.answers = t.answers /\ n.own = t.own
    BY <2>1
  <2>3. Put(o, n)
    BY <1>5
  <2> HIDE DEF n
  <2>4. /\ Good(n.plan) /\ Head(n.plan) \notin Writers
        /\ StepsOf(n.plan) = {"findGenerated", "writeReady"}
    BY <2>2, JobPlans DEF IsPlan, Writers
  <2>5. JobOK(StepsOf(n.plan), n.own) /\ StepsOf(n.plan) \cap (DocSteps \cup {"writeAnswer"}) = {}
    BY <1>2, <2>2, <2>4 DEF JobOK, DocSteps
  <2>6. n.failed \in Fallbacks
    BY <2>2 DEF Fallbacks
  <2>7. QED
    BY <1>1, <1>2, <1>3, <1>5, <2>2, <2>3, <2>4, <2>5, <2>6, JobGoesOn
<1>6. QED
  BY <1>4, <1>5 DEF SupportPhase

LEMMA JobEndKeeps ==
    ASSUME StoreInv, ~LateRequests, NEW o \in Actors,
           WriteReady(o) \/ WriteStale(o) \/ WriteError(o)
    PROVE  StoreInv'
<1> DEFINE own == op[o].own
           w == [own EXCEPT !.generated = TRUE]
<1>1. CASE WriteReady(o)
  <2>1. At(o, "writeReady") /\ EndsWith(o, w, "ready") /\ UNCHANGED <<manifest, files>>
    BY <1>1 DEF WriteReady
  <2>2. RecordOK(own) /\ own.posting # "url"
    BY <2>1, JobMoves DEF LateSteps
  <2>3. RecordOK(w) /\ w.generated /\ w.posting # "url"
    BY <2>2 DEF RecordOK, Fit
  <2> HIDE DEF w
  <2>4. QED
    BY <2>1, <2>3, EndsWithKeeps
<1>2. CASE WriteStale(o)
  <2>1. At(o, "writeStale") /\ EndsWith(o, own, "error") /\ UNCHANGED <<manifest, files>>
    BY <1>2 DEF WriteStale
  <2>2. RecordOK(own)
    BY <2>1, JobMoves
  <2>3. QED
    BY <2>1, <2>2, EndsWithKeeps
<1>3. CASE WriteError(o)
  <2>1. /\ At(o, "writeError") /\ EndsWith(o, op[o].rec, "error")
        /\ UNCHANGED <<manifest, files>>
    BY <1>3 DEF WriteError
  <2>2. RecordOK(op[o].rec)
    BY <2>1, WriterReads DEF Writers
  <2>3. QED
    BY <2>1, <2>2, EndsWithKeeps
<1>4. QED
  BY <1>1, <1>2, <1>3

-----------------------------------------------------------------------------
(***************************************************************************)
(* Requests and jobs that begin, and the whole.                            *)
(***************************************************************************)
LEMMA BeginsKeeps ==
    ASSUME StoreInv, ~LateRequests, NEW o \in Actors, NEW t, Begins(o, t), t.plan # << >>,
           t.scope \in Scopes, t.failed \in Fallbacks, t.own = Blank, t.answers = << >>,
           DOMAIN Idle \subseteq DOMAIN t, Good(t.plan), Head(t.plan) \notin Writers,
           StepsOf(t.plan) \cap (LateSteps \cup {"fetched"}) = {},
           o \in Requests => StepsOf(t.plan) \cap JobSteps = {} /\ t.failed = << >>,
           DocFacts(StepsOf(t.plan), t, manifest, files),
           "writeAnswer" \in StepsOf(t.plan) /\ record # NoFile
             => t.index \in DOMAIN record.questions /\ record.questions[t.index] = t.text
    PROVE  StoreInv'
<1>1. /\ \A p \in Actors : Resting(p)
      /\ op' = [op EXCEPT ![o] = t] /\ UNCHANGED <<record, manifest, files>>
  BY DEF Begins
<1>2. Put(o, t)
  BY <1>1 DEF Put
<1>3. Fit(t.list, t.answers)
  BY DEF Fit
<1>4. JobOK(StepsOf(t.plan), t.own)
  BY DEF JobOK, LateSteps
<1>5. OpOK(o, t)
  <2>1. DOMAIN Idle = {"plan", "scope", "doc", "pin", "title", "man", "rec", "own", "answers",
                       "index", "text", "edit", "list", "drop", "failed"}
    BY DEF Idle
  <2>2. QED
    BY <1>3, <1>4, <2>1, BlankIsOK DEF OpOK
<1>6. RecordFacts(t, record)
  BY DEF RecordFacts
<1>7. DiskOK(record, manifest, files)
  BY DEF StoreInv
<1>8. QED
  BY <1>1, <1>2, <1>5, <1>6, <1>7, StepKeeps DEF TaskOK

\* The fields of an operation that begins, but those it sets itself.
LEMMA IdleFields ==
    /\ Idle.scope \in Scopes /\ Idle.failed = << >> /\ << >> \in Fallbacks
    /\ Idle.own = Blank
    /\ Idle.answers = << >> /\ Idle.scope = "project"
    /\ {"plan", "scope", "doc", "pin", "list", "index", "text", "edit", "failed", "own",
        "answers"} \subseteq DOMAIN Idle
BY DEF Idle, Scopes, Fallbacks

LEMMA DocumentRequestKeeps ==
    ASSUME StoreInv, ~LateRequests, NEW o \in Requests, NEW d, NEW pin \in BOOLEAN,
           \/ SaveDocument(o, d, pin) \/ ProfileSaveTextDocument(o, d, pin)
           \/ ProfileSetDocumentPinned(o, d, pin)
    PROVE  StoreInv'
<1> o \in Actors
  BY DEF Actors
<1> USE IdleFields
<1>1. CASE SaveDocument(o, d, pin)
  <2> DEFINE plan == SaveSteps(pin)
             t == [Idle EXCEPT !.plan = plan, !.doc = d, !.pin = pin]
  <2>1. Begins(o, t)
    BY <1>1 DEF SaveDocument
  <2>2. /\ Good(plan) /\ plan # << >> /\ Head(plan) = "writeFiles"
        /\ {"writeFiles", "loadManifest"} \subseteq StepsOf(plan)
        /\ StepsOf(plan) \subseteq
             {"writeFiles", "loadManifest", "addDocument", "loadRecord", "markRecord"}
    BY SaveIsGood DEF IsPlan
  <2> HIDE DEF plan
  <2>3. /\ t.plan = plan /\ t.scope \in Scopes /\ t.failed = << >> /\ t.own = Blank
        /\ t.answers = << >> /\ DOMAIN Idle \subseteq DOMAIN t
    OBVIOUS
  <2> HIDE DEF t
  <2>4. DocFacts(StepsOf(t.plan), t, manifest, files)
    <3>1. "writeFiles" \in StepsOf(t.plan) /\ "loadManifest" \in StepsOf(t.plan)
      BY <2>2, <2>3
    <3>2. "removeFiles" \notin StepsOf(t.plan) /\ "extract" \notin StepsOf(t.plan)
      BY <2>2, <2>3
    <3>3. QED
      BY <3>1, <3>2 DEF DocFacts
  <2>5. StepsOf(t.plan) \cap (JobSteps \cup LateSteps \cup {"fetched", "writeAnswer"}) = {}
    BY <2>2, <2>3 DEF JobSteps, LateSteps
  <2>6. Head(t.plan) \notin Writers
    BY <2>2, <2>3 DEF Writers
  <2>7. QED
    BY <2>1, <2>2, <2>3, <2>4, <2>5, <2>6, BeginsKeeps
<1>2. CASE ProfileSaveTextDocument(o, d, pin)
  <2> DEFINE plan == SaveSteps(FALSE)
             t == [Idle EXCEPT !.plan = plan, !.scope = "profile", !.doc = d, !.pin = pin]
  <2>1. Begins(o, t)
    BY <1>2 DEF ProfileSaveTextDocument
  <2>2. /\ Good(plan) /\ plan # << >> /\ Head(plan) = "writeFiles"
        /\ StepsOf(plan) = {"writeFiles", "loadManifest", "addDocument"}
    BY SaveIsGood DEF IsPlan
  <2> HIDE DEF plan
  <2>3. /\ t.plan = plan /\ t.scope \in Scopes /\ t.failed = << >> /\ t.own = Blank
        /\ t.answers = << >> /\ DOMAIN Idle \subseteq DOMAIN t
    BY DEF Scopes
  <2> HIDE DEF t
  <2>4. DocFacts(StepsOf(t.plan), t, manifest, files)
    <3>1. "writeFiles" \in StepsOf(t.plan) /\ "loadManifest" \in StepsOf(t.plan)
      BY <2>2, <2>3
    <3>2. "removeFiles" \notin StepsOf(t.plan) /\ "extract" \notin StepsOf(t.plan)
      BY <2>2, <2>3
    <3>3. QED
      BY <3>1, <3>2 DEF DocFacts
  <2>5. StepsOf(t.plan) \cap (JobSteps \cup LateSteps \cup {"fetched", "writeAnswer"}) = {}
    BY <2>2, <2>3 DEF JobSteps, LateSteps
  <2>6. Head(t.plan) \notin Writers
    BY <2>2, <2>3 DEF Writers
  <2>7. QED
    BY <2>1, <2>2, <2>3, <2>4, <2>5, <2>6, BeginsKeeps
<1>3. CASE ProfileSetDocumentPinned(o, d, pin)
  <2> DEFINE plan == <<"loadManifest", "markDocument">>
             t == [Idle EXCEPT !.plan = plan, !.scope = "profile", !.doc = d, !.pin = pin]
  <2>1. Begins(o, t)
    BY <1>3 DEF ProfileSetDocumentPinned
  <2>2. IsPlan(plan, {"loadManifest", "markDocument"}, "loadManifest", "markDocument")
    BY TwoIsGood DEF Follows, Bars, StepNames, DocSteps, Writers, Loaders, JobSteps,
                     LateSteps
  <2> HIDE DEF plan
  <2>3. /\ t.plan = plan /\ t.scope \in Scopes /\ t.failed = << >> /\ t.own = Blank
        /\ t.answers = << >> /\ DOMAIN Idle \subseteq DOMAIN t
    BY DEF Scopes
  <2> HIDE DEF t
  <2>4. DocFacts(StepsOf(t.plan), t, manifest, files)
    <3>1. StepsOf(t.plan) = {"loadManifest", "markDocument"}
      BY <2>2, <2>3 DEF IsPlan
    <3>2. "loadManifest" \in StepsOf(t.plan) \cap {"loadManifest", "loadExisting"}
      BY <3>1
    <3>3. QED
      BY <3>1, <3>2 DEF DocFacts
  <2>5. StepsOf(t.plan) \cap (JobSteps \cup LateSteps \cup {"fetched", "writeAnswer"}) = {}
    BY <2>2, <2>3 DEF JobSteps, LateSteps, IsPlan
  <2>6. t.plan # << >> /\ Good(t.plan) /\ Head(t.plan) \notin Writers
    BY <2>2, <2>3 DEF Writers, IsPlan
  <2>7. QED
    BY <2>1, <2>3, <2>4, <2>5, <2>6, BeginsKeeps
<1>4. QED
  BY <1>1, <1>2, <1>3

LEMMA FileRequestKeeps ==
    ASSUME StoreInv, ~LateRequests, NEW o \in Requests, NEW d,
           UploadDocument(o, d) \/ DeleteDocument(o, d)
    PROVE  StoreInv'
<1> o \in Actors
  BY DEF Actors
<1> USE IdleFields
<1>1. CASE UploadDocument(o, d)
  <2> DEFINE plan == <<"writeFiles", "extract">> \o Tail(SaveSteps(FALSE))
             t == [Idle EXCEPT !.plan = plan, !.doc = d]
  <2>1. Begins(o, t) /\ Fresh(d)
    BY <1>1 DEF UploadDocument
  <2>2. IsPlan(plan, {"writeFiles", "extract", "loadManifest", "addDocument"},
               "writeFiles", "addDocument")
    BY UploadIsGood
  <2> HIDE DEF plan
  <2>3. /\ t.plan = plan /\ t.scope \in Scopes /\ t.failed = << >> /\ t.own = Blank
        /\ t.answers = << >> /\ DOMAIN Idle \subseteq DOMAIN t /\ t.doc = d
    OBVIOUS
  <2> HIDE DEF t
  <2>4. d \notin DOMAIN manifest[t.scope]
    BY <2>1, <2>3 DEF Fresh
  <2>5. DocFacts(StepsOf(t.plan), t, manifest, files)
    BY <2>2, <2>3, <2>4 DEF DocFacts, IsPlan
  <2>6. StepsOf(t.plan) \cap (JobSteps \cup LateSteps \cup {"fetched", "writeAnswer"}) = {}
    BY <2>2, <2>3 DEF JobSteps, LateSteps, IsPlan
  <2>7. t.plan # << >> /\ Good(t.plan) /\ Head(t.plan) \notin Writers
    BY <2>2, <2>3 DEF Writers, IsPlan
  <2>8. QED
    BY <2>1, <2>3, <2>5, <2>6, <2>7, BeginsKeeps
<1>2. CASE DeleteDocument(o, d)
  <2> DEFINE t == [Idle EXCEPT !.plan = DeleteSteps, !.doc = d]
  <2>1. Begins(o, t)
    BY <1>2 DEF DeleteDocument
  <2>2. /\ t.plan = DeleteSteps /\ t.scope \in Scopes /\ t.failed = << >>
        /\ t.own = Blank /\ t.answers = << >> /\ DOMAIN Idle \subseteq DOMAIN t
    OBVIOUS
  <2> HIDE DEF t
  <2>3. DocFacts(StepsOf(t.plan), t, manifest, files)
    BY <2>2, DeleteIsGood DEF DocFacts, IsPlan
  <2>4. StepsOf(t.plan) \cap (JobSteps \cup LateSteps \cup {"fetched", "writeAnswer"}) = {}
    BY <2>2, DeleteIsGood DEF JobSteps, LateSteps, IsPlan
  <2>5. t.plan # << >> /\ Good(t.plan) /\ Head(t.plan) \notin Writers
    BY <2>2, DeleteIsGood DEF Writers, IsPlan
  <2>6. QED
    BY <2>1, <2>2, <2>3, <2>4, <2>5, BeginsKeeps
<1>3. QED
  BY <1>1, <1>2

\* A plan without a step at a document needs nothing of the manifest.
LEMMA NoDocFacts ==
    ASSUME NEW R, R \cap DocSteps = {}, NEW t, NEW m, NEW f
    PROVE  DocFacts(R, t, m, f)
BY DEF DocFacts, DocSteps

LEMMA ProjectRequestKeeps ==
    ASSUME StoreInv, ~LateRequests, NEW o \in Requests, CreateProject(o) \/ DeleteProject(o)
    PROVE  StoreInv'
<1> o \in Actors
  BY DEF Actors
<1>1. PICK plan \in {CreateSteps, <<"removeProject">>} :
        Begins(o, [Idle EXCEPT !.plan = plan])
  BY DEF CreateProject, DeleteProject
<1> DEFINE t == [Idle EXCEPT !.plan = plan]
<1>2. Begins(o, t)
  BY <1>1
<1>3. /\ Good(plan) /\ plan # << >>
      /\ Head(plan) \in {"makeManifest", "removeProject"}
      /\ StepsOf(plan) \subseteq {"makeManifest", "makeRecord", "removeProject"}
  <2>1. IsPlan(CreateSteps, {"makeManifest", "makeRecord"}, "makeManifest", "makeRecord")
    BY TwoIsGood DEF CreateSteps, Follows, Bars, StepNames, DocSteps, Writers, Loaders,
                     JobSteps, LateSteps
  <2>2. IsPlan(<<"removeProject">>, {"removeProject"}, "removeProject", "removeProject")
    BY OneIsGood DEF StepNames
  <2>3. QED
    BY <1>1, <2>1, <2>2 DEF IsPlan
<1>4. /\ t.plan = plan /\ t.scope \in Scopes /\ t.failed = << >>
      /\ t.own = Blank /\ t.answers = << >> /\ DOMAIN Idle \subseteq DOMAIN t
  BY IdleFields
<1> HIDE DEF t
<1>5. DocFacts(StepsOf(t.plan), t, manifest, files)
  BY <1>3, <1>4, NoDocFacts DEF DocSteps
<1>6. StepsOf(t.plan) \cap (JobSteps \cup LateSteps \cup {"fetched", "writeAnswer"}) = {}
  BY <1>3, <1>4 DEF JobSteps, LateSteps
<1>7. Head(t.plan) \notin Writers
  BY <1>3, <1>4 DEF Writers
<1>8. QED
  BY <1>2, <1>3, <1>4, <1>5, <1>6, <1>7, IdleFields, BeginsKeeps

LEMMA SaveProjectKeeps ==
    ASSUME StoreInv, ~LateRequests, NEW o \in Requests, NEW edit, NEW list,
           SaveProject(o, edit, list)
    PROVE  StoreInv'
<1> o \in Actors
  BY DEF Actors
<1> DEFINE plan == <<"readInfo", "writeInfo">>
                     \o IF edit = "confirmed" THEN <<"loadRecord", "writeReasons">> ELSE << >>
           t == [Idle EXCEPT !.plan = plan, !.edit = edit, !.list = list]
<1>1. Begins(o, t)
  BY DEF SaveProject
<1>2. /\ Good(plan) /\ plan # << >> /\ Head(plan) = "readInfo"
      /\ StepsOf(plan) \subseteq {"readInfo", "writeInfo", "loadRecord", "writeReasons"}
  BY PatchIsGood
<1> HIDE DEF plan
<1>3. /\ t.plan = plan /\ t.scope \in Scopes /\ t.failed = << >>
      /\ t.own = Blank /\ t.answers = << >> /\ DOMAIN Idle \subseteq DOMAIN t
  BY IdleFields
<1> HIDE DEF t
<1>4. DocFacts(StepsOf(t.plan), t, manifest, files)
  BY <1>2, <1>3, NoDocFacts DEF DocSteps
<1>5. StepsOf(t.plan) \cap (JobSteps \cup LateSteps \cup {"fetched", "writeAnswer"}) = {}
  BY <1>2, <1>3 DEF JobSteps, LateSteps
<1>6. Head(t.plan) \notin Writers
  BY <1>2, <1>3 DEF Writers
<1>7. QED
  BY <1>1, <1>2, <1>3, <1>4, <1>5, <1>6, IdleFields, BeginsKeeps

LEMMA SaveEssayDraftKeeps ==
    ASSUME StoreInv, ~LateRequests, NEW o \in Requests, NEW i, SaveEssayDraft(o, i)
    PROVE  StoreInv'
<1> o \in Actors
  BY DEF Actors
<1> DEFINE plan == <<"readAnswer", "loadRecord", "writeAnswer">>
           text == record.questions[i]
           t == [Idle EXCEPT !.plan = plan, !.index = i, !.text = text]
<1>1. Begins(o, t) /\ i \in DOMAIN record.questions
  BY DEF SaveEssayDraft
<1>2. IsPlan(plan, {"readAnswer", "loadRecord", "writeAnswer"}, "readAnswer", "writeAnswer")
  BY ThreeIsGood DEF Follows, Bars, StepNames, DocSteps, Writers, Loaders, JobSteps, LateSteps
<1> HIDE DEF plan
<1>3. /\ t.plan = plan /\ t.scope \in Scopes /\ t.failed = << >>
      /\ t.own = Blank /\ t.answers = << >> /\ DOMAIN Idle \subseteq DOMAIN t
      /\ t.index = i /\ t.text = record.questions[i]
  BY IdleFields
<1> HIDE DEF t
<1>4. DocFacts(StepsOf(t.plan), t, manifest, files)
  BY <1>2, <1>3, NoDocFacts DEF DocSteps, IsPlan
<1>5. StepsOf(t.plan) \cap (JobSteps \cup LateSteps \cup {"fetched"}) = {}
  BY <1>2, <1>3 DEF JobSteps, LateSteps, IsPlan
<1>6. Good(t.plan) /\ t.plan # << >> /\ Head(t.plan) \notin Writers
  BY <1>2, <1>3 DEF Writers, IsPlan
<1>7. QED
  BY <1>1, <1>3, <1>4, <1>5, <1>6, IdleFields, BeginsKeeps

LEMMA JobBeginsKeeps ==
    ASSUME StoreInv, ~LateRequests, NEW o \in Jobs, AnalyzeInsights(o) \/ GenerateInsights(o)
    PROVE  StoreInv'
<1> o \in Actors /\ o \notin Requests
  BY StoreAssumption DEF Actors
<1>1. ASSUME NEW t, Begins(o, t), DOMAIN Idle \subseteq DOMAIN t, t.scope \in Scopes,
             t.failed \in Fallbacks, t.own = Blank, t.answers = << >>,
             \/ t.plan = <<"readInfo", "writeInfo", "await", "analyzed">>
             \/ t.plan = <<"readInfo", "writeInfo", "checkInputs">>
      PROVE  StoreInv'
  <2>1. IsPlan(<<"readInfo", "writeInfo", "await", "analyzed">>,
               {"readInfo", "writeInfo", "await", "analyzed"}, "readInfo", "analyzed")
    BY FourIsGood DEF Follows, Bars, StepNames, DocSteps, Writers, Loaders, JobSteps,
                      LateSteps
  <2>2. IsPlan(<<"readInfo", "writeInfo", "checkInputs">>,
               {"readInfo", "writeInfo", "checkInputs"}, "readInfo", "checkInputs")
    BY ThreeIsGood DEF Follows, Bars, StepNames, DocSteps, Writers, Loaders, JobSteps,
                       LateSteps
  <2>3. /\ Good(t.plan) /\ t.plan # << >> /\ Head(t.plan) = "readInfo"
        /\ StepsOf(t.plan)
             \subseteq {"readInfo", "writeInfo", "await", "analyzed", "checkInputs"}
    BY <1>1, <2>1, <2>2 DEF IsPlan
  <2>4. DocFacts(StepsOf(t.plan), t, manifest, files)
    BY <2>3, NoDocFacts DEF DocSteps
  <2>5. StepsOf(t.plan) \cap (LateSteps \cup {"fetched", "writeAnswer"}) = {}
    BY <2>3 DEF LateSteps
  <2>6. Head(t.plan) \notin Writers
    BY <2>3 DEF Writers
  <2>7. QED
    BY <1>1, <2>3, <2>4, <2>5, <2>6, BeginsKeeps
<1>2. CASE AnalyzeInsights(o)
  <2> DEFINE t == [Idle EXCEPT !.plan = <<"readInfo", "writeInfo", "await", "analyzed">>]
  <2>1. Begins(o, t)
    BY <1>2 DEF AnalyzeInsights
  <2>2. /\ t.plan = <<"readInfo", "writeInfo", "await", "analyzed">> /\ t.scope \in Scopes
        /\ t.failed \in Fallbacks /\ t.own = Blank /\ t.answers = << >>
        /\ DOMAIN Idle \subseteq DOMAIN t
    BY IdleFields
  <2> HIDE DEF t
  <2>3. QED
    BY <1>1, <2>1, <2>2
<1>3. CASE GenerateInsights(o)
  <2> DEFINE t == [Idle EXCEPT !.plan = <<"readInfo", "writeInfo", "checkInputs">>,
                               !.failed = <<"loadRecord", "writeError">>]
  <2>1. Begins(o, t)
    BY <1>3 DEF GenerateInsights
  <2>2. /\ t.plan = <<"readInfo", "writeInfo", "checkInputs">> /\ t.scope \in Scopes
        /\ t.failed = <<"loadRecord", "writeError">> /\ t.own = Blank
        /\ t.answers = << >> /\ DOMAIN Idle \subseteq DOMAIN t
    BY IdleFields
  <2> HIDE DEF t
  <2>3. t.failed \in Fallbacks
    BY <2>2 DEF Fallbacks
  <2>4. QED
    BY <1>1, <2>1, <2>2, <2>3
<1>4. QED
  BY <1>2, <1>3

LEMMA InitIsOK == Init => StoreInv
<1> SUFFICES ASSUME Init PROVE StoreInv
  OBVIOUS
<1>1. RecordOK(record)
  <2>1. PICK p \in {"url", "text"} : record = [Blank EXCEPT !.posting = p]
    BY DEF Init
  <2>2. QED
    BY <2>1 DEF RecordOK, Blank, Fit
<1>2. DiskOK(record, manifest, files)
  BY <1>1 DEF Init, DiskOK
<1>3. DOMAIN op = Actors /\ \A o \in Actors : op[o] = Idle
  BY DEF Init
<1>4. QED
  BY <1>2, <1>3, IdleIsOK DEF StoreInv

LEMMA CrashKeeps ==
    ASSUME StoreInv, Crash
    PROVE  StoreInv'
<1>1. /\ DOMAIN op' = Actors /\ \A o \in Actors : op'[o] = Idle
      /\ UNCHANGED <<record, manifest, files>>
  BY DEF Crash
<1>2. QED
  BY <1>1, IdleIsOK DEF StoreInv

\* Every step keeps the invariant.
LEMMA StoreStep == StoreInv /\ ~LateRequests /\ [Next]_vars => StoreInv'
<1> SUFFICES ASSUME StoreInv, ~LateRequests, [Next]_vars PROVE StoreInv'
  OBVIOUS
<1>1. CASE UNCHANGED vars
  BY <1>1 DEF vars, StoreInv
<1>2. ASSUME NEW o \in Requests, Request(o) PROVE StoreInv'
  BY <1>2, DocumentRequestKeeps, FileRequestKeeps, ProjectRequestKeeps, SaveProjectKeeps,
     SaveEssayDraftKeeps DEF Request
<1>3. ASSUME NEW o \in Actors, StorageStep(o) PROVE StoreInv'
  <2>1. CASE \/ MakeManifest(o) \/ MakeRecord(o) \/ WriteFiles(o) \/ Extract(o)
             \/ LoadManifest(o) \/ LoadExisting(o) \/ AddDocument(o) \/ MarkDocument(o)
             \/ DropDocument(o) \/ RemoveFiles(o)
    BY <2>1, MakeManifestKeeps, MakeRecordKeeps, WriteFilesKeeps, ExtractKeeps,
       LoadManifestKeeps, LoadExistingKeeps, AddDocumentKeeps, MarkDocumentKeeps,
       DropDocumentKeeps, RemoveFilesKeeps
  <2>2. CASE \/ LoadRecord(o) \/ MarkRecord(o) \/ RemoveProject(o) \/ ReadInfo(o)
             \/ UnpinNext(o) \/ WriteInfo(o) \/ WriteReasons(o) \/ ReadAnswer(o)
             \/ WriteAnswer(o)
    BY <2>2, LoadRecordKeeps, MarkRecordKeeps, RemoveProjectKeeps, ReadInfoKeeps,
       UnpinNextKeeps, WriteInfoKeeps, WriteReasonsKeeps, ReadAnswerKeeps, WriteAnswerKeeps
  <2>3. QED
    BY <1>3, <2>1, <2>2 DEF StorageStep
<1>4. ASSUME NEW o \in Actors, JobStep(o) PROVE StoreInv'
  BY <1>4, AwaitKeeps, AnalyzedKeeps, CheckInputsKeeps, FetchedKeeps, ConfidenceKeeps,
     CollectedKeeps, CompanyPhaseKeeps, SupportPhaseKeeps, FindGeneratedKeeps, JobEndKeeps
     DEF JobStep
<1>5. QED
  BY <1>1, <1>2, <1>3, <1>4, JobBeginsKeeps, CrashKeeps DEF Next

\* Whatever requests, jobs and crashes do to the documents of a project, every
\* plan finds what it needs when its turn comes.
THEOREM StoreIsSound == ASSUME ~LateRequests PROVE Spec => []StoreInv
<1>1. StoreInv /\ [Next]_vars => StoreInv'
  BY StoreStep
<1>2. QED
  BY <1>1, InitIsOK, PTL DEF Spec

\* What a manifest names is on the disk, wherever the runner ended: files are
\* written before the manifest and removed after it (persistDocument,
\* deleteDocument, the extraction of an uploaded file).
THEOREM FilesComeFirst == ASSUME ~LateRequests PROVE Spec => []DocumentsHaveFiles
<1>1. StoreInv => DocumentsHaveFiles
  BY DEF StoreInv, DiskOK, DocumentsHaveFiles, Readable
<1>2. QED
  BY <1>1, StoreIsSound, PTL

\* A completed answer stays with its question, whatever is edited, reordered,
\* completed or generated (updateProjectInfo, saveCompletedEssayAnswer).
THEOREM AnswersStay == ASSUME ~LateRequests PROVE Spec => []AnswerFollowsQuestion
<1>1. StoreInv => AnswerFollowsQuestion
  BY DEF StoreInv, DiskOK, RecordOK, Fit, AnswerFollowsQuestion
<1>2. QED
  BY <1>1, StoreIsSound, PTL

-----------------------------------------------------------------------------
(***************************************************************************)
(* What "ready" says, with one job at a time.  A job that has still to     *)
(* write its record as ready has generated the documents from the sources  *)
(* in it, and until a job has begun to generate them nothing calls the     *)
(* project ready.                                                          *)
(***************************************************************************)
OneJob == \A i, j \in Jobs : i = j

Before == {"collected", "companyPhase"}
After == {"supportPhase", "writeReady"}

ReadyInv ==
  /\ ReadyIsCurrent
  /\ \A o \in Actors :
       /\ StepsOf(op[o].plan) \cap After # {} => made = op[o].own.rev
       /\ StepsOf(op[o].plan) \cap Before # {} /\ record # NoFile => record.status # "ready"

\* The step calls no record ready that was not, and leaves the sources of one
\* that was.
NotMadeReady ==
  record' # NoFile /\ record'.status = "ready"
    => record # NoFile /\ record.status = "ready" /\ record'.rev = record.rev

\* A step with nothing new in its plan, as far as the invariant goes.
LEMMA CalmStep ==
    ASSUME StoreInv, ReadyInv, NEW o \in Actors, NEW n, Put(o, n),
           made' = made, NotMadeReady,
           StepsOf(n.plan) \cap (Before \cup After) \subseteq StepsOf(op[o].plan),
           StepsOf(n.plan) \cap After # {} => n.own.rev = op[o].own.rev
    PROVE  ReadyInv'
<1>1. \A p \in Actors : op'[p] = IF p # o THEN op[p] ELSE IF n.plan = << >> THEN Idle ELSE n
  BY DEF Put, StoreInv
<1>2. StepsOf(Idle.plan) = {}
  BY EmptyIsGood DEF Idle
<1>3. ReadyIsCurrent'
  BY DEF ReadyInv, ReadyIsCurrent, NotMadeReady
<1>4. ASSUME NEW p \in Actors
      PROVE  /\ StepsOf(op'[p].plan) \cap After # {} => made' = op'[p].own.rev
             /\ StepsOf(op'[p].plan) \cap Before # {} /\ record' # NoFile
                  => record'.status # "ready"
  <2>1. CASE p # o
    BY <1>1, <2>1 DEF ReadyInv, NotMadeReady
  <2>2. CASE p = o /\ n.plan = << >>
    BY <1>1, <1>2, <2>2
  <2>3. CASE p = o /\ n.plan # << >>
    <3>1. op'[p] = n
      BY <1>1, <2>3
    <3>2. QED
      BY <2>3, <3>1 DEF ReadyInv, NotMadeReady
  <2>4. QED
    BY <2>1, <2>2, <2>3
<1>5. QED
  BY <1>3, <1>4 DEF ReadyInv

\* A step that only goes on, with other copies in its hands.
LEMMA CalmRest ==
    ASSUME StoreInv, ~LateRequests, ReadyInv, NEW o \in Actors, NEW step, At(o, step),
           NEW n, Put(o, n), n.plan = Rest(o),
           n.own = op[o].own \/ StepsOf(n.plan) \cap After = {},
           made' = made, NotMadeReady
    PROVE  ReadyInv'
<1>1. StepsOf(n.plan) \subseteq StepsOf(op[o].plan)
  BY Moving
<1>2. QED
  BY <1>1, CalmStep

LEMMA CalmGoesOn ==
    ASSUME StoreInv, ~LateRequests, ReadyInv, NEW o \in Actors, NEW step, At(o, step),
           GoesOn(o), made' = made, NotMadeReady
    PROVE  ReadyInv'
<1> DEFINE n == [op[o] EXCEPT !.plan = Rest(o)]
<1>1. {"plan", "own"} \subseteq DOMAIN op[o]
  BY Moving DEF OpOK
<1>2. n.plan = Rest(o) /\ n.own = op[o].own /\ Put(o, n)
  BY <1>1 DEF GoesOn
<1> HIDE DEF n
<1>3. QED
  BY <1>2, CalmRest

\* A step that fails, or ends a job.
LEMMA CalmThrows ==
    ASSUME StoreInv, ~LateRequests, ReadyInv, NEW o \in Actors, NEW step, At(o, step),
           Throws(o), made' = made, NotMadeReady
    PROVE  ReadyInv'
<1> DEFINE n == [op[o] EXCEPT !.plan = op[o].failed, !.failed = << >>]
<1>1. {"plan", "own", "failed"} \subseteq DOMAIN op[o] /\ op[o].failed \in Fallbacks
  BY Moving DEF OpOK
<1>2. n.plan = op[o].failed /\ Put(o, n)
  BY <1>1 DEF Throws
<1> HIDE DEF n
<1>3. StepsOf(n.plan) \subseteq {"loadRecord", "writeError", "writeStale"}
  BY <1>1, <1>2 DEF Fallbacks, StepsOf
<1>4. StepsOf(n.plan) \cap (Before \cup After) = {}
  BY <1>3 DEF Before, After
<1>5. QED
  BY <1>2, <1>4, CalmStep

LEMMA CalmEnds ==
    ASSUME StoreInv, ReadyInv, NEW o \in Actors, Ends(o), made' = made, NotMadeReady
    PROVE  ReadyInv'
<1>1. Put(o, Idle) /\ StepsOf(Idle.plan) = {}
  BY EmptyIsGood DEF Ends, Idle
<1>2. QED
  BY <1>1, CalmStep

LEMMA CalmEndsWith ==
    ASSUME StoreInv, ReadyInv, NEW o \in Actors, NEW r, RecordOK(r), NEW st, st # "ready",
           EndsWith(o, r, st), made' = made
    PROVE  ReadyInv'
<1>1. Ends(o) /\ record' = [r EXCEPT !.status = st]
  BY DEF EndsWith
<1>2. record'.status = st
  BY <1>1 DEF RecordOK
<1>3. QED
  BY <1>1, <1>2, CalmEnds DEF NotMadeReady

\* A step that puts other steps before what it has still to do.
LEMMA CalmSteps ==
    ASSUME StoreInv, ~LateRequests, ReadyInv, NEW o \in Actors, NEW step, At(o, step),
           NEW n, Put(o, n), NEW first \in Seq(StepNames), NEW last \in {Rest(o), op[o].plan},
           n.plan = first \o last, StepsOf(first) \cap (Before \cup After) = {},
           n.own = op[o].own, made' = made, record' = record
    PROVE  ReadyInv'
<1>1. /\ StepsOf(op[o].plan) = {step} \cup StepsOf(Rest(o))
      /\ Good(Rest(o)) /\ OpOK(o, op[o])
  BY Moving
<1>2. last \in Seq(StepNames) /\ StepsOf(last) \subseteq StepsOf(op[o].plan)
  BY <1>1 DEF Good, OpOK
<1>3. StepsOf(n.plan) = StepsOf(first) \cup StepsOf(last)
  BY <1>2, JoinSteps
<1>4. StepsOf(n.plan) \cap (Before \cup After) \subseteq StepsOf(op[o].plan)
  BY <1>2, <1>3
<1>5. QED
  BY <1>4, CalmStep DEF NotMadeReady

LEMMA FilesReady ==
    ASSUME StoreInv, ~LateRequests, ReadyInv, NEW o \in Actors,
           \/ MakeManifest(o) \/ WriteFiles(o) \/ Extract(o) \/ LoadManifest(o)
           \/ LoadExisting(o) \/ AddDocument(o) \/ MarkDocument(o) \/ DropDocument(o)
           \/ RemoveFiles(o) \/ LoadRecord(o)
    PROVE  ReadyInv'
<1>1. made' = made /\ record' = record
  BY DEF MakeManifest, WriteFiles, Extract, LoadManifest, LoadExisting, AddDocument,
         MarkDocument, DropDocument, RemoveFiles, LoadRecord, history
<1>2. NotMadeReady
  BY <1>1 DEF NotMadeReady
<1>3. PICK step : At(o, step)
  BY DEF MakeManifest, WriteFiles, Extract, LoadManifest, LoadExisting, AddDocument,
         MarkDocument, DropDocument, RemoveFiles, LoadRecord
<1>4. CASE GoesOn(o)
  BY <1>1, <1>2, <1>3, <1>4, CalmGoesOn
<1>5. CASE Throws(o)
  BY <1>1, <1>2, <1>3, <1>5, CalmThrows
<1>6. {"plan", "own"} \subseteq DOMAIN op[o]
  BY <1>3, Moving DEF OpOK
<1>7. CASE Put(o, [op[o] EXCEPT !.plan = Rest(o), !.man = manifest[op[o].scope]])
  <2> DEFINE n == [op[o] EXCEPT !.plan = Rest(o), !.man = manifest[op[o].scope]]
  <2>1. n.plan = Rest(o) /\ n.own = op[o].own /\ Put(o, n)
    BY <1>6, <1>7
  <2> HIDE DEF n
  <2>2. QED
    BY <1>1, <1>2, <1>3, <2>1, CalmRest
<1>8. CASE Put(o, [op[o] EXCEPT !.plan = Rest(o), !.rec = record])
  <2> DEFINE n == [op[o] EXCEPT !.plan = Rest(o), !.rec = record]
  <2>1. n.plan = Rest(o) /\ n.own = op[o].own /\ Put(o, n)
    BY <1>6, <1>8
  <2> HIDE DEF n
  <2>2. QED
    BY <1>1, <1>2, <1>3, <2>1, CalmRest
<1>9. QED
  BY <1>4, <1>5, <1>7, <1>8 DEF MakeManifest, WriteFiles, Extract, LoadManifest,
     LoadExisting, AddDocument, MarkDocument, DropDocument, RemoveFiles, LoadRecord

\* The steps that write the record and change neither its status nor its
\* sources, or make a new one, or none.
LEMMA RecordReady ==
    ASSUME StoreInv, ~LateRequests, ReadyInv, NEW o \in Actors,
           \/ MakeRecord(o) \/ MarkRecord(o) \/ RemoveProject(o)
           \/ WriteReasons(o) \/ WriteAnswer(o)
    PROVE  ReadyInv'
<1>1. CASE MakeRecord(o)
  <2>1. At(o, "makeRecord") /\ GoesOn(o) /\ made' = made /\ record' = Blank
    BY <1>1 DEF MakeRecord, history
  <2>2. NotMadeReady
    BY <2>1 DEF NotMadeReady, Blank
  <2>3. QED
    BY <2>1, <2>2, CalmGoesOn
<1>2. CASE RemoveProject(o)
  <2>1. At(o, "removeProject") /\ GoesOn(o) /\ made' = made /\ record' = NoFile
    BY <1>2 DEF RemoveProject
  <2>2. NotMadeReady
    BY <2>1 DEF NotMadeReady
  <2>3. QED
    BY <2>1, <2>2, CalmGoesOn
<1>3. CASE MarkRecord(o)
  <2> DEFINE r == op[o].rec
             pins == IF op[o].pin THEN r.pinned \cup {op[o].doc} ELSE r.pinned \ {op[o].doc}
  <2>1. /\ At(o, "markRecord") /\ GoesOn(o) /\ made' = made
        /\ record' = [r EXCEPT !.pinned = pins]
    BY <1>3 DEF MarkRecord
  <2>2. record # NoFile /\ r = record /\ RecordOK(record)
    BY <2>1, WriterReads DEF Writers
  <2>3. NotMadeReady
    BY <2>1, <2>2 DEF NotMadeReady, RecordOK
  <2>4. QED
    BY <2>1, <2>3, CalmGoesOn
<1>4. CASE WriteReasons(o)
  <2>1. /\ At(o, "writeReasons") /\ GoesOn(o) /\ made' = made
        /\ record' = [op[o].rec EXCEPT !.low = FALSE]
    BY <1>4 DEF WriteReasons, history
  <2>2. record # NoFile /\ op[o].rec = record /\ RecordOK(record)
    BY <2>1, WriterReads DEF Writers
  <2>3. NotMadeReady
    BY <2>1, <2>2 DEF NotMadeReady, RecordOK
  <2>4. QED
    BY <2>1, <2>3, CalmGoesOn
<1>5. CASE WriteAnswer(o)
  <2>1. /\ At(o, "writeAnswer") /\ GoesOn(o) /\ made' = made
        /\ \E all : record' = [op[o].rec EXCEPT !.answers = all]
    BY <1>5 DEF WriteAnswer, history
  <2>2. record # NoFile /\ op[o].rec = record /\ RecordOK(record)
    BY <2>1, WriterReads DEF Writers
  <2>3. NotMadeReady
    BY <2>1, <2>2 DEF NotMadeReady, RecordOK
  <2>4. QED
    BY <2>1, <2>3, CalmGoesOn
<1>6. QED
  BY <1>1, <1>2, <1>3, <1>4, <1>5

\* updateProjectInfo and saveCompletedEssayAnswer up to their writes.
LEMMA PlanningReady ==
    ASSUME StoreInv, ~LateRequests, ReadyInv, NEW o \in Actors,
           ReadInfo(o) \/ UnpinNext(o) \/ ReadAnswer(o) \/ FindGenerated(o)
    PROVE  ReadyInv'
<1> DEFINE t == op[o]
<1>1. made' = made /\ record' = record
  BY DEF ReadInfo, UnpinNext, ReadAnswer, FindGenerated, history
<1>2. NotMadeReady
  BY <1>1 DEF NotMadeReady
<1>3. PICK step : At(o, step)
  BY DEF ReadInfo, UnpinNext, ReadAnswer, FindGenerated
<1>4. {"plan", "own"} \subseteq DOMAIN t
  BY <1>3, Moving DEF OpOK
<1>5. CASE Throws(o)
  BY <1>1, <1>2, <1>3, <1>5, CalmThrows
<1>6. CASE GoesOn(o)
  BY <1>1, <1>2, <1>3, <1>6, CalmGoesOn
<1>7. ASSUME NEW first, first \in {<< >>, RereadSteps, PinSteps, UpdateSteps, SaveSteps(TRUE)},
             NEW last \in {Rest(o), t.plan}, NEW n, Put(o, n), n.plan = first \o last,
             n.own = t.own
      PROVE  ReadyInv'
  <2>1. first \in Seq(StepNames) /\ StepsOf(first) \cap (Before \cup After) = {}
    <3>1. CASE first = << >>
      BY <3>1, EmptyIsGood DEF Good
    <3>2. CASE first = RereadSteps
      BY <3>2, RereadIsGood DEF IsPlan, Good, Before, After
    <3>3. CASE first = PinSteps
      BY <3>3, PinIsGood DEF IsPlan, Good, Before, After
    <3>4. CASE first = UpdateSteps
      BY <3>4, UpdateIsGood DEF IsPlan, Good, Before, After
    <3>5. CASE first = SaveSteps(TRUE)
      BY <3>5, SaveIsGood DEF IsPlan, Good, Before, After
    <3>6. QED
      BY <1>7, <3>1, <3>2, <3>3, <3>4, <3>5
  <2>2. QED
    BY <1>1, <1>3, <1>7, <2>1, CalmSteps
<1>8. CASE ReadInfo(o) /\ ~Throws(o)
  <2> DEFINE new == IF t.edit = "questions" THEN t.list ELSE record.questions
             gone == Removed(record.questions, new, record.answers)
             kept == Kept(record.questions, new, record.answers)
             first == IF gone = {} THEN << >> ELSE RereadSteps
             n == [t EXCEPT !.plan = first \o Rest(o), !.rec = record, !.list = new,
                            !.drop = gone, !.answers = kept]
  <2>1. Put(o, n)
    BY <1>8 DEF ReadInfo
  <2>2. first \in {<< >>, RereadSteps}
    OBVIOUS
  <2> HIDE DEF first, new, gone, kept
  <2>3. n.plan = first \o Rest(o) /\ n.own = t.own
    BY <1>4
  <2> HIDE DEF n
  <2>4. QED
    BY <1>7, <2>1, <2>2, <2>3
<1>9. CASE UnpinNext(o) /\ ~GoesOn(o)
  <2>1. PICK d : Put(o, [t EXCEPT !.plan = PinSteps \o @, !.doc = d, !.pin = FALSE,
                                  !.drop = @ \ {d}])
    BY <1>9 DEF UnpinNext
  <2> DEFINE plan == PinSteps \o t.plan
             n == [t EXCEPT !.plan = plan, !.doc = d, !.pin = FALSE, !.drop = @ \ {d}]
  <2>2. Put(o, n)
    BY <2>1
  <2> HIDE DEF plan
  <2>3. n.plan = plan /\ n.own = t.own
    BY <1>4
  <2> HIDE DEF n
  <2>4. n.plan = PinSteps \o t.plan
    BY <2>3 DEF plan
  <2>5. QED
    BY <1>7, <2>2, <2>3, <2>4
<1>10. CASE ReadAnswer(o) /\ ~Throws(o)
  <2>1. ASSUME t.index \in DOMAIN record.answers PROVE ReadyInv'
    <3> DEFINE d == record.answers[t.index].doc
               plan == UpdateSteps \o Rest(o)
               n == [t EXCEPT !.plan = plan, !.pin = TRUE, !.doc = d]
    <3>1. Put(o, n)
      BY <1>10, <2>1 DEF ReadAnswer
    <3>2. n.plan = plan /\ n.own = t.own
      BY <1>4
    <3> HIDE DEF n
    <3>3. QED
      BY <1>7, <3>1, <3>2
  <2>2. ASSUME t.index \notin DOMAIN record.answers PROVE ReadyInv'
    <3>1. PICK d \in Docs :
            Put(o, [t EXCEPT !.plan = SaveSteps(TRUE) \o Rest(o), !.pin = TRUE,
                             !.doc = d, !.title = "answer"])
      BY <1>10, <2>2 DEF ReadAnswer
    <3> DEFINE plan == SaveSteps(TRUE) \o Rest(o)
               n == [t EXCEPT !.plan = plan, !.pin = TRUE, !.doc = d, !.title = "answer"]
    <3>2. Put(o, n)
      BY <3>1
    <3>3. n.plan = plan /\ n.own = t.own
      BY <1>4
    <3> HIDE DEF n
    <3>4. QED
      BY <1>7, <3>2, <3>3
  <2>3. QED
    BY <2>1, <2>2
<1>11. CASE FindGenerated(o)
  <2>1. \E d, first : /\ first \in {UpdateSteps, SaveSteps(TRUE)}
                      /\ Put(o, [t EXCEPT !.plan = first \o Rest(o), !.doc = d])
    BY <1>11 DEF FindGenerated
  <2>2. PICK d, first : /\ first \in {UpdateSteps, SaveSteps(TRUE)}
                        /\ Put(o, [t EXCEPT !.plan = first \o Rest(o), !.doc = d])
    BY <2>1
  <2> DEFINE plan == first \o Rest(o)
             n == [t EXCEPT !.plan = plan, !.doc = d]
  <2>3. Put(o, n)
    BY <2>2
  <2>4. n.plan = plan /\ n.own = t.own
    BY <1>4
  <2> HIDE DEF n
  <2>5. QED
    BY <1>7, <2>2, <2>3, <2>4
<1>12. QED
  BY <1>5, <1>6, <1>8, <1>9, <1>10, <1>11

\* A change of the sources takes "ready" away.
LEMMA WriteInfoReady ==
    ASSUME StoreInv, ~LateRequests, ReadyInv, NEW o \in Actors, WriteInfo(o)
    PROVE  ReadyInv'
<1> DEFINE t == op[o]
           r == t.rec
           rev == IF SourceChanged(o) THEN edits + 1 ELSE r.rev
           dart == CASE t.edit = "skip" -> "skipped"
                     [] t.edit = "pick" -> "picked"
                     [] OTHER -> r.dart
           st == NextStatus(o, r)
           n == [t EXCEPT !.plan = Rest(o), !.own = record']
<1>1. At(o, "writeInfo") /\ made' = made
  BY DEF WriteInfo
<1>2. /\ record' = [r EXCEPT !.questions = t.list, !.answers = t.answers, !.rev = rev,
                             !.dart = dart, !.status = st]
      /\ Put(o, n)
  BY DEF WriteInfo
<1>3. record # NoFile /\ r = record /\ RecordOK(record)
  BY <1>1, WriterReads DEF Writers
<1>4. {"plan", "own"} \subseteq DOMAIN t /\ \A b \in StepsOf(Rest(o)) : ~Bars("writeInfo", b)
  BY <1>1, Moving DEF OpOK
<1>5. st = "ready" => r.status = "ready" /\ rev = r.rev
  BY <1>3 DEF NextStatus, RecordOK
<1> HIDE DEF st, rev, dart
<1>6. record'.status = st /\ record'.rev = rev
  BY <1>2, <1>3 DEF RecordOK
<1>7. NotMadeReady
  BY <1>3, <1>5, <1>6 DEF NotMadeReady
<1>8. n.plan = Rest(o)
  BY <1>4
<1> HIDE DEF n
<1>9. StepsOf(n.plan) \cap After = {}
  BY <1>4, <1>8 DEF Bars, After, LateSteps
<1>10. QED
  BY <1>1, <1>2, <1>7, <1>8, <1>9, CalmRest

-----------------------------------------------------------------------------
(***************************************************************************)
(* The steps of a job.                                                     *)
(***************************************************************************)
\* A step that leaves a record that is not ready.
LEMMA UnreadyStep ==
    ASSUME StoreInv, ReadyInv, NEW o \in Actors, NEW n, Put(o, n), made' = made,
           StepsOf(n.plan) \cap After = {}, record' # NoFile => record'.status # "ready"
    PROVE  ReadyInv'
<1>1. \A p \in Actors : op'[p] = IF p # o THEN op[p] ELSE IF n.plan = << >> THEN Idle ELSE n
  BY DEF Put, StoreInv
<1>2. StepsOf(Idle.plan) = {}
  BY EmptyIsGood DEF Idle
<1>3. \A p \in Actors : StepsOf(op'[p].plan) \cap After # {} => made' = op'[p].own.rev
  BY <1>1, <1>2 DEF ReadyInv
<1>4. QED
  BY <1>3 DEF ReadyInv, ReadyIsCurrent

\* A job that goes on with a plan of its own.
LEMMA CalmJob ==
    ASSUME StoreInv, ReadyInv, NEW o \in Actors, NEW n, Put(o, n),
           StepsOf(n.plan) \cap (Before \cup After) = {}, made' = made, NotMadeReady
    PROVE  ReadyInv'
BY CalmStep

LEMMA EarlyReady ==
    ASSUME StoreInv, ~LateRequests, ReadyInv, NEW o \in Actors,
           Await(o) \/ Analyzed(o) \/ CheckInputs(o) \/ Fetched(o)
    PROVE  ReadyInv'
<1> DEFINE t == op[o]
<1>1. CASE Await(o)
  <2>1. At(o, "await") /\ GoesOn(o) /\ made' = made /\ record' = record
    BY <1>1 DEF Await, history
  <2>2. QED
    BY <2>1, CalmGoesOn DEF NotMadeReady
<1>2. CASE Analyzed(o)
  <2> DEFINE e == Extracted(t.own)
             w(low) == [e EXCEPT !.low = low,
                                 !.dart = IF @ = "candidates" THEN "open" ELSE @]
  <2>1. At(o, "analyzed") /\ made' = made
    BY <1>2 DEF Analyzed
  <2>2. RecordOK(t.own)
    BY <2>1, JobMoves
  <2>3. "status" \in DOMAIN e
    BY <2>2 DEF RecordOK, Extracted
  <2>4. Ends(o) /\ record'.status = "reviewNeeded"
    <3>1. ASSUME NEW low \in BOOLEAN, EndsWith(o, w(low), "reviewNeeded")
          PROVE  Ends(o) /\ record'.status = "reviewNeeded"
      <4> HIDE DEF e
      <4>1. record' = [w(low) EXCEPT !.status = "reviewNeeded"] /\ Ends(o)
        BY <3>1 DEF EndsWith
      <4>2. QED
        BY <2>3, <4>1
    <3>2. CASE EndsWith(o, t.own, "reviewNeeded")
      BY <2>2, <3>2 DEF EndsWith, RecordOK
    <3>3. QED
      BY <1>2, <3>1, <3>2 DEF Analyzed
  <2>5. QED
    BY <2>1, <2>4, CalmEnds DEF NotMadeReady
<1>3. CASE CheckInputs(o)
  <2>1. At(o, "checkInputs") /\ made' = made /\ record' = record
    BY <1>3 DEF CheckInputs, history
  <2>2. NotMadeReady
    BY <2>1 DEF NotMadeReady
  <2>3. "plan" \in DOMAIN t /\ "own" \in DOMAIN t
    BY <2>1, Moving DEF OpOK
  <2>4. CASE Throws(o)
    BY <2>1, <2>2, <2>4, CalmThrows
  <2>5. CASE ~Throws(o)
    <3>1. PICK first \in {<<"await", "fetched">>, <<"confidence">>} :
            Put(o, [t EXCEPT !.plan = first \o Rest(o)])
      BY <1>3, <2>5 DEF CheckInputs, Expands
    <3>2. first \in Seq(StepNames) /\ StepsOf(first) \cap (Before \cup After) = {}
      BY JobPlans DEF IsPlan, Good, Before, After
    <3> DEFINE plan == first \o Rest(o)
               n == [t EXCEPT !.plan = plan]
    <3>3. Put(o, n)
      BY <3>1
    <3>4. n.plan = plan /\ n.own = t.own
      BY <2>3
    <3> HIDE DEF n
    <3>5. QED
      BY <2>1, <3>2, <3>3, <3>4, CalmSteps
  <2>6. QED
    BY <2>4, <2>5
<1>4. CASE Fetched(o)
  <2>1. At(o, "fetched") /\ made' = made
    BY <1>4 DEF Fetched
  <2>2. RecordOK(t.own) /\ t.own.posting = "url" /\ OpOK(o, t)
    BY <2>1, JobMoves
  <2>3. CASE EndsWith(o, t.own, "reviewNeeded")
    BY <2>1, <2>2, <2>3, CalmEndsWith
  <2>4. CASE /\ record' = Extracted(t.own)
             /\ Put(o, [t EXCEPT !.plan = <<"confidence">>, !.own = record'])
    <3> DEFINE n == [t EXCEPT !.plan = <<"confidence">>, !.own = record']
    <3>1. Put(o, n)
      BY <2>4
    <3>2. n.plan = <<"confidence">>
      BY <2>2 DEF OpOK
    <3> HIDE DEF n
    <3>3. StepsOf(n.plan) \cap (Before \cup After) = {}
      BY <3>2, JobPlans DEF IsPlan, Before, After
    <3>4. record'.status # "ready"
      BY <2>2, <2>4 DEF Extracted, RecordOK
    <3>5. QED
      BY <2>1, <3>1, <3>3, <3>4, CalmJob DEF NotMadeReady
  <2>5. QED
    BY <1>4, <2>3, <2>4 DEF Fetched
<1>5. QED
  BY <1>1, <1>2, <1>3, <1>4

LEMMA ConfidenceReady ==
    ASSUME StoreInv, ~LateRequests, ReadyInv, NEW o \in Actors, Confidence(o)
    PROVE  ReadyInv'
<1> DEFINE t == op[o]
           n == [t EXCEPT !.plan = <<"await", "collected">>, !.own = record']
<1>1. At(o, "confidence") /\ made' = made
  BY DEF Confidence, history
<1>2. RecordOK(t.own) /\ OpOK(o, t)
  BY <1>1, JobMoves
<1>3. CASE t.own.low
  BY <1>1, <1>2, <1>3, CalmEndsWith DEF Confidence
<1>4. CASE ~t.own.low
  <2>1. Put(o, n) /\ record' = [t.own EXCEPT !.status = "generating"]
    BY <1>4 DEF Confidence
  <2>2. record'.status = "generating"
    BY <1>2, <2>1 DEF RecordOK
  <2>3. n.plan = <<"await", "collected">>
    BY <1>2 DEF OpOK
  <2> HIDE DEF n
  <2>4. StepsOf(n.plan) = {"await", "collected"}
    BY <2>3, JobPlans DEF IsPlan
  <2>5. QED
    BY <1>1, <2>1, <2>2, <2>4, UnreadyStep DEF After
<1>5. QED
  BY <1>3, <1>4

LEMMA CollectedReady ==
    ASSUME StoreInv, ~LateRequests, ReadyInv, NEW o \in Actors, Collected(o)
    PROVE  ReadyInv'
<1> DEFINE t == op[o]
           next == <<"await", "companyPhase">>
           several == [t.own EXCEPT !.dart = "candidates"]
<1>1. At(o, "collected") /\ made' = made
  BY DEF Collected, history
<1>2. RecordOK(t.own) /\ OpOK(o, t) /\ t.own.status = "generating"
  BY <1>1, JobMoves
<1>3. "collected" \in StepsOf(t.plan)
  BY <1>1, Moving
<1>4. StepsOf(next) = {"await", "companyPhase"}
  BY JobPlans DEF IsPlan
<1>5. record # NoFile => record.status # "ready"
  BY <1>3 DEF ReadyInv, Before
<1>6. CASE EndsWith(o, several, "reviewNeeded")
  <2>1. RecordOK(several)
    BY <1>2 DEF RecordOK, Fit
  <2>2. QED
    BY <1>1, <1>6, <2>1, CalmEndsWith
<1>7. ASSUME NEW n, Put(o, n), n.plan = next, record' # NoFile => record'.status # "ready"
      PROVE  ReadyInv'
  BY <1>1, <1>4, <1>7, UnreadyStep DEF After
<1>8. CASE /\ record' = [t.own EXCEPT !.dart = "picked"]
           /\ Put(o, [t EXCEPT !.plan = next, !.own = record'])
  <2> DEFINE n == [t EXCEPT !.plan = next, !.own = record']
  <2>1. n.plan = next
    BY <1>2 DEF OpOK
  <2>2. record'.status = "generating" /\ Put(o, n)
    BY <1>2, <1>8 DEF RecordOK
  <2> HIDE DEF n, next
  <2>3. QED
    BY <1>7, <2>1, <2>2
<1>9. CASE Put(o, [t EXCEPT !.plan = next]) /\ UNCHANGED record
  <2> DEFINE n == [t EXCEPT !.plan = next]
  <2>1. n.plan = next
    BY <1>2 DEF OpOK
  <2>2. Put(o, n)
    BY <1>9
  <2> HIDE DEF n, next
  <2>3. QED
    BY <1>5, <1>7, <1>9, <2>1, <2>2
<1>10. QED
  BY <1>6, <1>8, <1>9 DEF Collected

\* Only one actor has steps of a job.
LEMMA OthersAreRequests ==
    ASSUME StoreInv, OneJob, NEW o \in Jobs, NEW p \in Actors \ {o}
    PROVE  StepsOf(op[p].plan) \cap (Before \cup After) = {}
<1>1. p \in Requests
  BY DEF OneJob, Actors
<1>2. StepsOf(op[p].plan) \cap JobSteps = {}
  BY <1>1 DEF StoreInv, TaskOK, OpOK
<1>3. QED
  BY <1>2 DEF JobSteps, LateSteps, Before, After

\* The documents of the company are generated from the sources the job holds.
LEMMA CompanyPhaseReady ==
    ASSUME StoreInv, ~LateRequests, OneJob, ReadyInv, NEW o \in Actors, CompanyPhase(o)
    PROVE  ReadyInv'
<1> DEFINE t == op[o]
           n == [t EXCEPT !.plan = <<"findGenerated", "await", "supportPhase">>,
                          !.title = "company", !.pin = TRUE]
<1>1. At(o, "companyPhase")
  BY DEF CompanyPhase
<1>2. RecordOK(t.own) /\ OpOK(o, t) /\ o \in Jobs
  BY <1>1, JobMoves DEF JobSteps, LateSteps, Actors
<1>3. CASE EndsWith(o, t.own, "error") /\ UNCHANGED made
  BY <1>2, <1>3, CalmEndsWith
<1>4. CASE Put(o, n) /\ made' = t.own.rev /\ UNCHANGED record
  <2>1. /\ n.own = t.own
        /\ n.plan = <<"findGenerated", "await", "supportPhase">>
    BY <1>2 DEF OpOK
  <2>2. Put(o, n)
    BY <1>4
  <2> HIDE DEF n
  <2>3. StepsOf(n.plan) = {"findGenerated", "await", "supportPhase"} /\ n.plan # << >>
    BY <2>1, JobPlans DEF IsPlan
  <2>4. op'[o] = n /\ \A p \in Actors \ {o} : op'[p] = op[p]
    BY <2>2, <2>3 DEF Put, StoreInv
  <2>5. record # NoFile => record.status # "ready"
    <3>1. "companyPhase" \in StepsOf(t.plan)
      BY <1>1, Moving
    <3>2. QED
      BY <3>1 DEF ReadyInv, Before
  <2>6. \A p \in Actors \ {o} : StepsOf(op'[p].plan) \cap (Before \cup After) = {}
    BY <1>2, <2>4, OthersAreRequests
  <2>7. StepsOf(op'[o].plan) \cap Before = {} /\ made' = op'[o].own.rev
    BY <1>4, <2>1, <2>3, <2>4 DEF Before
  <2>8. ReadyIsCurrent'
    BY <1>4, <2>5 DEF ReadyIsCurrent
  <2>9. QED
    BY <2>6, <2>7, <2>8 DEF ReadyInv
<1>5. QED
  BY <1>3, <1>4 DEF CompanyPhase

LEMMA SupportPhaseReady ==
    ASSUME StoreInv, ~LateRequests, ReadyInv, NEW o \in Actors, SupportPhase(o)
    PROVE  ReadyInv'
<1> DEFINE t == op[o]
           n == [t EXCEPT !.plan = <<"findGenerated", "writeReady">>,
                          !.title = "supporting", !.pin = TRUE, !.failed = <<"writeStale">>]
<1>1. At(o, "supportPhase") /\ made' = made
  BY DEF SupportPhase, history
<1>2. RecordOK(t.own) /\ OpOK(o, t) /\ "supportPhase" \in StepsOf(t.plan)
  BY <1>1, JobMoves, Moving
<1>3. CASE EndsWith(o, t.own, "error")
  BY <1>1, <1>2, <1>3, CalmEndsWith
<1>4. CASE Put(o, n) /\ UNCHANGED record
  <2>1. /\ n.own = t.own
        /\ n.plan = <<"findGenerated", "writeReady">>
    BY <1>2 DEF OpOK
  <2>2. Put(o, n)
    BY <1>4
  <2> HIDE DEF n
  <2>3. StepsOf(n.plan) = {"findGenerated", "writeReady"} /\ n.plan # << >>
    BY <2>1, JobPlans DEF IsPlan
  <2>4. op'[o] = n /\ \A p \in Actors \ {o} : op'[p] = op[p]
    BY <2>2, <2>3 DEF Put, StoreInv
  <2>5. made = t.own.rev
    BY <1>2 DEF ReadyInv, After
  <2>6. \A p \in Actors :
          /\ StepsOf(op'[p].plan) \cap After # {} => made' = op'[p].own.rev
          /\ StepsOf(op'[p].plan) \cap Before # {} /\ record' # NoFile
               => record'.status # "ready"
    <3>1. ASSUME NEW p \in Actors \ {o}
          PROVE  /\ StepsOf(op'[p].plan) \cap After # {} => made' = op'[p].own.rev
                 /\ StepsOf(op'[p].plan) \cap Before # {} /\ record' # NoFile
                      => record'.status # "ready"
      BY <1>1, <1>4, <2>4 DEF ReadyInv
    <3>2. StepsOf(op'[o].plan) \cap Before = {} /\ made' = op'[o].own.rev
      BY <1>1, <2>1, <2>3, <2>4, <2>5 DEF Before
    <3>3. QED
      BY <3>1, <3>2
  <2>7. ReadyIsCurrent'
    BY <1>1, <1>4 DEF ReadyInv, ReadyIsCurrent
  <2>8. QED
    BY <2>6, <2>7 DEF ReadyInv
<1>5. QED
  BY <1>3, <1>4 DEF SupportPhase

\* Ready is written with the sources the documents were generated from.
LEMMA WriteReadyReady ==
    ASSUME StoreInv, ~LateRequests, OneJob, ReadyInv, NEW o \in Actors, WriteReady(o)
    PROVE  ReadyInv'
<1> DEFINE own == op[o].own
           w == [own EXCEPT !.generated = TRUE]
<1>1. At(o, "writeReady") /\ made' = made /\ EndsWith(o, w, "ready")
  BY DEF WriteReady, history
<1>2. RecordOK(own) /\ o \in Jobs /\ "writeReady" \in StepsOf(op[o].plan)
  BY <1>1, JobMoves, Moving DEF JobSteps, LateSteps, Actors
<1>3. made = own.rev
  BY <1>2 DEF ReadyInv, After
<1>4. record' = [w EXCEPT !.status = "ready"] /\ Ends(o)
  BY <1>1 DEF EndsWith
<1>5. record'.rev = own.rev
  BY <1>2, <1>4 DEF RecordOK
<1>6. ReadyIsCurrent'
  BY <1>1, <1>3, <1>5 DEF ReadyIsCurrent
<1>7. Idle.plan = << >> /\ StepsOf(Idle.plan) = {}
  BY EmptyIsGood DEF Idle
<1>8. op'[o] = Idle /\ \A p \in Actors \ {o} : op'[p] = op[p]
  BY <1>4, <1>7 DEF Ends, Put, StoreInv
<1>9. \A p \in Actors : StepsOf(op'[p].plan) \cap (Before \cup After) = {}
  BY <1>2, <1>7, <1>8, OthersAreRequests
<1>10. QED
  BY <1>6, <1>9 DEF ReadyInv

LEMMA FailedReady ==
    ASSUME StoreInv, ~LateRequests, ReadyInv, NEW o \in Actors,
           WriteStale(o) \/ WriteError(o)
    PROVE  ReadyInv'
<1>1. CASE WriteStale(o)
  <2>1. At(o, "writeStale") /\ EndsWith(o, op[o].own, "error") /\ made' = made
    BY <1>1 DEF WriteStale, history
  <2>2. RecordOK(op[o].own)
    BY <2>1, JobMoves
  <2>3. QED
    BY <2>1, <2>2, CalmEndsWith
<1>2. CASE WriteError(o)
  <2>1. At(o, "writeError") /\ EndsWith(o, op[o].rec, "error") /\ made' = made
    BY <1>2 DEF WriteError, history
  <2>2. RecordOK(op[o].rec)
    BY <2>1, WriterReads DEF Writers
  <2>3. QED
    BY <2>1, <2>2, CalmEndsWith
<1>3. QED
  BY <1>1, <1>2

\* Who begins has nothing of a job behind him.
LEMMA BeginsReady ==
    ASSUME StoreInv, StoreInv', ReadyInv, NEW o \in Actors, NEW t, Begins(o, t),
           t.own = Blank
    PROVE  ReadyInv'
<1>1. UNCHANGED <<record, made>> /\ op' = [op EXCEPT ![o] = t]
  BY DEF Begins
<1>2. \A p \in Actors : op'[p] = IF p = o THEN t ELSE op[p]
  BY <1>1 DEF StoreInv
<1>3. JobOK(StepsOf(t.plan), Blank)
  BY <1>2 DEF StoreInv, TaskOK, OpOK
<1>4. Blank.posting = "url"
  BY DEF Blank
<1>5. StepsOf(t.plan) \cap (Before \cup After) = {}
  BY <1>3, <1>4 DEF JobOK, LateSteps, Before, After
<1>6. QED
  BY <1>1, <1>2, <1>5 DEF ReadyInv, ReadyIsCurrent

LEMMA RequestReady ==
    ASSUME StoreInv, StoreInv', ReadyInv, NEW o \in Requests, Request(o)
    PROVE  ReadyInv'
<1> o \in Actors /\ Idle.own = Blank /\ "own" \in DOMAIN Idle
  BY DEF Actors, Idle
<1>1. ASSUME CreateProject(o) PROVE ReadyInv'
  <2> DEFINE plan == CreateSteps
             t == [Idle EXCEPT !.plan = plan]
  <2>1. Begins(o, t)
    BY <1>1 DEF CreateProject
  <2> HIDE DEF plan
  <2>2. t.own = Blank
    OBVIOUS
  <2> HIDE DEF t
  <2>3. QED
    BY <2>1, <2>2, BeginsReady
<1>2. ASSUME DeleteProject(o) PROVE ReadyInv'
  <2> DEFINE plan == <<"removeProject">>
             t == [Idle EXCEPT !.plan = plan]
  <2>1. Begins(o, t)
    BY <1>2 DEF DeleteProject
  <2> HIDE DEF plan
  <2>2. t.own = Blank
    OBVIOUS
  <2> HIDE DEF t
  <2>3. QED
    BY <2>1, <2>2, BeginsReady
<1>3. ASSUME NEW d, NEW pin, SaveDocument(o, d, pin) PROVE ReadyInv'
  <2> DEFINE plan == SaveSteps(pin)
             t == [Idle EXCEPT !.plan = plan, !.doc = d, !.pin = pin]
  <2>1. Begins(o, t)
    BY <1>3 DEF SaveDocument
  <2> HIDE DEF plan
  <2>2. t.own = Blank
    OBVIOUS
  <2> HIDE DEF t
  <2>3. QED
    BY <2>1, <2>2, BeginsReady
<1>4. ASSUME NEW d, NEW pin, ProfileSaveTextDocument(o, d, pin) PROVE ReadyInv'
  <2> DEFINE plan == SaveSteps(FALSE)
             t == [Idle EXCEPT !.plan = plan, !.scope = "profile", !.doc = d,
                         !.pin = pin]
  <2>1. Begins(o, t)
    BY <1>4 DEF ProfileSaveTextDocument
  <2> HIDE DEF plan
  <2>2. t.own = Blank
    OBVIOUS
  <2> HIDE DEF t
  <2>3. QED
    BY <2>1, <2>2, BeginsReady
<1>5. ASSUME NEW d, NEW pin, ProfileSetDocumentPinned(o, d, pin) PROVE ReadyInv'
  <2> DEFINE plan == <<"loadManifest", "markDocument">>
             t == [Idle EXCEPT !.plan = plan, !.scope = "profile", !.doc = d,
                         !.pin = pin]
  <2>1. Begins(o, t)
    BY <1>5 DEF ProfileSetDocumentPinned
  <2> HIDE DEF plan
  <2>2. t.own = Blank
    OBVIOUS
  <2> HIDE DEF t
  <2>3. QED
    BY <2>1, <2>2, BeginsReady
<1>6. ASSUME NEW d, UploadDocument(o, d) PROVE ReadyInv'
  <2> DEFINE plan == <<"writeFiles", "extract">> \o Tail(SaveSteps(FALSE))
             t == [Idle EXCEPT !.plan = plan, !.doc = d]
  <2>1. Begins(o, t)
    BY <1>6 DEF UploadDocument
  <2> HIDE DEF plan
  <2>2. t.own = Blank
    OBVIOUS
  <2> HIDE DEF t
  <2>3. QED
    BY <2>1, <2>2, BeginsReady
<1>7. ASSUME NEW d, DeleteDocument(o, d) PROVE ReadyInv'
  <2> DEFINE plan == DeleteSteps
             t == [Idle EXCEPT !.plan = plan, !.doc = d]
  <2>1. Begins(o, t)
    BY <1>7 DEF DeleteDocument
  <2> HIDE DEF plan
  <2>2. t.own = Blank
    OBVIOUS
  <2> HIDE DEF t
  <2>3. QED
    BY <2>1, <2>2, BeginsReady
<1>8. ASSUME NEW edit, NEW list, SaveProject(o, edit, list) PROVE ReadyInv'
  <2> DEFINE plan == <<"readInfo", "writeInfo">>
                       \o IF edit = "confirmed" THEN <<"loadRecord", "writeReasons">>
                                              ELSE << >>
             t == [Idle EXCEPT !.plan = plan, !.edit = edit, !.list = list]
  <2>1. Begins(o, t)
    BY <1>8 DEF SaveProject
  <2> HIDE DEF plan
  <2>2. t.own = Blank
    OBVIOUS
  <2> HIDE DEF t
  <2>3. QED
    BY <2>1, <2>2, BeginsReady
<1>9. ASSUME NEW i, SaveEssayDraft(o, i) PROVE ReadyInv'
  <2> DEFINE plan == <<"readAnswer", "loadRecord", "writeAnswer">>
             t == [Idle EXCEPT !.plan = plan, !.index = i,
                         !.text = record.questions[i]]
  <2>1. Begins(o, t)
    BY <1>9 DEF SaveEssayDraft
  <2> HIDE DEF plan
  <2>2. t.own = Blank
    OBVIOUS
  <2> HIDE DEF t
  <2>3. QED
    BY <2>1, <2>2, BeginsReady
<1>10. QED
  BY <1>1, <1>2, <1>3, <1>4, <1>5, <1>6, <1>7, <1>8, <1>9 DEF Request

LEMMA JobBeginsReady ==
    ASSUME StoreInv, StoreInv', ReadyInv, NEW o \in Jobs,
           AnalyzeInsights(o) \/ GenerateInsights(o)
    PROVE  ReadyInv'
<1> o \in Actors /\ Idle.own = Blank /\ "own" \in DOMAIN Idle
  BY DEF Actors, Idle
<1>1. ASSUME AnalyzeInsights(o) PROVE ReadyInv'
  <2> DEFINE plan == <<"readInfo", "writeInfo", "await", "analyzed">>
             t == [Idle EXCEPT !.plan = plan]
  <2>1. Begins(o, t)
    BY <1>1 DEF AnalyzeInsights
  <2> HIDE DEF plan
  <2>2. t.own = Blank
    OBVIOUS
  <2> HIDE DEF t
  <2>3. QED
    BY <2>1, <2>2, BeginsReady
<1>2. ASSUME GenerateInsights(o) PROVE ReadyInv'
  <2> DEFINE plan == <<"readInfo", "writeInfo", "checkInputs">>
             t == [Idle EXCEPT !.plan = plan,
                         !.failed = <<"loadRecord", "writeError">>]
  <2>1. Begins(o, t)
    BY <1>2 DEF GenerateInsights
  <2> HIDE DEF plan
  <2>2. t.own = Blank
    OBVIOUS
  <2> HIDE DEF t
  <2>3. QED
    BY <2>1, <2>2, BeginsReady
<1>3. QED
  BY <1>1, <1>2

LEMMA ReadyStep ==
    ~LateRequests /\ OneJob /\ StoreInv /\ StoreInv' /\ ReadyInv /\ [Next]_vars => ReadyInv'
<1> SUFFICES ASSUME ~LateRequests, OneJob, StoreInv, StoreInv', ReadyInv, [Next]_vars
             PROVE  ReadyInv'
  OBVIOUS
<1>1. CASE UNCHANGED vars
  BY <1>1 DEF vars, ReadyInv, ReadyIsCurrent
<1>2. ASSUME NEW o \in Actors, StorageStep(o) PROVE ReadyInv'
  BY <1>2, FilesReady, RecordReady, PlanningReady, WriteInfoReady DEF StorageStep
<1>3. ASSUME NEW o \in Actors, JobStep(o) PROVE ReadyInv'
  BY <1>3, EarlyReady, ConfidenceReady, CollectedReady, CompanyPhaseReady,
     SupportPhaseReady, PlanningReady, WriteReadyReady, FailedReady DEF JobStep
<1>4. CASE Crash
  <2>1. \A o \in Actors : op'[o] = Idle
    BY <1>4 DEF Crash
  <2>2. StepsOf(Idle.plan) = {}
    BY EmptyIsGood DEF Idle
  <2>3. UNCHANGED <<record, made>>
    BY <1>4 DEF Crash, history
  <2>4. QED
    BY <2>1, <2>2, <2>3 DEF ReadyInv, ReadyIsCurrent
<1>5. QED
  BY <1>1, <1>2, <1>3, <1>4, RequestReady, JobBeginsReady DEF Next

LEMMA InitIsReady == Init => ReadyInv
<1> SUFFICES ASSUME Init PROVE ReadyInv
  OBVIOUS
<1>1. PICK p \in {"url", "text"} : record = [Blank EXCEPT !.posting = p]
  BY DEF Init
<1>2. record.status = "idle"
  BY <1>1 DEF Blank
<1>3. \A o \in Actors : op[o] = Idle
  BY DEF Init
<1>4. StepsOf(Idle.plan) = {}
  BY EmptyIsGood DEF Idle
<1>5. QED
  BY <1>2, <1>3, <1>4 DEF ReadyInv, ReadyIsCurrent

\* With one job at a time, a project is called ready only if its insights were
\* generated from the sources its record has now (generateInsights,
\* updateProjectInfo).
THEOREM ReadyMeansCurrent ==
    ASSUME ~LateRequests, OneJob PROVE Spec => []ReadyIsCurrent
<1>1. StoreInv /\ StoreInv' /\ ReadyInv /\ [Next]_vars => ReadyInv'
  BY ReadyStep
<1>2. ReadyInv => ReadyIsCurrent
  BY DEF ReadyInv
<1>3. QED
  BY <1>1, <1>2, InitIsReady, StoreIsSound, PTL DEF Spec

-----------------------------------------------------------------------------
(***************************************************************************)
(* The choices of documents.  A document that was chosen is pinned in a    *)
(* manifest; one that was left out is in no manifest with a pin, and no    *)
(* record has it pinned: that on the disk, and those that jobs hold.       *)
(***************************************************************************)
\* The steps of the operations on the profile's documents.
ProfileSteps == {"writeFiles", "loadManifest", "addDocument", "markDocument"}

\* The steps that write the manifest.
Entering == {"addDocument", "markDocument", "dropDocument"}
Reading == {"loadManifest", "loadExisting"}

\* What the steps R of t rely on in the record r and the manifest m.
ChoiceFacts(R, t, r, m) ==
  /\ R \cap Entering # {} /\ R \cap Reading = {} => t.man = m[t.scope]
  /\ "addDocument" \in R => /\ \A s \in Scopes : t.doc \notin DOMAIN m[s]
                            /\ ~t.pin /\ r # NoFile => t.doc \notin r.pinned
  /\ "markDocument" \in R /\ t.scope = "profile" => t.doc \in DOMAIN m["profile"]
  /\ {"markDocument", "markRecord"} \subseteq R /\ "loadExisting" \notin R /\ t.pin
       => t.doc \in DOMAIN m["project"]
  /\ "dropDocument" \in R => ~t.pin
  /\ "markRecord" \in R /\ R \cap Entering = {} =>
       /\ t.doc \in DOMAIN m["project"] => m["project"][t.doc].pin = t.pin
       /\ t.pin => t.doc \in DOMAIN m["project"]
  /\ t.scope # "project" => R \subseteq ProfileSteps
  /\ "makeManifest" \in R => m["project"] = << >>

ManifestsOK(m) ==
  /\ DOMAIN m["project"] \cap DOMAIN m["profile"] = {}
  /\ \A s \in Scopes : \A d \in DOMAIN m[s] : "pin" \in DOMAIN m[s][d]

\* No document that was left out is pinned among pins.
LeftOut(c, m, pins) ==
  \A d \in Docs : c[d] = "out" /\ d \in DOMAIN m["project"] => d \notin pins

ChoiceOK(c, r, m) ==
  /\ DOMAIN c = Docs
  /\ \A d \in Docs :
       /\ c[d] # "none" => \E s \in Scopes : d \in DOMAIN m[s]
       /\ c[d] = "in" => \E s \in Scopes : d \in DOMAIN m[s] /\ m[s][d].pin
       /\ c[d] = "out" => \A s \in Scopes : d \in DOMAIN m[s] => ~m[s][d].pin
  /\ r # NoFile => LeftOut(c, m, r.pinned)

\* A document that is entered and not pinned is in no record that a job holds.
Unseen(o) ==
  "addDocument" \in StepsOf(op[o].plan) /\ ~op[o].pin
    => \A j \in Jobs : op[o].doc \notin op[j].own.pinned

ChoiceInv ==
  /\ ManifestsOK(manifest)
  /\ ChoiceOK(choice, record, manifest)
  /\ \A o \in Actors :
       /\ ChoiceFacts(StepsOf(op[o].plan), op[o], record, manifest)
       /\ Unseen(o)
  /\ \A j \in Jobs : LeftOut(choice, manifest, op[j].own.pinned)

\* Who rests relies on nothing of the disk.
LEMMA RestingChooses ==
    ASSUME NEW o, NEW t, OpOK(o, t), t.plan # << >> => Head(t.plan) = "await",
           NEW r, NEW m, ChoiceFacts(StepsOf(t.plan), t, r, m)
    PROVE  /\ \A q, k : ChoiceFacts(StepsOf(t.plan), t, q, k)
           /\ "addDocument" \notin StepsOf(t.plan)
<1>1. /\ StepsOf(t.plan) \cap (Entering \cup {"markRecord", "makeManifest"}) = {}
  <2>1. CASE t.plan = << >>
    BY <2>1, EmptyIsGood
  <2>2. CASE t.plan # << >>
    <3>1. /\ StepsOf(t.plan) = {"await"} \cup StepsOf(Tail(t.plan))
          /\ \A b \in StepsOf(Tail(t.plan)) : ~Bars("await", b)
      BY <2>2, TailIsGood DEF OpOK
    <3>2. QED
      BY <3>1 DEF Bars, DocSteps, Entering
  <2>3. QED
    BY <2>1, <2>2
<1>2. QED
  BY <1>1 DEF ChoiceFacts, Entering

LEMMA IdleChooses ==
    /\ Idle.plan = << >> /\ StepsOf(Idle.plan) = {}
    /\ Idle.own.pinned = {} /\ Idle.scope = "project" /\ ~Idle.pin
    /\ \A r, m : ChoiceFacts(StepsOf(Idle.plan), Idle, r, m)
<1>1. /\ Idle.plan = << >> /\ Idle.own.pinned = {} /\ Idle.scope = "project" /\ ~Idle.pin
  BY DEF Idle, Blank
<1>2. StepsOf(Idle.plan) = {}
  BY <1>1, EmptyIsGood
<1>3. QED
  BY <1>1, <1>2 DEF ChoiceFacts

\* A step of one actor while the others rest.
LEMMA ChoiceMoves ==
    ASSUME StoreInv, ChoiceInv, NEW o \in Actors, \A p \in Actors \ {o} : Resting(p),
           NEW n, Put(o, n), ManifestsOK(manifest'), ChoiceOK(choice', record', manifest'),
           \A j \in Jobs \ {o} : LeftOut(choice', manifest', op[j].own.pinned),
           n.plan # << >> =>
             /\ ChoiceFacts(StepsOf(n.plan), n, record', manifest')
             /\ o \in Jobs => LeftOut(choice', manifest', n.own.pinned)
             /\ "addDocument" \in StepsOf(n.plan) /\ ~n.pin
                  => /\ o \in Jobs => n.doc \notin n.own.pinned
                     /\ \A j \in Jobs \ {o} : n.doc \notin op[j].own.pinned
    PROVE  ChoiceInv'
<1>1. \A p \in Actors : op'[p] = IF p # o THEN op[p] ELSE IF n.plan = << >> THEN Idle ELSE n
  BY DEF Put, StoreInv
<1>2. ASSUME NEW p \in Actors
      PROVE  ChoiceFacts(StepsOf(op'[p].plan), op'[p], record', manifest') /\ Unseen(p)'
  <2>1. CASE p # o
    <3>1. OpOK(p, op[p]) /\ ChoiceFacts(StepsOf(op[p].plan), op[p], record, manifest)
      BY DEF StoreInv, TaskOK, ChoiceInv
    <3>2. op[p].plan # << >> => Head(op[p].plan) = "await"
      BY <2>1 DEF Resting
    <3>3. /\ ChoiceFacts(StepsOf(op[p].plan), op[p], record', manifest')
          /\ "addDocument" \notin StepsOf(op[p].plan)
      BY <3>1, <3>2, RestingChooses
    <3>4. QED
      BY <1>1, <2>1, <3>3 DEF Unseen
  <2>2. CASE p = o /\ n.plan = << >>
    BY <1>1, <2>2, IdleChooses DEF Unseen
  <2>3. CASE p = o /\ n.plan # << >>
    <3>1. op'[o] = n
      BY <1>1, <2>3
    <3>2. \A j \in Jobs : op'[j].own = IF j = o THEN n.own ELSE op[j].own
      BY <1>1, <2>3 DEF Actors
    <3>3. QED
      BY <2>3, <3>1, <3>2 DEF Unseen
  <2>4. QED
    BY <2>1, <2>2, <2>3
<1>3. ASSUME NEW j \in Jobs PROVE LeftOut(choice', manifest', op'[j].own.pinned)
  <2>1. CASE j # o
    BY <1>1, <2>1 DEF Actors
  <2>2. CASE j = o /\ n.plan = << >>
    <3>1. op'[j].own.pinned = {}
      BY <1>1, <2>2, IdleChooses
    <3>2. QED
      BY <3>1 DEF LeftOut
  <2>3. CASE j = o /\ n.plan # << >>
    BY <1>1, <2>3
  <2>4. QED
    BY <2>1, <2>2, <2>3
<1>4. QED
  BY <1>2, <1>3 DEF ChoiceInv

\* What is known of an actor that takes a step.
LEMMA Choosing ==
    ASSUME StoreInv, ChoiceInv, ~LateRequests, NEW o \in Actors, NEW step, At(o, step)
    PROVE  /\ ManifestsOK(manifest) /\ ChoiceOK(choice, record, manifest)
           /\ \A j \in Jobs : LeftOut(choice, manifest, op[j].own.pinned)
           /\ ChoiceFacts(StepsOf(op[o].plan), op[o], record, manifest) /\ Unseen(o)
           /\ step \notin ProfileSteps => op[o].scope = "project"
<1>1. step \in StepsOf(op[o].plan)
  BY Moving
<1>2. ChoiceFacts(StepsOf(op[o].plan), op[o], record, manifest)
  BY DEF ChoiceInv
<1>3. step \notin ProfileSteps => op[o].scope = "project"
  BY <1>1, <1>2 DEF ChoiceFacts
<1>4. QED
  BY <1>2, <1>3 DEF ChoiceInv

\* A step that touches neither manifests nor choices, writes no record that
\* has a document pinned that was left out, and goes on.
LEMMA ChoiceGoesOn ==
    ASSUME StoreInv, ChoiceInv, ~LateRequests, NEW o \in Actors, NEW step, At(o, step),
           NEW n, Put(o, n), UNCHANGED <<manifest, choice>>, n.plan = Rest(o),
           step \notin Entering \cup Reading,
           n.doc = op[o].doc, n.pin = op[o].pin, n.scope = op[o].scope,
           n.man = op[o].man, n.own = op[o].own,
           record' # NoFile => \/ record'.pinned = {}
                               \/ record # NoFile /\ record'.pinned = record.pinned
    PROVE  ChoiceInv'
<1> DEFINE R == StepsOf(op[o].plan)
           S == StepsOf(Rest(o))
<1>1. R = {step} \cup S /\ \A p \in Actors \ {o} : Resting(p)
  BY Moving
<1>2. /\ ManifestsOK(manifest) /\ ChoiceOK(choice, record, manifest)
      /\ \A j \in Jobs : LeftOut(choice, manifest, op[j].own.pinned)
      /\ ChoiceFacts(R, op[o], record, manifest) /\ Unseen(o)
  BY Choosing
<1>3. ChoiceOK(choice', record', manifest')
  BY <1>2 DEF ChoiceOK, LeftOut
<1> HIDE DEF R, S
<1>4. ChoiceFacts(S, n, record', manifest')
  BY <1>1, <1>2 DEF ChoiceFacts, Entering, Reading
<1>5. "addDocument" \in S /\ ~n.pin => \A j \in Jobs : n.doc \notin op[j].own.pinned
  BY <1>1, <1>2 DEF Unseen, R
<1>6. /\ ManifestsOK(manifest')
      /\ o \in Jobs => LeftOut(choice', manifest', n.own.pinned)
      /\ \A j \in Jobs \ {o} : LeftOut(choice', manifest', op[j].own.pinned)
  BY <1>2
<1>7. ChoiceFacts(StepsOf(n.plan), n, record', manifest')
  BY <1>4 DEF S
<1>8. "addDocument" \in StepsOf(n.plan) /\ ~n.pin
        => \A j \in Jobs : n.doc \notin op[j].own.pinned
  BY <1>5 DEF S
<1>9. QED
  BY <1>1, <1>3, <1>6, <1>7, <1>8, ChoiceMoves

LEMMA ChoiceRest ==
    ASSUME StoreInv, ChoiceInv, ~LateRequests, NEW o \in Actors, NEW step, At(o, step),
           GoesOn(o), UNCHANGED <<manifest, choice>>, step \notin Entering \cup Reading,
           record' # NoFile => \/ record'.pinned = {}
                               \/ record # NoFile /\ record'.pinned = record.pinned
    PROVE  ChoiceInv'
<1> DEFINE n == [op[o] EXCEPT !.plan = Rest(o)]
<1>1. {"plan", "doc", "pin", "scope", "man", "own"} \subseteq DOMAIN op[o]
  BY Moving DEF OpOK
<1>2. /\ n.plan = Rest(o) /\ n.doc = op[o].doc /\ n.pin = op[o].pin
      /\ n.scope = op[o].scope /\ n.man = op[o].man /\ n.own = op[o].own /\ Put(o, n)
  BY <1>1 DEF GoesOn
<1> HIDE DEF n
<1>3. QED
  BY <1>2, ChoiceGoesOn

\* A step after which nothing is left that needs the manifest.
LEMMA ChoiceLeaves ==
    ASSUME StoreInv, ChoiceInv, ~LateRequests, NEW o \in Actors, NEW step, At(o, step),
           NEW n, Put(o, n), UNCHANGED <<manifest, choice>>, n.scope = "project",
           StepsOf(n.plan) \cap (Entering \cup {"markRecord", "makeManifest"}) = {},
           record' # NoFile => LeftOut(choice, manifest, record'.pinned),
           o \in Jobs => LeftOut(choice, manifest, n.own.pinned)
    PROVE  ChoiceInv'
<1>1. \A p \in Actors \ {o} : Resting(p)
  BY Moving
<1>2. /\ ManifestsOK(manifest) /\ ChoiceOK(choice, record, manifest)
      /\ \A j \in Jobs : LeftOut(choice, manifest, op[j].own.pinned)
  BY Choosing
<1>3. ChoiceOK(choice', record', manifest')
  BY <1>2 DEF ChoiceOK
<1>4. ChoiceFacts(StepsOf(n.plan), n, record', manifest')
  BY DEF ChoiceFacts, Entering
<1>5. "addDocument" \notin StepsOf(n.plan)
  BY DEF Entering
<1>6. /\ ManifestsOK(manifest')
      /\ o \in Jobs => LeftOut(choice', manifest', n.own.pinned)
      /\ \A j \in Jobs \ {o} : LeftOut(choice', manifest', op[j].own.pinned)
  BY <1>2
<1>7. QED
  BY <1>1, <1>3, <1>4, <1>5, <1>6, ChoiceMoves

LEMMA ChoiceThrows ==
    ASSUME StoreInv, ChoiceInv, ~LateRequests, NEW o \in Actors, NEW step, At(o, step),
           Throws(o), UNCHANGED <<record, manifest, choice>>, step \notin ProfileSteps
    PROVE  ChoiceInv'
<1> DEFINE n == [op[o] EXCEPT !.plan = op[o].failed, !.failed = << >>]
<1>1. {"plan", "own", "failed", "scope"} \subseteq DOMAIN op[o] /\ op[o].failed \in Fallbacks
  BY Moving DEF OpOK
<1>2. /\ n.plan = op[o].failed /\ n.own = op[o].own /\ n.scope = op[o].scope
      /\ Put(o, n)
  BY <1>1 DEF Throws
<1> HIDE DEF n
<1>3. StepsOf(n.plan) \subseteq {"loadRecord", "writeError", "writeStale"}
  BY <1>1, <1>2 DEF Fallbacks, StepsOf
<1>4. StepsOf(n.plan) \cap (Entering \cup {"markRecord", "makeManifest"}) = {}
  BY <1>3 DEF Entering
<1>5. /\ op[o].scope = "project" /\ (record # NoFile => LeftOut(choice, manifest, record.pinned))
      /\ o \in Jobs => LeftOut(choice, manifest, op[o].own.pinned)
  BY Choosing DEF ChoiceOK
<1>6. QED
  BY <1>2, <1>4, <1>5, ChoiceLeaves

LEMMA ChoiceEnds ==
    ASSUME StoreInv, ChoiceInv, ~LateRequests, NEW o \in Actors, NEW step, At(o, step),
           Ends(o), UNCHANGED <<manifest, choice>>,
           record' # NoFile => LeftOut(choice, manifest, record'.pinned)
    PROVE  ChoiceInv'
<1>1. Put(o, Idle)
  BY DEF Ends
<1>2. LeftOut(choice, manifest, Idle.own.pinned)
  BY IdleChooses DEF LeftOut
<1>3. QED
  BY <1>1, <1>2, IdleChooses, ChoiceLeaves

LEMMA ChoiceEndsWith ==
    ASSUME StoreInv, ChoiceInv, ~LateRequests, NEW o \in Actors, NEW step, At(o, step),
           NEW r, "pinned" \in DOMAIN r, NEW st, EndsWith(o, r, st),
           UNCHANGED <<manifest, choice>>, LeftOut(choice, manifest, r.pinned)
    PROVE  ChoiceInv'
<1>1. Ends(o) /\ record' = [r EXCEPT !.status = st]
  BY DEF EndsWith
<1>2. record'.pinned = r.pinned
  BY <1>1
<1>3. QED
  BY <1>1, <1>2, ChoiceEnds

-----------------------------------------------------------------------------
(***************************************************************************)
(* The steps of the storage that leave the manifests alone.                *)
(***************************************************************************)
LEMMA FilesChoices ==
    ASSUME StoreInv, ChoiceInv, ~LateRequests, NEW o \in Actors,
           \/ MakeRecord(o) \/ WriteFiles(o) \/ Extract(o) \/ RemoveFiles(o)
           \/ WriteReasons(o) \/ WriteAnswer(o) \/ Await(o)
    PROVE  ChoiceInv'
<1>1. CASE MakeRecord(o)
  <2>1. /\ At(o, "makeRecord") /\ GoesOn(o) /\ UNCHANGED <<manifest, choice>>
        /\ record'.pinned = {}
    BY <1>1 DEF MakeRecord, history, Blank
  <2>2. QED
    BY <2>1, ChoiceRest DEF Entering, Reading
<1>2. CASE WriteFiles(o) \/ RemoveFiles(o) \/ Await(o)
  <2>1. PICK step \in {"writeFiles", "removeFiles", "await"} :
          At(o, step) /\ GoesOn(o) /\ UNCHANGED <<record, manifest, choice>>
    BY <1>2 DEF WriteFiles, RemoveFiles, Await, history
  <2>2. QED
    BY <2>1, ChoiceRest DEF Entering, Reading
<1>3. CASE Extract(o)
  <2>1. At(o, "extract") /\ UNCHANGED <<record, manifest, choice>>
    BY <1>3 DEF Extract, history
  <2>2. CASE GoesOn(o)
    BY <2>1, <2>2, ChoiceRest DEF Entering, Reading
  <2>3. CASE Throws(o)
    BY <2>1, <2>3, ChoiceThrows DEF ProfileSteps
  <2>4. QED
    BY <1>3, <2>2, <2>3 DEF Extract
<1>4. CASE WriteReasons(o)
  <2>1. /\ At(o, "writeReasons") /\ GoesOn(o) /\ UNCHANGED <<manifest, choice>>
        /\ record' = [op[o].rec EXCEPT !.low = FALSE]
    BY <1>4 DEF WriteReasons, history
  <2>2. record # NoFile /\ op[o].rec = record /\ RecordOK(record)
    BY <2>1, WriterReads DEF Writers
  <2>3. record'.pinned = record.pinned
    BY <2>1, <2>2 DEF RecordOK
  <2>4. QED
    BY <2>1, <2>2, <2>3, ChoiceRest DEF Entering, Reading
<1>5. CASE WriteAnswer(o)
  <2>1. /\ At(o, "writeAnswer") /\ GoesOn(o) /\ UNCHANGED <<manifest, choice>>
        /\ \E all : record' = [op[o].rec EXCEPT !.answers = all]
    BY <1>5 DEF WriteAnswer, history
  <2>2. record # NoFile /\ op[o].rec = record /\ RecordOK(record)
    BY <2>1, WriterReads DEF Writers
  <2>3. record'.pinned = record.pinned
    BY <2>1, <2>2 DEF RecordOK
  <2>4. QED
    BY <2>1, <2>2, <2>3, ChoiceRest DEF Entering, Reading
<1>6. QED
  BY <1>1, <1>2, <1>3, <1>4, <1>5

LEMMA LoadRecordChoices ==
    ASSUME StoreInv, ChoiceInv, ~LateRequests, NEW o \in Actors, LoadRecord(o)
    PROVE  ChoiceInv'
<1> DEFINE n == [op[o] EXCEPT !.plan = Rest(o), !.rec = record]
<1>1. At(o, "loadRecord") /\ UNCHANGED <<record, manifest, choice>>
  BY DEF LoadRecord, history
<1>2. CASE Throws(o)
  BY <1>1, <1>2, ChoiceThrows DEF ProfileSteps
<1>3. CASE Put(o, n)
  <2>1. {"plan", "rec", "doc", "pin", "scope", "man", "own"} \subseteq DOMAIN op[o]
    BY <1>1, Moving DEF OpOK
  <2>2. /\ n.plan = Rest(o) /\ n.doc = op[o].doc /\ n.pin = op[o].pin
        /\ n.scope = op[o].scope /\ n.man = op[o].man /\ n.own = op[o].own
    BY <2>1
  <2> HIDE DEF n
  <2>3. QED
    BY <1>1, <1>3, <2>2, ChoiceGoesOn DEF Entering, Reading
<1>4. QED
  BY <1>2, <1>3 DEF LoadRecord

LEMMA LoadManifestChoices ==
    ASSUME StoreInv, ChoiceInv, ~LateRequests, NEW o \in Actors,
           LoadManifest(o) \/ LoadExisting(o)
    PROVE  ChoiceInv'
<1> DEFINE t == op[o]
           n == [t EXCEPT !.plan = Rest(o), !.man = manifest[t.scope]]
           R == StepsOf(t.plan)
           S == StepsOf(Rest(o))
<1>1. PICK step \in Reading :
        /\ At(o, step) /\ UNCHANGED <<record, manifest, choice>>
        /\ \/ step = "loadManifest" /\ Put(o, n)
           \/ step = "loadExisting" /\ Throws(o)
           \/ step = "loadExisting" /\ t.doc \in DOMAIN manifest[t.scope] /\ Put(o, n)
  BY DEF LoadManifest, LoadExisting, history, Reading
<1>2. CASE step = "loadExisting" /\ Throws(o)
  BY <1>1, <1>2, ChoiceThrows DEF ProfileSteps
<1>3. CASE /\ Put(o, n)
           /\ step = "loadExisting" => t.doc \in DOMAIN manifest[t.scope]
  <2>1. /\ {"plan", "man", "doc", "pin", "scope", "own"} \subseteq DOMAIN t
        /\ R = {step} \cup S /\ \A p \in Actors \ {o} : Resting(p)
    BY <1>1, Moving DEF OpOK
  <2>2. /\ n.plan = Rest(o) /\ n.doc = t.doc /\ n.pin = t.pin
        /\ n.scope = t.scope /\ n.man = manifest[t.scope] /\ n.own = t.own
    BY <2>1
  <2>3. /\ ManifestsOK(manifest) /\ ChoiceOK(choice, record, manifest)
        /\ \A j \in Jobs : LeftOut(choice, manifest, op[j].own.pinned)
        /\ ChoiceFacts(R, t, record, manifest) /\ Unseen(o)
        /\ step \notin ProfileSteps => t.scope = "project"
    BY <1>1, Choosing
  <2>4. "addDocument" \in S /\ ~t.pin => \A j \in Jobs : t.doc \notin op[j].own.pinned
    BY <2>1, <2>3 DEF Unseen
  <2> HIDE DEF n, R, S
  <2>5. step = "loadExisting" => t.doc \in DOMAIN manifest["project"]
    BY <1>3, <2>3 DEF ProfileSteps
  <2>6. ChoiceFacts(S, n, record, manifest)
    BY <1>1, <2>1, <2>2, <2>3, <2>5 DEF ChoiceFacts, Entering, Reading
  <2>7. ChoiceFacts(StepsOf(n.plan), n, record', manifest')
    BY <1>1, <2>2, <2>6 DEF S
  <2>8. "addDocument" \in StepsOf(n.plan) /\ ~n.pin
          => \A j \in Jobs : n.doc \notin op[j].own.pinned
    BY <2>2, <2>4 DEF S
  <2>9. QED
    BY <1>1, <1>3, <2>1, <2>2, <2>3, <2>7, <2>8, ChoiceMoves
<1>4. QED
  BY <1>1, <1>2, <1>3

-----------------------------------------------------------------------------
(***************************************************************************)
(* The steps that plan, and those of a job.                                *)
(***************************************************************************)
\* The documents of answers that are gone are unpinned one by one.
LEMMA UnpinNextChoices ==
    ASSUME StoreInv, ChoiceInv, ~LateRequests, NEW o \in Actors, UnpinNext(o)
    PROVE  ChoiceInv'
<1> DEFINE t == op[o]
<1>1. At(o, "unpinNext") /\ UNCHANGED <<record, manifest, choice>>
  BY DEF UnpinNext, history
<1>2. CASE GoesOn(o)
  BY <1>1, <1>2, ChoiceRest DEF Entering, Reading
<1>3. CASE ~GoesOn(o)
  <2>1. PICK d : Put(o, [t EXCEPT !.plan = PinSteps \o @, !.doc = d, !.pin = FALSE,
                                  !.drop = @ \ {d}])
    BY <1>3 DEF UnpinNext
  <2> DEFINE plan == PinSteps \o t.plan
             n == [t EXCEPT !.plan = plan, !.doc = d, !.pin = FALSE, !.drop = @ \ {d}]
  <2>2. Put(o, n)
    BY <2>1
  <2>3. /\ {"plan", "doc", "pin", "scope", "own"} \subseteq DOMAIN t /\ Good(t.plan)
        /\ StepsOf(t.plan) = {"unpinNext"} \cup StepsOf(Rest(o))
        /\ \A b \in StepsOf(Rest(o)) : ~Bars("unpinNext", b)
        /\ \A p \in Actors \ {o} : Resting(p)
    BY <1>1, Moving DEF OpOK
  <2>4. StepsOf(plan) = {"loadManifest", "markDocument", "loadRecord", "markRecord"}
                          \cup StepsOf(t.plan)
    BY <2>3, PinIsGood, JoinSteps DEF IsPlan, Good
  <2> HIDE DEF plan
  <2>5. /\ n.plan = plan /\ ~n.pin /\ n.scope = t.scope /\ n.own = t.own
    BY <2>3
  <2> HIDE DEF n
  <2>6. /\ ManifestsOK(manifest) /\ ChoiceOK(choice, record, manifest)
        /\ \A j \in Jobs : LeftOut(choice, manifest, op[j].own.pinned)
        /\ t.scope = "project"
    BY <1>1, Choosing DEF ProfileSteps
  <2>7. StepsOf(t.plan) \cap (DocSteps \cup {"makeManifest"}) = {}
    BY <2>3 DEF Bars, DocSteps
  <2>8. ChoiceFacts(StepsOf(n.plan), n, record', manifest')
    BY <2>4, <2>5, <2>6, <2>7 DEF ChoiceFacts, Entering, Reading, DocSteps
  <2>9. "addDocument" \notin StepsOf(n.plan)
    BY <2>4, <2>5, <2>7 DEF DocSteps
  <2>10. /\ ManifestsOK(manifest') /\ ChoiceOK(choice', record', manifest')
         /\ o \in Jobs => LeftOut(choice', manifest', n.own.pinned)
         /\ \A j \in Jobs \ {o} : LeftOut(choice', manifest', op[j].own.pinned)
    BY <1>1, <2>5, <2>6
  <2>11. QED
    BY <2>2, <2>3, <2>8, <2>9, <2>10, ChoiceMoves
<1>4. QED
  BY <1>2, <1>3

\* A document is updated that is there, or saved that is new.
LEMMA ChoiceSaving ==
    ASSUME StoreInv, ChoiceInv, ~LateRequests, NEW o \in Actors,
           NEW step \in {"readAnswer", "findGenerated"}, At(o, step), NEW n, Put(o, n),
           NEW steps, n.plan = steps \o Rest(o),
           steps = UpdateSteps \/ (steps = SaveSteps(TRUE) /\ Fresh(n.doc)),
           n.scope = op[o].scope, n.own = op[o].own, UNCHANGED <<record, manifest, choice>>
    PROVE  ChoiceInv'
<1> DEFINE t == op[o]
           S == StepsOf(Rest(o))
<1>1. /\ Good(Rest(o)) /\ \A b \in S : ~Bars(step, b)
      /\ \A p \in Actors \ {o} : Resting(p)
  BY Moving
<1>2. /\ ManifestsOK(manifest) /\ ChoiceOK(choice, record, manifest)
      /\ \A j \in Jobs : LeftOut(choice, manifest, op[j].own.pinned)
      /\ t.scope = "project"
  BY Choosing DEF ProfileSteps
<1>3. S \cap (DocSteps \cup {"markRecord", "makeManifest"}) = {}
  BY <1>1 DEF Bars
<1>4. /\ ManifestsOK(manifest') /\ ChoiceOK(choice', record', manifest')
      /\ o \in Jobs => LeftOut(choice', manifest', n.own.pinned)
      /\ \A j \in Jobs \ {o} : LeftOut(choice', manifest', op[j].own.pinned)
  BY <1>2
<1>5. CASE steps = UpdateSteps
  <2>1. StepsOf(n.plan) =
          {"loadExisting", "writeFiles", "markDocument", "loadRecord", "markRecord"} \cup S
    BY <1>1, <1>5, UpdateIsGood, JoinSteps DEF IsPlan, Good
  <2>2. ChoiceFacts(StepsOf(n.plan), n, record', manifest')
    BY <1>2, <1>3, <2>1 DEF ChoiceFacts, Entering, Reading, DocSteps
  <2>3. "addDocument" \notin StepsOf(n.plan)
    BY <1>3, <2>1 DEF DocSteps
  <2>4. QED
    BY <1>1, <1>4, <2>2, <2>3, ChoiceMoves
<1>6. CASE steps = SaveSteps(TRUE) /\ Fresh(n.doc)
  <2>1. StepsOf(n.plan) =
          {"writeFiles", "loadManifest", "addDocument", "loadRecord", "markRecord"} \cup S
    BY <1>1, <1>6, SaveIsGood, JoinSteps DEF IsPlan, Good
  <2>2. /\ \A s \in Scopes : n.doc \notin DOMAIN manifest[s]
        /\ record # NoFile => n.doc \notin record.pinned
        /\ \A j \in Jobs : n.doc \notin op[j].own.pinned
    BY <1>6 DEF Fresh
  <2>3. ChoiceFacts(StepsOf(n.plan), n, record', manifest')
    BY <1>2, <1>3, <2>1, <2>2 DEF ChoiceFacts, Entering, Reading, DocSteps
  <2>4. /\ o \in Jobs => n.doc \notin n.own.pinned
        /\ \A j \in Jobs \ {o} : n.doc \notin op[j].own.pinned
    BY <2>2
  <2>5. QED
    BY <1>1, <1>4, <2>3, <2>4, ChoiceMoves
<1>7. QED
  BY <1>5, <1>6

LEMMA ReadAnswerChoices ==
    ASSUME StoreInv, ChoiceInv, ~LateRequests, NEW o \in Actors, ReadAnswer(o)
    PROVE  ChoiceInv'
<1> DEFINE t == op[o]
<1>1. At(o, "readAnswer") /\ UNCHANGED <<record, manifest, choice>>
  BY DEF ReadAnswer, history
<1>2. {"plan", "pin", "doc", "title", "scope", "own"} \subseteq DOMAIN t
  BY <1>1, Moving DEF OpOK
<1>3. CASE record = NoFile
  <2>1. Throws(o)
    BY <1>3 DEF ReadAnswer
  <2>2. QED
    BY <1>1, <2>1, ChoiceThrows DEF ProfileSteps
<1>4. CASE record # NoFile /\ t.index \in DOMAIN record.answers
  <2> DEFINE plan == UpdateSteps \o Rest(o)
             d == record.answers[t.index].doc
             n == [t EXCEPT !.plan = plan, !.pin = TRUE, !.doc = d]
  <2>1. Put(o, n)
    BY <1>4 DEF ReadAnswer
  <2>2. n.plan = plan /\ n.scope = t.scope /\ n.own = t.own
    BY <1>2
  <2> HIDE DEF n
  <2>3. QED
    BY <1>1, <2>1, <2>2, ChoiceSaving
<1>5. CASE record # NoFile /\ t.index \notin DOMAIN record.answers
  <2>1. PICK d \in Docs :
          /\ Fresh(d)
          /\ Put(o, [t EXCEPT !.plan = SaveSteps(TRUE) \o Rest(o), !.pin = TRUE, !.doc = d,
                              !.title = "answer"])
    BY <1>5 DEF ReadAnswer
  <2> DEFINE plan == SaveSteps(TRUE) \o Rest(o)
             n == [t EXCEPT !.plan = plan, !.pin = TRUE, !.doc = d, !.title = "answer"]
  <2>2. Put(o, n)
    BY <2>1
  <2>3. n.plan = plan /\ n.scope = t.scope /\ n.own = t.own /\ n.doc = d
    BY <1>2
  <2> HIDE DEF n
  <2>4. QED
    BY <1>1, <2>1, <2>2, <2>3, ChoiceSaving
<1>6. QED
  BY <1>3, <1>4, <1>5

LEMMA FindGeneratedChoices ==
    ASSUME StoreInv, ChoiceInv, ~LateRequests, NEW o \in Actors, FindGenerated(o)
    PROVE  ChoiceInv'
<1> DEFINE t == op[o]
<1>1. At(o, "findGenerated") /\ UNCHANGED <<record, manifest, choice>>
  BY DEF FindGenerated, history
<1>2. {"plan", "doc", "scope", "own"} \subseteq DOMAIN t
  BY <1>1, Moving DEF OpOK
<1>3. \E d, steps : /\ steps = UpdateSteps \/ (steps = SaveSteps(TRUE) /\ Fresh(d))
                    /\ Put(o, [t EXCEPT !.plan = steps \o Rest(o), !.doc = d])
  BY DEF FindGenerated
<1>4. PICK d, steps : /\ steps = UpdateSteps \/ (steps = SaveSteps(TRUE) /\ Fresh(d))
                      /\ Put(o, [t EXCEPT !.plan = steps \o Rest(o), !.doc = d])
  BY <1>3
<1> DEFINE plan == steps \o Rest(o)
           n == [t EXCEPT !.plan = plan, !.doc = d]
<1>5. Put(o, n)
  BY <1>4
<1>6. n.plan = plan /\ n.scope = t.scope /\ n.own = t.own /\ n.doc = d
  BY <1>2
<1> HIDE DEF n
<1>7. QED
  BY <1>1, <1>4, <1>5, <1>6, ChoiceSaving

LEMMA ReadInfoChoices ==
    ASSUME StoreInv, ChoiceInv, ~LateRequests, NEW o \in Actors, ReadInfo(o)
    PROVE  ChoiceInv'
<1> DEFINE t == op[o]
<1>1. At(o, "readInfo") /\ UNCHANGED <<record, manifest, choice>>
  BY DEF ReadInfo, history
<1>2. /\ {"plan", "scope", "own"} \subseteq DOMAIN t /\ Good(Rest(o))
      /\ \A b \in StepsOf(Rest(o)) : ~Bars("readInfo", b)
  BY <1>1, Moving DEF OpOK
<1>3. CASE record = NoFile
  <2>1. Throws(o)
    BY <1>3 DEF ReadInfo
  <2>2. QED
    BY <1>1, <2>1, ChoiceThrows DEF ProfileSteps
<1>4. CASE record # NoFile
  <2> DEFINE new == IF t.edit = "questions" THEN t.list ELSE record.questions
             gone == Removed(record.questions, new, record.answers)
             kept == Kept(record.questions, new, record.answers)
             first == IF gone = {} THEN << >> ELSE RereadSteps
             plan == first \o Rest(o)
             n == [t EXCEPT !.plan = plan, !.rec = record, !.list = new,
                            !.drop = gone, !.answers = kept]
  <2>1. Put(o, n)
    BY <1>4 DEF ReadInfo
  <2>2. first \in Seq(StepNames) /\ StepsOf(first) \subseteq {"unpinNext", "loadRecord"}
    BY RereadIsGood, EmptyIsGood DEF IsPlan, Good
  <2> HIDE DEF first, new, gone, kept
  <2>3. StepsOf(plan) = StepsOf(first) \cup StepsOf(Rest(o))
    BY <1>2, <2>2, JoinSteps DEF Good
  <2>4. n.plan = plan /\ n.scope = t.scope /\ n.own = t.own
    BY <1>2
  <2> HIDE DEF n, plan
  <2>5. StepsOf(n.plan) \cap (Entering \cup {"markRecord", "makeManifest"}) = {}
    BY <1>2, <2>2, <2>3, <2>4 DEF Bars, DocSteps, Entering
  <2>6. /\ t.scope = "project" /\ (record # NoFile => LeftOut(choice, manifest, record.pinned))
        /\ o \in Jobs => LeftOut(choice, manifest, t.own.pinned)
    BY <1>1, Choosing DEF ChoiceOK, ProfileSteps
  <2>7. QED
    BY <1>1, <2>1, <2>4, <2>5, <2>6, ChoiceLeaves
<1>5. QED
  BY <1>3, <1>4

LEMMA WriteInfoChoices ==
    ASSUME StoreInv, ChoiceInv, ~LateRequests, NEW o \in Actors, WriteInfo(o)
    PROVE  ChoiceInv'
<1> DEFINE t == op[o]
           r == t.rec
           n == [t EXCEPT !.plan = Rest(o), !.own = record']
<1>1. At(o, "writeInfo") /\ UNCHANGED <<manifest, choice>>
  BY DEF WriteInfo
<1>2. /\ \E q, a, v, d, s : record' = [r EXCEPT !.questions = q, !.answers = a, !.rev = v,
                                                !.dart = d, !.status = s]
      /\ Put(o, n)
  BY ZenonT(40) DEF WriteInfo
<1>3. record # NoFile /\ r = record /\ RecordOK(record)
  BY <1>1, WriterReads DEF Writers
<1>4. record'.pinned = record.pinned
  BY <1>2, <1>3 DEF RecordOK
<1>5. /\ {"plan", "own", "scope"} \subseteq DOMAIN t
      /\ \A b \in StepsOf(Rest(o)) : ~Bars("writeInfo", b)
  BY <1>1, Moving DEF OpOK
<1>6. n.plan = Rest(o) /\ n.own = record' /\ n.scope = t.scope
  BY <1>5
<1> HIDE DEF n
<1>7. StepsOf(n.plan) \cap (Entering \cup {"markRecord", "makeManifest"}) = {}
  BY <1>5, <1>6 DEF Bars, DocSteps, Entering
<1>8. t.scope = "project" /\ LeftOut(choice, manifest, record.pinned)
  BY <1>1, <1>3, Choosing DEF ChoiceOK, ProfileSteps
<1>9. QED
  BY <1>1, <1>2, <1>4, <1>6, <1>7, <1>8, ChoiceLeaves

\* A job goes on with steps of its own and the pins it holds.
LEMMA ChoiceJob ==
    ASSUME StoreInv, ChoiceInv, ~LateRequests, NEW o \in Jobs, NEW step \in JobSteps,
           At(o, step), NEW n, Put(o, n), UNCHANGED <<manifest, choice>>,
           n.scope = op[o].scope, n.own.pinned = op[o].own.pinned,
           n.plan \in {<<"confidence">>, <<"await", "collected">>, <<"await", "companyPhase">>,
                       <<"findGenerated", "await", "supportPhase">>,
                       <<"findGenerated", "writeReady">>},
           record' = record \/ record'.pinned = op[o].own.pinned
    PROVE  ChoiceInv'
<1> o \in Actors
  BY DEF Actors
<1>1. StepsOf(n.plan) \cap (Entering \cup {"markRecord", "makeManifest"}) = {}
  BY JobPlans DEF IsPlan, Entering
<1>2. /\ op[o].scope = "project"
      /\ record # NoFile => LeftOut(choice, manifest, record.pinned)
      /\ LeftOut(choice, manifest, op[o].own.pinned)
  BY Choosing DEF ChoiceOK, ProfileSteps, JobSteps, LateSteps
<1>3. QED
  BY <1>1, <1>2, ChoiceLeaves

\* What is known of a job at one of its own steps.
LEMMA JobChooses ==
    ASSUME StoreInv, ChoiceInv, ~LateRequests, NEW o \in Actors, NEW step \in JobSteps,
           At(o, step)
    PROVE  /\ o \in Jobs /\ RecordOK(op[o].own)
           /\ {"plan", "own", "scope", "title", "pin", "failed"} \subseteq DOMAIN op[o]
           /\ LeftOut(choice, manifest, op[o].own.pinned)
<1>1. o \in Jobs /\ RecordOK(op[o].own) /\ OpOK(o, op[o])
  BY JobMoves DEF Actors
<1>2. LeftOut(choice, manifest, op[o].own.pinned)
  BY <1>1, Choosing
<1>3. QED
  BY <1>1, <1>2 DEF OpOK

LEMMA CheckInputsChoices ==
    ASSUME StoreInv, ChoiceInv, ~LateRequests, NEW o \in Actors, CheckInputs(o)
    PROVE  ChoiceInv'
<1> DEFINE t == op[o]
           first == IF t.own.posting = "url" THEN <<"await", "fetched">> ELSE <<"confidence">>
           plan == first \o Rest(o)
           n == [t EXCEPT !.plan = plan]
<1>1. At(o, "checkInputs") /\ UNCHANGED <<record, manifest, choice>>
  BY DEF CheckInputs, history
<1>2. CASE Throws(o)
  BY <1>1, <1>2, ChoiceThrows DEF ProfileSteps
<1>3. CASE Put(o, n)
  <2>1. /\ {"plan", "scope", "own"} \subseteq DOMAIN t /\ Good(Rest(o))
        /\ \A b \in StepsOf(Rest(o)) : ~Bars("checkInputs", b)
    BY <1>1, Moving DEF OpOK
  <2>2. first \in Seq(StepNames) /\ StepsOf(first) \subseteq {"await", "fetched", "confidence"}
    BY JobPlans DEF IsPlan, Good
  <2> HIDE DEF first
  <2>3. StepsOf(plan) = StepsOf(first) \cup StepsOf(Rest(o))
    BY <2>1, <2>2, JoinSteps DEF Good
  <2> HIDE DEF plan
  <2>4. n.plan = plan /\ n.scope = t.scope /\ n.own = t.own
    BY <2>1
  <2> HIDE DEF n
  <2>5. StepsOf(n.plan) \cap (Entering \cup {"markRecord", "makeManifest"}) = {}
    BY <2>1, <2>2, <2>3, <2>4 DEF Bars, DocSteps, Entering
  <2>6. /\ t.scope = "project" /\ (record # NoFile => LeftOut(choice, manifest, record.pinned))
        /\ o \in Jobs => LeftOut(choice, manifest, t.own.pinned)
    BY <1>1, Choosing DEF ChoiceOK, ProfileSteps
  <2>7. QED
    BY <1>1, <1>3, <2>4, <2>5, <2>6, ChoiceLeaves
<1>4. QED
  BY <1>2, <1>3 DEF CheckInputs, Expands

LEMMA AnalyzedChoices ==
    ASSUME StoreInv, ChoiceInv, ~LateRequests, NEW o \in Actors, Analyzed(o)
    PROVE  ChoiceInv'
<1> DEFINE own == op[o].own
           e == Extracted(own)
           w(low) == [e EXCEPT !.low = low,
                               !.dart = IF @ = "candidates" THEN "open" ELSE @]
<1>1. At(o, "analyzed") /\ UNCHANGED <<manifest, choice>>
  BY DEF Analyzed
<1>2. RecordOK(own) /\ LeftOut(choice, manifest, own.pinned)
  BY <1>1, JobChooses DEF JobSteps
<1>3. /\ "pinned" \in DOMAIN own /\ "pinned" \in DOMAIN e
      /\ e.pinned = own.pinned
  BY <1>2 DEF Extracted, RecordOK
<1>4. ASSUME NEW low \in BOOLEAN, EndsWith(o, w(low), "reviewNeeded")
      PROVE  ChoiceInv'
  <2> DEFINE r == w(low)
  <2>1. EndsWith(o, r, "reviewNeeded")
    BY <1>4
  <2> HIDE DEF e
  <2>2. "pinned" \in DOMAIN r /\ r.pinned = own.pinned
    BY <1>3
  <2> HIDE DEF r
  <2>3. QED
    BY <1>1, <1>2, <2>1, <2>2, ChoiceEndsWith
<1>5. CASE EndsWith(o, own, "reviewNeeded")
  BY <1>1, <1>2, <1>3, <1>5, ChoiceEndsWith
<1>6. QED
  BY <1>4, <1>5 DEF Analyzed

LEMMA FetchedChoices ==
    ASSUME StoreInv, ChoiceInv, ~LateRequests, NEW o \in Actors, Fetched(o)
    PROVE  ChoiceInv'
<1> DEFINE t == op[o]
           w == Extracted(t.own)
           n == [t EXCEPT !.plan = <<"confidence">>, !.own = w]
<1>1. At(o, "fetched") /\ UNCHANGED <<manifest, choice>>
  BY DEF Fetched
<1>2. /\ o \in Jobs /\ RecordOK(t.own) /\ {"plan", "own", "scope"} \subseteq DOMAIN t
      /\ LeftOut(choice, manifest, t.own.pinned)
  BY <1>1, JobChooses DEF JobSteps
<1>3. "pinned" \in DOMAIN t.own /\ w.pinned = t.own.pinned
  BY <1>2 DEF Extracted, RecordOK
<1>4. CASE record' = w /\ Put(o, [t EXCEPT !.plan = <<"confidence">>, !.own = record'])
  <2>1. Put(o, n)
    BY <1>4
  <2> HIDE DEF w
  <2>2. n.plan = <<"confidence">> /\ n.own = w /\ n.scope = t.scope
    BY <1>2
  <2> HIDE DEF n
  <2>3. QED
    BY <1>1, <1>2, <1>3, <1>4, <2>1, <2>2, ChoiceJob DEF JobSteps
<1>5. CASE EndsWith(o, t.own, "reviewNeeded")
  BY <1>1, <1>2, <1>3, <1>5, ChoiceEndsWith
<1>6. QED
  BY <1>4, <1>5 DEF Fetched

LEMMA ConfidenceChoices ==
    ASSUME StoreInv, ChoiceInv, ~LateRequests, NEW o \in Actors, Confidence(o)
    PROVE  ChoiceInv'
<1> DEFINE t == op[o]
           w == [t.own EXCEPT !.status = "generating"]
           n == [t EXCEPT !.plan = <<"await", "collected">>, !.own = w]
<1>1. At(o, "confidence") /\ UNCHANGED <<manifest, choice>>
  BY DEF Confidence, history
<1>2. /\ o \in Jobs /\ RecordOK(t.own) /\ {"plan", "own", "scope"} \subseteq DOMAIN t
      /\ LeftOut(choice, manifest, t.own.pinned)
  BY <1>1, JobChooses DEF JobSteps, LateSteps
<1>3. "pinned" \in DOMAIN t.own /\ w.pinned = t.own.pinned
  BY <1>2 DEF RecordOK
<1>4. CASE t.own.low
  <2>1. EndsWith(o, t.own, "reviewNeeded")
    BY <1>4 DEF Confidence
  <2>2. QED
    BY <1>1, <1>2, <1>3, <2>1, ChoiceEndsWith
<1>5. CASE ~t.own.low
  <2>1. Put(o, n) /\ record' = w
    BY <1>5 DEF Confidence
  <2> HIDE DEF w
  <2>2. n.plan = <<"await", "collected">> /\ n.own = w /\ n.scope = t.scope
    BY <1>2
  <2> HIDE DEF n
  <2>3. QED
    BY <1>1, <1>2, <1>3, <2>1, <2>2, ChoiceJob DEF JobSteps, LateSteps
<1>6. QED
  BY <1>4, <1>5

LEMMA CollectedChoices ==
    ASSUME StoreInv, ChoiceInv, ~LateRequests, NEW o \in Actors, Collected(o)
    PROVE  ChoiceInv'
<1> DEFINE t == op[o]
           picked == [t.own EXCEPT !.dart = "picked"]
           several == [t.own EXCEPT !.dart = "candidates"]
           n(own) == [t EXCEPT !.plan = <<"await", "companyPhase">>, !.own = own]
<1>1. At(o, "collected") /\ UNCHANGED <<manifest, choice>>
  BY DEF Collected, history
<1>2. /\ o \in Jobs /\ RecordOK(t.own) /\ {"plan", "own", "scope"} \subseteq DOMAIN t
      /\ LeftOut(choice, manifest, t.own.pinned)
  BY <1>1, JobChooses DEF JobSteps, LateSteps
<1>3. /\ picked.pinned = t.own.pinned /\ several.pinned = t.own.pinned
      /\ "pinned" \in DOMAIN several
  BY <1>2 DEF RecordOK
<1>4. ASSUME NEW own, own.pinned = t.own.pinned, Put(o, n(own)),
             record' = record \/ record' = own
      PROVE  ChoiceInv'
  <2> DEFINE k == n(own)
  <2>1. k.plan = <<"await", "companyPhase">> /\ k.own = own /\ k.scope = t.scope /\ Put(o, k)
    BY <1>2, <1>4
  <2> HIDE DEF k
  <2>2. QED
    BY <1>1, <1>2, <1>4, <2>1, ChoiceJob DEF JobSteps, LateSteps
<1>5. CASE EndsWith(o, several, "reviewNeeded")
  BY <1>1, <1>2, <1>3, <1>5, ChoiceEndsWith
<1>6. CASE record' = picked /\ Put(o, n(record'))
  <2>1. Put(o, n(picked))
    BY <1>6
  <2> HIDE DEF n, picked
  <2>2. QED
    BY <1>3, <1>4, <1>6, <2>1
<1>7. CASE Put(o, [t EXCEPT !.plan = <<"await", "companyPhase">>]) /\ UNCHANGED record
  <2>1. [t EXCEPT !.plan = <<"await", "companyPhase">>] = n(t.own)
    BY <1>2
  <2>2. Put(o, n(t.own)) /\ record' = record
    BY <1>7, <2>1
  <2> HIDE DEF n
  <2>3. QED
    BY <1>4, <2>2
<1>8. QED
  BY <1>5, <1>6, <1>7 DEF Collected

\* The two phases that generate.
LEMMA PhaseChoices ==
    ASSUME StoreInv, ChoiceInv, ~LateRequests, NEW o \in Actors,
           CompanyPhase(o) \/ SupportPhase(o)
    PROVE  ChoiceInv'
<1> DEFINE t == op[o]
           company == [t EXCEPT !.plan = <<"findGenerated", "await", "supportPhase">>,
                                !.title = "company", !.pin = TRUE]
           support == [t EXCEPT !.plan = <<"findGenerated", "writeReady">>,
                                !.title = "supporting", !.pin = TRUE,
                                !.failed = <<"writeStale">>]
<1>1. PICK step \in {"companyPhase", "supportPhase"} :
        /\ At(o, step) /\ UNCHANGED <<manifest, choice>>
        /\ \/ EndsWith(o, t.own, "error")
           \/ Put(o, company) /\ UNCHANGED record
           \/ Put(o, support) /\ UNCHANGED record
  BY DEF CompanyPhase, SupportPhase, history
<1>2. step \in JobSteps
  BY DEF JobSteps, LateSteps
<1>3. /\ o \in Jobs /\ RecordOK(t.own) /\ LeftOut(choice, manifest, t.own.pinned)
      /\ {"plan", "own", "scope", "title", "pin", "failed"} \subseteq DOMAIN t
  BY <1>1, <1>2, JobChooses
<1>4. "pinned" \in DOMAIN t.own
  BY <1>3 DEF RecordOK
<1>5. CASE EndsWith(o, t.own, "error")
  BY <1>1, <1>3, <1>4, <1>5, ChoiceEndsWith
<1>6. ASSUME NEW n \in {company, support}, Put(o, n), UNCHANGED record
      PROVE  ChoiceInv'
  <2>1. /\ n.own = t.own /\ n.scope = t.scope
        /\ n.plan \in {<<"findGenerated", "await", "supportPhase">>,
                       <<"findGenerated", "writeReady">>}
    BY <1>3, <1>6
  <2>2. QED
    BY <1>1, <1>2, <1>3, <1>6, <2>1, ChoiceJob
<1>7. QED
  BY <1>1, <1>5, <1>6

LEMMA JobEndChoices ==
    ASSUME StoreInv, ChoiceInv, ~LateRequests, NEW o \in Actors,
           WriteReady(o) \/ WriteStale(o) \/ WriteError(o)
    PROVE  ChoiceInv'
<1> DEFINE own == op[o].own
           w == [own EXCEPT !.generated = TRUE]
<1>1. CASE WriteReady(o) \/ WriteStale(o)
  <2>1. PICK step \in {"writeReady", "writeStale"} :
          /\ At(o, step) /\ UNCHANGED <<manifest, choice>>
          /\ EndsWith(o, w, "ready") \/ EndsWith(o, own, "error")
    BY <1>1 DEF WriteReady, WriteStale, history
  <2>2. step \in JobSteps
    BY DEF JobSteps, LateSteps
  <2>3. RecordOK(own) /\ LeftOut(choice, manifest, own.pinned)
    BY <2>1, <2>2, JobChooses
  <2>4. {"pinned"} \subseteq DOMAIN own \cap DOMAIN w /\ w.pinned = own.pinned
    BY <2>3 DEF RecordOK
  <2> HIDE DEF w
  <2>5. QED
    BY <2>1, <2>3, <2>4, ChoiceEndsWith
<1>2. CASE WriteError(o)
  <2>1. /\ At(o, "writeError") /\ EndsWith(o, op[o].rec, "error")
        /\ UNCHANGED <<manifest, choice>>
    BY <1>2 DEF WriteError, history
  <2>2. record # NoFile /\ op[o].rec = record /\ RecordOK(record)
    BY <2>1, WriterReads DEF Writers
  <2>3. "pinned" \in DOMAIN record /\ LeftOut(choice, manifest, record.pinned)
    BY <2>1, <2>2, Choosing DEF ChoiceOK, RecordOK
  <2>4. QED
    BY <2>1, <2>2, <2>3, ChoiceEndsWith
<1>3. QED
  BY <1>1, <1>2

-----------------------------------------------------------------------------
(***************************************************************************)
(* The steps that write a manifest, and the mark in the record.            *)
(***************************************************************************)
\* A step that goes on with what it knows.
LEMMA ChoicePasses ==
    ASSUME StoreInv, ChoiceInv, ~LateRequests, NEW o \in Actors, NEW step, At(o, step),
           GoesOn(o), ManifestsOK(manifest'), ChoiceOK(choice', record', manifest'),
           \A j \in Jobs : LeftOut(choice', manifest', op[j].own.pinned),
           ChoiceFacts(StepsOf(Rest(o)), op[o], record', manifest'),
           "addDocument" \notin StepsOf(Rest(o))
    PROVE  ChoiceInv'
<1> DEFINE n == [op[o] EXCEPT !.plan = Rest(o)]
<1>1. /\ {"plan", "doc", "pin", "scope", "man", "own"} \subseteq DOMAIN op[o]
      /\ \A p \in Actors \ {o} : Resting(p)
  BY Moving DEF OpOK
<1>2. /\ n.plan = Rest(o) /\ n.doc = op[o].doc /\ n.pin = op[o].pin
      /\ n.scope = op[o].scope /\ n.man = op[o].man /\ n.own = op[o].own /\ Put(o, n)
  BY <1>1 DEF GoesOn
<1> HIDE DEF n
<1>3. ChoiceFacts(StepsOf(n.plan), n, record', manifest')
  BY <1>2 DEF ChoiceFacts
<1>4. QED
  BY <1>1, <1>2, <1>3, ChoiceMoves

\* A project is made where there was none.
LEMMA MakeManifestChoices ==
    ASSUME StoreInv, ChoiceInv, ~LateRequests, NEW o \in Actors, MakeManifest(o)
    PROVE  ChoiceInv'
<1> DEFINE t == op[o]
           S == StepsOf(Rest(o))
<1>1. /\ At(o, "makeManifest") /\ GoesOn(o) /\ UNCHANGED <<record, choice>>
      /\ manifest' = [manifest EXCEPT !["project"] = << >>]
  BY DEF MakeManifest, history
<1>2. /\ DiskOK(record, manifest, files) /\ StepsOf(t.plan) = {"makeManifest"} \cup S
      /\ \A b \in S : ~Bars("makeManifest", b)
  BY <1>1, Moving
<1>3. /\ ManifestsOK(manifest) /\ ChoiceOK(choice, record, manifest)
      /\ \A j \in Jobs : LeftOut(choice, manifest, op[j].own.pinned)
      /\ ChoiceFacts(StepsOf(t.plan), t, record, manifest) /\ t.scope = "project"
  BY <1>1, Choosing DEF ProfileSteps
<1>4. manifest["project"] = << >>
  BY <1>2, <1>3 DEF ChoiceFacts
<1>5. \A s \in Scopes : manifest'[s] = manifest[s]
  BY <1>1, <1>2, <1>4 DEF DiskOK
<1>6. ManifestsOK(manifest')
  BY <1>3, <1>5 DEF ManifestsOK, Scopes
<1>7. ChoiceOK(choice', record', manifest')
  BY <1>1, <1>3, <1>5 DEF ChoiceOK, LeftOut, Scopes
<1>8. \A j \in Jobs : LeftOut(choice', manifest', op[j].own.pinned)
  BY <1>1, <1>3, <1>5 DEF LeftOut, Scopes
<1>9. S \cap (Entering \cup {"markRecord", "makeManifest"}) = {}
  BY <1>2 DEF Bars, DocSteps, Entering
<1> HIDE DEF S
<1>10. ChoiceFacts(S, t, record', manifest') /\ "addDocument" \notin S
  BY <1>3, <1>9 DEF ChoiceFacts, Entering
<1>11. QED
  BY <1>1, <1>6, <1>7, <1>8, <1>10, ChoicePasses DEF S

\* What a step that writes back the manifest it has read finds there.
LEMMA Enters ==
    ASSUME StoreInv, ChoiceInv, ~LateRequests, NEW o \in Actors,
           NEW step \in Entering, At(o, step), NEW m, Saved(o, m)
    PROVE  /\ op[o].scope \in Scopes /\ op[o].man = manifest[op[o].scope]
           /\ \A s \in Scopes : manifest'[s] = IF s = op[o].scope THEN m ELSE manifest[s]
           /\ StepsOf(Rest(o)) \cap (Entering \cup {"makeManifest"}) = {}
           /\ StepsOf(op[o].plan) = {step} \cup StepsOf(Rest(o))
           /\ StepsOf(op[o].plan) \cap Reading = {}
<1> DEFINE t == op[o]
           S == StepsOf(Rest(o))
<1>1. /\ DiskOK(record, manifest, files) /\ StepsOf(t.plan) = {step} \cup S
      /\ OpOK(o, t) /\ \A b \in S : ~Bars(step, b)
  BY Moving
<1>2. ChoiceFacts(StepsOf(t.plan), t, record, manifest)
  BY Choosing
<1>3. t.scope \in Scopes /\ DOMAIN manifest = Scopes
  BY <1>1 DEF OpOK, DiskOK
<1>4. \A s \in Scopes : manifest'[s] = IF s = t.scope THEN m ELSE manifest[s]
  BY <1>3 DEF Saved
<1>5. S \cap (Entering \cup Reading \cup {"makeManifest"}) = {}
  BY <1>1 DEF Bars, DocSteps, Entering, Reading
<1>6. StepsOf(t.plan) \cap Reading = {}
  BY <1>1, <1>5 DEF Entering, Reading
<1>7. t.man = manifest[t.scope]
  BY <1>1, <1>2, <1>6 DEF ChoiceFacts, Entering
<1>8. QED
  BY <1>1, <1>3, <1>4, <1>5, <1>6, <1>7

LEMMA AddDocumentChoices ==
    ASSUME StoreInv, ChoiceInv, ~LateRequests, NEW o \in Actors, AddDocument(o)
    PROVE  ChoiceInv'
<1> DEFINE t == op[o]
           S == StepsOf(Rest(o))
           M == [d \in DOMAIN t.man \cup {t.doc} |->
                   IF d = t.doc THEN Entry(o) ELSE t.man[d]]
<1>1. /\ At(o, "addDocument") /\ GoesOn(o) /\ record' = record /\ Saved(o, M)
      /\ choice' = [choice EXCEPT ![t.doc] =
                      IF ~t.pin THEN "out" ELSE IF t.scope = "profile" THEN "in" ELSE @]
  BY DEF AddDocument
<1>2. /\ ManifestsOK(manifest) /\ ChoiceOK(choice, record, manifest)
      /\ \A j \in Jobs : LeftOut(choice, manifest, op[j].own.pinned)
      /\ ChoiceFacts(StepsOf(t.plan), t, record, manifest) /\ Unseen(o)
  BY <1>1, Choosing
<1>3. /\ t.scope \in Scopes /\ t.man = manifest[t.scope]
      /\ \A s \in Scopes : manifest'[s] = IF s = t.scope THEN M ELSE manifest[s]
      /\ S \cap (Entering \cup {"makeManifest"}) = {}
      /\ StepsOf(t.plan) = {"addDocument"} \cup S
  BY <1>1, Enters DEF Entering
<1>4. /\ \A s \in Scopes : t.doc \notin DOMAIN manifest[s]
      /\ ~t.pin /\ record # NoFile => t.doc \notin record.pinned
      /\ ~t.pin => \A j \in Jobs : t.doc \notin op[j].own.pinned
      /\ t.scope # "project" => S \subseteq ProfileSteps
  BY <1>2, <1>3 DEF ChoiceFacts, Unseen
<1>5. /\ DOMAIN M = DOMAIN t.man \cup {t.doc}
      /\ \A d \in DOMAIN t.man : d # t.doc => M[d] = t.man[d]
      /\ "pin" \in DOMAIN M[t.doc] /\ M[t.doc].pin = t.pin
  BY DEF Entry
<1> HIDE DEF M, S
<1>6. \A s \in Scopes : \A d :
        d # t.doc => /\ d \in DOMAIN manifest'[s] <=> d \in DOMAIN manifest[s]
                     /\ d \in DOMAIN manifest[s] => manifest'[s][d] = manifest[s][d]
  BY <1>3, <1>5
<1>7. \A s \in Scopes :
        /\ t.doc \in DOMAIN manifest'[s] <=> s = t.scope
        /\ s = t.scope => /\ "pin" \in DOMAIN manifest'[s][t.doc]
                          /\ manifest'[s][t.doc].pin = t.pin
  BY <1>3, <1>4, <1>5
<1>8. ManifestsOK(manifest')
  <2>1. DOMAIN manifest'["project"] \cap DOMAIN manifest'["profile"] = {}
    BY <1>2, <1>6, <1>7 DEF ManifestsOK, Scopes
  <2>2. \A s \in Scopes : \A d \in DOMAIN manifest'[s] : "pin" \in DOMAIN manifest'[s][d]
    BY <1>2, <1>6, <1>7 DEF ManifestsOK
  <2>3. QED
    BY <2>1, <2>2 DEF ManifestsOK
<1>9. /\ DOMAIN choice = Docs /\ DOMAIN choice' = Docs
      /\ \A d \in Docs : d # t.doc => choice'[d] = choice[d]
  BY <1>1, <1>2 DEF ChoiceOK
<1>10. t.doc \in Docs => /\ choice'[t.doc] \in {"in", "out", "none"}
                         /\ choice'[t.doc] = "in" => t.pin
                         /\ choice'[t.doc] = "out" => ~t.pin
  <2> SUFFICES ASSUME t.doc \in Docs
               PROVE  /\ choice'[t.doc] \in {"in", "out", "none"}
                      /\ choice'[t.doc] = "in" => t.pin
                      /\ choice'[t.doc] = "out" => ~t.pin
    OBVIOUS
  <2>1. choice[t.doc] = "none"
    BY <1>2, <1>4 DEF ChoiceOK
  <2>2. choice'[t.doc] = IF ~t.pin THEN "out"
                         ELSE IF t.scope = "profile" THEN "in" ELSE choice[t.doc]
    BY <1>1, <1>9
  <2>3. QED
    BY <2>1, <2>2
<1>11. ASSUME NEW pins, LeftOut(choice, manifest, pins), ~t.pin => t.doc \notin pins
       PROVE  LeftOut(choice', manifest', pins)
  BY <1>6, <1>9, <1>10, <1>11 DEF LeftOut, Scopes
<1>12. ChoiceOK(choice', record', manifest')
  <2>1. ASSUME NEW d \in Docs
        PROVE  /\ choice'[d] # "none" => \E s \in Scopes : d \in DOMAIN manifest'[s]
               /\ choice'[d] = "in" =>
                    \E s \in Scopes : d \in DOMAIN manifest'[s] /\ manifest'[s][d].pin
               /\ choice'[d] = "out" =>
                    \A s \in Scopes : d \in DOMAIN manifest'[s] => ~manifest'[s][d].pin
    <3>1. CASE d = t.doc
      BY <1>3, <1>7, <1>10, <3>1
    <3>2. CASE d # t.doc
      <4>1. /\ choice'[d] = choice[d]
            /\ \A s \in Scopes :
                 /\ d \in DOMAIN manifest'[s] <=> d \in DOMAIN manifest[s]
                 /\ d \in DOMAIN manifest[s] => manifest'[s][d] = manifest[s][d]
        BY <1>6, <1>9, <3>2
      <4>2. QED
        BY <1>2, <4>1 DEF ChoiceOK
    <3>3. QED
      BY <3>1, <3>2
  <2>2. record' # NoFile => LeftOut(choice', manifest', record'.pinned)
    BY <1>1, <1>2, <1>4, <1>11 DEF ChoiceOK
  <2>3. QED
    BY <1>9, <2>1, <2>2 DEF ChoiceOK
<1>13. \A j \in Jobs : LeftOut(choice', manifest', op[j].own.pinned)
  BY <1>2, <1>4, <1>11
<1>14. ChoiceFacts(S, t, record', manifest')
  <2>1. "markRecord" \in S => t.scope = "project"
    BY <1>4 DEF ProfileSteps
  <2>2. "markRecord" \in S => /\ t.doc \in DOMAIN manifest'["project"]
                              /\ manifest'["project"][t.doc].pin = t.pin
    BY <1>7, <2>1 DEF Scopes
  <2>3. QED
    BY <1>3, <1>4, <2>2 DEF ChoiceFacts, Entering
<1>15. QED
  BY <1>1, <1>3, <1>8, <1>12, <1>13, <1>14, ChoicePasses DEF S, Entering

LEMMA MarkDocumentChoices ==
    ASSUME StoreInv, ChoiceInv, ~LateRequests, NEW o \in Actors, MarkDocument(o)
    PROVE  ChoiceInv'
<1> DEFINE t == op[o]
           S == StepsOf(Rest(o))
           M == [d \in DOMAIN t.man |->
                   IF d = t.doc THEN [t.man[d] EXCEPT !.pin = t.pin] ELSE t.man[d]]
<1>1. /\ At(o, "markDocument") /\ GoesOn(o) /\ record' = record /\ Saved(o, M)
      /\ choice' = [choice EXCEPT ![t.doc] = IF t.scope = "project" THEN "none"
                                             ELSE IF t.pin THEN "in" ELSE "out"]
  BY DEF MarkDocument
<1>2. /\ ManifestsOK(manifest) /\ ChoiceOK(choice, record, manifest)
      /\ \A j \in Jobs : LeftOut(choice, manifest, op[j].own.pinned)
      /\ ChoiceFacts(StepsOf(t.plan), t, record, manifest)
  BY <1>1, Choosing
<1>3. /\ t.scope \in Scopes /\ t.man = manifest[t.scope]
      /\ \A s \in Scopes : manifest'[s] = IF s = t.scope THEN M ELSE manifest[s]
      /\ S \cap (Entering \cup {"makeManifest"}) = {}
      /\ StepsOf(t.plan) = {"markDocument"} \cup S /\ StepsOf(t.plan) \cap Reading = {}
  BY <1>1, Enters DEF Entering
<1>4. /\ t.scope = "profile" => t.doc \in DOMAIN manifest["profile"]
      /\ "markRecord" \in S /\ t.pin => t.doc \in DOMAIN manifest["project"]
      /\ t.scope # "project" => S \subseteq ProfileSteps
  BY <1>2, <1>3 DEF ChoiceFacts, Reading
<1>5. /\ DOMAIN M = DOMAIN t.man
      /\ \A d \in DOMAIN t.man : d # t.doc => M[d] = t.man[d]
      /\ t.doc \in DOMAIN t.man /\ "pin" \in DOMAIN t.man[t.doc]
           => "pin" \in DOMAIN M[t.doc] /\ M[t.doc].pin = t.pin
  OBVIOUS
<1> HIDE DEF M, S
<1>6. \A s \in Scopes : \A d :
        /\ d \in DOMAIN manifest'[s] <=> d \in DOMAIN manifest[s]
        /\ d # t.doc /\ d \in DOMAIN manifest[s] => manifest'[s][d] = manifest[s][d]
  BY <1>3, <1>5
<1>7. t.doc \in DOMAIN manifest'[t.scope]
        => /\ "pin" \in DOMAIN manifest'[t.scope][t.doc]
           /\ manifest'[t.scope][t.doc].pin = t.pin
  BY <1>2, <1>3, <1>5 DEF ManifestsOK
<1>8. ManifestsOK(manifest')
  <2>1. DOMAIN manifest'["project"] \cap DOMAIN manifest'["profile"] = {}
    BY <1>2, <1>6 DEF ManifestsOK, Scopes
  <2>2. ASSUME NEW s \in Scopes, NEW d \in DOMAIN manifest'[s]
        PROVE  "pin" \in DOMAIN manifest'[s][d]
    <3>1. CASE s = t.scope /\ d = t.doc
      BY <1>7, <3>1, <2>2
    <3>2. CASE d # t.doc
      BY <1>2, <1>6, <2>2, <3>2 DEF ManifestsOK
    <3>3. CASE s # t.scope
      BY <1>2, <1>3, <2>2, <3>3 DEF ManifestsOK
    <3>4. QED
      BY <3>1, <3>2, <3>3
  <2>3. QED
    BY <2>1, <2>2 DEF ManifestsOK
<1>9. /\ DOMAIN choice = Docs /\ DOMAIN choice' = Docs
      /\ \A d \in Docs : choice'[d] = IF d # t.doc THEN choice[d]
                                      ELSE IF t.scope = "project" THEN "none"
                                      ELSE IF t.pin THEN "in" ELSE "out"
  BY <1>1, <1>2 DEF ChoiceOK
<1>10. ASSUME NEW pins, LeftOut(choice, manifest, pins)
       PROVE  LeftOut(choice', manifest', pins)
  <2> SUFFICES ASSUME NEW d \in Docs, choice'[d] = "out", d \in DOMAIN manifest'["project"]
               PROVE  d \notin pins
    BY DEF LeftOut
  <2>1. d \in DOMAIN manifest["project"]
    BY <1>6 DEF Scopes
  <2>2. d # t.doc
    <3> SUFFICES ASSUME d = t.doc PROVE FALSE
      OBVIOUS
    <3>1. t.scope = "profile"
      BY <1>3, <1>9 DEF Scopes
    <3>2. QED
      BY <1>2, <1>4, <2>1, <3>1 DEF ManifestsOK
  <2>3. QED
    BY <1>9, <1>10, <2>1, <2>2 DEF LeftOut
<1>11. ChoiceOK(choice', record', manifest')
  <2>1. ASSUME NEW d \in Docs
        PROVE  /\ choice'[d] # "none" => \E s \in Scopes : d \in DOMAIN manifest'[s]
               /\ choice'[d] = "in" =>
                    \E s \in Scopes : d \in DOMAIN manifest'[s] /\ manifest'[s][d].pin
               /\ choice'[d] = "out" =>
                    \A s \in Scopes : d \in DOMAIN manifest'[s] => ~manifest'[s][d].pin
    <3>1. CASE d = t.doc /\ t.scope = "project"
      BY <1>9, <3>1
    <3>2. CASE d = t.doc /\ t.scope # "project"
      <4>1. t.scope = "profile" /\ d \in DOMAIN manifest["profile"]
        BY <1>3, <1>4, <3>2 DEF Scopes
      <4>2. /\ d \in DOMAIN manifest'["profile"] /\ manifest'["profile"][d].pin = t.pin
            /\ d \notin DOMAIN manifest'["project"]
        BY <1>2, <1>6, <1>7, <3>2, <4>1 DEF ManifestsOK, Scopes
      <4>3. choice'[d] = IF t.pin THEN "in" ELSE "out"
        BY <1>9, <3>2
      <4>4. QED
        BY <4>2, <4>3 DEF Scopes
    <3>3. CASE d # t.doc
      <4>1. /\ choice'[d] = choice[d]
            /\ \A s \in Scopes :
                 /\ d \in DOMAIN manifest'[s] <=> d \in DOMAIN manifest[s]
                 /\ d \in DOMAIN manifest[s] => manifest'[s][d] = manifest[s][d]
        BY <1>6, <1>9, <3>3
      <4>2. QED
        BY <1>2, <4>1 DEF ChoiceOK
    <3>4. QED
      BY <3>1, <3>2, <3>3
  <2>2. record' # NoFile => LeftOut(choice', manifest', record'.pinned)
    BY <1>1, <1>2, <1>10 DEF ChoiceOK
  <2>3. QED
    BY <1>9, <2>1, <2>2 DEF ChoiceOK
<1>12. \A j \in Jobs : LeftOut(choice', manifest', op[j].own.pinned)
  BY <1>2, <1>10
<1>13. ChoiceFacts(S, t, record', manifest')
  <2>1. "markRecord" \in S => t.scope = "project"
    BY <1>4 DEF ProfileSteps
  <2>2. "markRecord" \in S =>
          /\ t.doc \in DOMAIN manifest'["project"] => manifest'["project"][t.doc].pin = t.pin
          /\ t.pin => t.doc \in DOMAIN manifest'["project"]
    BY <1>4, <1>6, <1>7, <2>1 DEF Scopes
  <2>3. QED
    BY <1>3, <1>4, <2>2 DEF ChoiceFacts, Entering
<1>14. QED
  BY <1>1, <1>3, <1>8, <1>11, <1>12, <1>13, ChoicePasses DEF S, Entering

LEMMA DropDocumentChoices ==
    ASSUME StoreInv, ChoiceInv, ~LateRequests, NEW o \in Actors, DropDocument(o)
    PROVE  ChoiceInv'
<1> DEFINE t == op[o]
           S == StepsOf(Rest(o))
           M == [d \in DOMAIN t.man \ {t.doc} |-> t.man[d]]
<1>1. /\ At(o, "dropDocument") /\ GoesOn(o) /\ record' = record /\ Saved(o, M)
      /\ choice' = [choice EXCEPT ![t.doc] = "none"]
  BY DEF DropDocument
<1>2. /\ ManifestsOK(manifest) /\ ChoiceOK(choice, record, manifest)
      /\ \A j \in Jobs : LeftOut(choice, manifest, op[j].own.pinned)
      /\ ChoiceFacts(StepsOf(t.plan), t, record, manifest) /\ t.scope = "project"
  BY <1>1, Choosing DEF ProfileSteps
<1>3. /\ t.man = manifest["project"]
      /\ \A s \in Scopes : manifest'[s] = IF s = "project" THEN M ELSE manifest[s]
      /\ S \cap (Entering \cup {"makeManifest"}) = {}
      /\ StepsOf(t.plan) = {"dropDocument"} \cup S
  BY <1>1, <1>2, Enters DEF Entering
<1>4. ~t.pin
  BY <1>2, <1>3 DEF ChoiceFacts
<1>5. DOMAIN M = DOMAIN t.man \ {t.doc} /\ \A d \in DOMAIN M : M[d] = t.man[d]
  OBVIOUS
<1> HIDE DEF M, S
<1>6. /\ \A s \in Scopes : \A d :
           /\ d \in DOMAIN manifest'[s] => /\ d \in DOMAIN manifest[s]
                                           /\ manifest'[s][d] = manifest[s][d]
           /\ d # t.doc /\ d \in DOMAIN manifest[s] => d \in DOMAIN manifest'[s]
      /\ t.doc \notin DOMAIN manifest'["project"]
  BY <1>3, <1>5 DEF Scopes
<1>7. ManifestsOK(manifest')
  <2>1. DOMAIN manifest'["project"] \cap DOMAIN manifest'["profile"] = {}
    BY <1>2, <1>6 DEF ManifestsOK, Scopes
  <2>2. \A s \in Scopes : \A d \in DOMAIN manifest'[s] : "pin" \in DOMAIN manifest'[s][d]
    BY <1>2, <1>6 DEF ManifestsOK
  <2>3. QED
    BY <2>1, <2>2 DEF ManifestsOK
<1>8. /\ DOMAIN choice = Docs /\ DOMAIN choice' = Docs
      /\ \A d \in Docs : choice'[d] = IF d # t.doc THEN choice[d] ELSE "none"
  BY <1>1, <1>2 DEF ChoiceOK
<1>9. ASSUME NEW pins, LeftOut(choice, manifest, pins)
      PROVE  LeftOut(choice', manifest', pins)
  BY <1>6, <1>8, <1>9 DEF LeftOut, Scopes
<1>10. ChoiceOK(choice', record', manifest')
  <2>1. ASSUME NEW d \in Docs
        PROVE  /\ choice'[d] # "none" => \E s \in Scopes : d \in DOMAIN manifest'[s]
               /\ choice'[d] = "in" =>
                    \E s \in Scopes : d \in DOMAIN manifest'[s] /\ manifest'[s][d].pin
               /\ choice'[d] = "out" =>
                    \A s \in Scopes : d \in DOMAIN manifest'[s] => ~manifest'[s][d].pin
    <3>1. CASE d = t.doc
      BY <1>8, <3>1
    <3>2. CASE d # t.doc
      <4>1. /\ choice'[d] = choice[d]
            /\ \A s \in Scopes :
                 /\ d \in DOMAIN manifest'[s] <=> d \in DOMAIN manifest[s]
                 /\ d \in DOMAIN manifest[s] => manifest'[s][d] = manifest[s][d]
        BY <1>6, <1>8, <3>2
      <4>2. QED
        BY <1>2, <4>1 DEF ChoiceOK
    <3>3. QED
      BY <3>1, <3>2
  <2>2. record' # NoFile => LeftOut(choice', manifest', record'.pinned)
    BY <1>1, <1>2, <1>9 DEF ChoiceOK
  <2>3. QED
    BY <1>8, <2>1, <2>2 DEF ChoiceOK
<1>11. \A j \in Jobs : LeftOut(choice', manifest', op[j].own.pinned)
  BY <1>2, <1>9
<1>12. ChoiceFacts(S, t, record', manifest')
  BY <1>2, <1>3, <1>4, <1>6 DEF ChoiceFacts, Entering
<1>13. QED
  BY <1>1, <1>3, <1>7, <1>10, <1>11, <1>12, ChoicePasses DEF S, Entering

LEMMA RemoveProjectChoices ==
    ASSUME StoreInv, ChoiceInv, ~LateRequests, NEW o \in Actors, RemoveProject(o)
    PROVE  ChoiceInv'
<1> DEFINE t == op[o]
           S == StepsOf(Rest(o))
<1>1. /\ At(o, "removeProject") /\ GoesOn(o) /\ record' = NoFile
      /\ manifest' = [manifest EXCEPT !["project"] = << >>]
      /\ choice' = [d \in Docs |-> IF d \in DOMAIN manifest["profile"]
                                   THEN choice[d] ELSE "none"]
  BY DEF RemoveProject
<1>2. /\ ManifestsOK(manifest) /\ ChoiceOK(choice, record, manifest) /\ t.scope = "project"
  BY <1>1, Choosing DEF ProfileSteps
<1>3. DiskOK(record, manifest, files) /\ \A b \in S : ~Bars("removeProject", b)
  BY <1>1, Moving
<1>4. /\ manifest'["project"] = << >> /\ DOMAIN manifest'["project"] = {}
      /\ manifest'["profile"] = manifest["profile"]
  BY <1>1, <1>3 DEF DiskOK, Scopes
<1>5. ManifestsOK(manifest')
  BY <1>2, <1>4 DEF ManifestsOK, Scopes
<1>6. \A pins : LeftOut(choice', manifest', pins)
  BY <1>4 DEF LeftOut
<1>7. ChoiceOK(choice', record', manifest')
  <2>1. ASSUME NEW d \in Docs
        PROVE  /\ choice'[d] # "none" => \E s \in Scopes : d \in DOMAIN manifest'[s]
               /\ choice'[d] = "in" =>
                    \E s \in Scopes : d \in DOMAIN manifest'[s] /\ manifest'[s][d].pin
               /\ choice'[d] = "out" =>
                    \A s \in Scopes : d \in DOMAIN manifest'[s] => ~manifest'[s][d].pin
    <3>1. CASE d \notin DOMAIN manifest["profile"]
      BY <1>1, <3>1
    <3>2. CASE d \in DOMAIN manifest["profile"]
      <4>1. choice'[d] = choice[d] /\ d \notin DOMAIN manifest["project"]
        BY <1>1, <1>2, <3>2 DEF ManifestsOK
      <4>2. /\ choice[d] = "in" => manifest["profile"][d].pin
            /\ choice[d] = "out" => ~manifest["profile"][d].pin
        BY <1>2, <3>2, <4>1 DEF ChoiceOK, Scopes
      <4>3. QED
        BY <1>4, <3>2, <4>1, <4>2 DEF Scopes
    <3>3. QED
      BY <3>1, <3>2
  <2>2. QED
    BY <1>1, <2>1 DEF ChoiceOK
<1>8. S \cap (Entering \cup {"markRecord", "makeManifest"}) = {}
  BY <1>3 DEF Bars, DocSteps, Entering
<1> HIDE DEF S
<1>9. ChoiceFacts(S, t, record', manifest') /\ "addDocument" \notin S
  BY <1>2, <1>8 DEF ChoiceFacts, Entering
<1>10. QED
  BY <1>1, <1>5, <1>6, <1>7, <1>9, ChoicePasses DEF S

\* The mark in the record agrees with the pin in the manifest.
LEMMA MarkRecordChoices ==
    ASSUME StoreInv, ChoiceInv, ~LateRequests, NEW o \in Actors, MarkRecord(o)
    PROVE  ChoiceInv'
<1> DEFINE t == op[o]
           d == t.doc
           S == StepsOf(Rest(o))
           project == manifest["project"]
           pins == IF t.pin THEN record.pinned \cup {d} ELSE record.pinned \ {d}
<1>1. At(o, "markRecord")
  BY DEF MarkRecord
<1>2. record # NoFile /\ t.rec = record /\ RecordOK(record)
  BY <1>1, WriterReads DEF Writers
<1>3. /\ GoesOn(o) /\ manifest' = manifest
      /\ record' = [record EXCEPT !.pinned = pins]
      /\ choice' = [choice EXCEPT ![d] =
                      IF t.pin THEN "in"
                      ELSE IF d \in DOMAIN project /\ \A j \in Jobs : op[j] = Idle
                        THEN "out" ELSE "none"]
  BY <1>2 DEF MarkRecord
<1>4. record'.pinned = pins
  BY <1>2, <1>3 DEF RecordOK
<1>5. /\ ManifestsOK(manifest) /\ ChoiceOK(choice, record, manifest)
      /\ \A j \in Jobs : LeftOut(choice, manifest, op[j].own.pinned)
      /\ ChoiceFacts(StepsOf(t.plan), t, record, manifest) /\ t.scope = "project"
  BY <1>1, Choosing DEF ProfileSteps
<1>6. StepsOf(t.plan) = {"markRecord"} \cup S /\ \A b \in S : ~Bars("markRecord", b)
  BY <1>1, Moving
<1>7. S \cap (Entering \cup {"markRecord", "makeManifest"}) = {}
  BY <1>6 DEF Bars, DocSteps, Entering
<1> HIDE DEF S
<1>8. /\ d \in DOMAIN project => project[d].pin = t.pin /\ d \notin DOMAIN manifest["profile"]
      /\ t.pin => d \in DOMAIN project
  BY <1>5, <1>6, <1>7 DEF ChoiceFacts, ManifestsOK, Entering
<1>9. /\ DOMAIN choice = Docs /\ DOMAIN choice' = Docs
      /\ \A e \in Docs : e # d => choice'[e] = choice[e]
      /\ d \in Docs => choice'[d] = IF t.pin THEN "in"
                                    ELSE IF d \in DOMAIN project /\ \A j \in Jobs : op[j] = Idle
                                      THEN "out" ELSE "none"
  BY <1>3, <1>5 DEF ChoiceOK
<1>10. LeftOut(choice', manifest', pins)
  <2> SUFFICES ASSUME NEW e \in Docs, choice'[e] = "out", e \in DOMAIN project
               PROVE  e \notin pins
    BY <1>3 DEF LeftOut
  <2>1. CASE e = d
    BY <1>9, <2>1
  <2>2. CASE e # d
    BY <1>2, <1>5, <1>9, <2>2 DEF ChoiceOK, LeftOut
  <2>3. QED
    BY <2>1, <2>2
<1> HIDE DEF pins
<1>11. ASSUME NEW j \in Jobs PROVE LeftOut(choice', manifest', op[j].own.pinned)
  <2> SUFFICES ASSUME NEW e \in Docs, choice'[e] = "out", e \in DOMAIN project
               PROVE  e \notin op[j].own.pinned
    BY <1>3 DEF LeftOut
  <2>1. CASE e = d
    <3>1. op[j] = Idle
      BY <1>9, <2>1
    <3>2. QED
      BY <3>1, IdleChooses
  <2>2. CASE e # d
    BY <1>5, <1>9, <2>2 DEF LeftOut
  <2>3. QED
    BY <2>1, <2>2
<1>12. ChoiceOK(choice', record', manifest')
  <2>1. ASSUME NEW e \in Docs
        PROVE  /\ choice'[e] # "none" => \E s \in Scopes : e \in DOMAIN manifest'[s]
               /\ choice'[e] = "in" =>
                    \E s \in Scopes : e \in DOMAIN manifest'[s] /\ manifest'[s][e].pin
               /\ choice'[e] = "out" =>
                    \A s \in Scopes : e \in DOMAIN manifest'[s] => ~manifest'[s][e].pin
    <3>1. CASE e = d
      BY <1>3, <1>8, <1>9, <3>1 DEF Scopes
    <3>2. CASE e # d
      BY <1>3, <1>5, <1>9, <3>2 DEF ChoiceOK
    <3>3. QED
      BY <3>1, <3>2
  <2>2. QED
    BY <1>4, <1>9, <1>10, <2>1 DEF ChoiceOK
<1>13. ChoiceFacts(S, t, record', manifest') /\ "addDocument" \notin S
  BY <1>5, <1>7 DEF ChoiceFacts, Entering
<1>14. ManifestsOK(manifest')
  BY <1>3, <1>5
<1>15. QED
  BY <1>1, <1>3, <1>11, <1>12, <1>13, <1>14, ChoicePasses DEF S

-----------------------------------------------------------------------------
(***************************************************************************)
(* Requests and jobs that begin, and the whole.                            *)
(***************************************************************************)
LEMMA BeginsChoices ==
    ASSUME StoreInv, ChoiceInv, ~LateRequests, NEW o \in Actors, NEW t, Begins(o, t),
           t.plan # << >>, t.own = Blank,
           ChoiceFacts(StepsOf(t.plan), t, record, manifest),
           "addDocument" \in StepsOf(t.plan) => Fresh(t.doc)
    PROVE  ChoiceInv'
<1>1. /\ \A p \in Actors : Resting(p) /\ op' = [op EXCEPT ![o] = t]
      /\ UNCHANGED <<record, manifest, choice>>
  BY DEF Begins
<1>2. Put(o, t)
  BY <1>1 DEF Put
<1>3. /\ ManifestsOK(manifest') /\ ChoiceOK(choice', record', manifest')
      /\ \A j \in Jobs : LeftOut(choice', manifest', op[j].own.pinned)
  BY <1>1 DEF ChoiceInv
<1>4. t.own.pinned = {} /\ LeftOut(choice', manifest', t.own.pinned)
  BY DEF Blank, LeftOut
<1>5. "addDocument" \in StepsOf(t.plan) => \A j \in Jobs : t.doc \notin op[j].own.pinned
  BY DEF Fresh
<1>6. ChoiceFacts(StepsOf(t.plan), t, record', manifest')
  BY <1>1
<1>7. \A p \in Actors \ {o} : Resting(p)
  BY <1>1
<1>8. QED
  BY <1>2, <1>3, <1>4, <1>5, <1>6, <1>7, ChoiceMoves

\* A plan that touches no manifest and marks nothing in the record.
LEMMA PlainChoices ==
    ASSUME StoreInv, ChoiceInv, ~LateRequests, NEW o \in Actors, NEW t, Begins(o, t),
           t.plan # << >>, t.own = Blank, t.scope = "project",
           StepsOf(t.plan) \cap (Entering \cup {"markRecord", "makeManifest"}) = {}
    PROVE  ChoiceInv'
<1>1. ChoiceFacts(StepsOf(t.plan), t, record, manifest) /\ "addDocument" \notin StepsOf(t.plan)
  BY DEF ChoiceFacts, Entering
<1>2. QED
  BY <1>1, BeginsChoices

LEMMA DocumentRequestChoices ==
    ASSUME StoreInv, ChoiceInv, ~LateRequests, NEW o \in Requests, NEW d,
           NEW pin \in BOOLEAN,
           \/ SaveDocument(o, d, pin) \/ ProfileSaveTextDocument(o, d, pin)
           \/ ProfileSetDocumentPinned(o, d, pin)
    PROVE  ChoiceInv'
<1> o \in Actors
  BY DEF Actors
<1> USE IdleFields
<1>1. CASE SaveDocument(o, d, pin)
  <2> DEFINE plan == SaveSteps(pin)
             t == [Idle EXCEPT !.plan = plan, !.doc = d, !.pin = pin]
  <2>1. Begins(o, t) /\ Fresh(d)
    BY <1>1 DEF SaveDocument
  <2>2. /\ plan # << >> /\ {"writeFiles", "loadManifest", "addDocument"} \subseteq StepsOf(plan)
        /\ StepsOf(plan) \subseteq
             {"writeFiles", "loadManifest", "addDocument", "loadRecord", "markRecord"}
    BY SaveIsGood DEF IsPlan
  <2> HIDE DEF plan
  <2>3. /\ t.plan = plan /\ t.scope = "project" /\ t.own = Blank /\ t.doc = d
    OBVIOUS
  <2> HIDE DEF t
  <2>4. ChoiceFacts(StepsOf(t.plan), t, record, manifest)
    BY <2>1, <2>2, <2>3 DEF ChoiceFacts, Fresh, Entering, Reading
  <2>5. QED
    BY <2>1, <2>2, <2>3, <2>4, BeginsChoices
<1>2. CASE ProfileSaveTextDocument(o, d, pin)
  <2> DEFINE plan == SaveSteps(FALSE)
             t == [Idle EXCEPT !.plan = plan, !.scope = "profile", !.doc = d, !.pin = pin]
  <2>1. Begins(o, t) /\ Fresh(d)
    BY <1>2 DEF ProfileSaveTextDocument
  <2>2. plan # << >> /\ StepsOf(plan) = {"writeFiles", "loadManifest", "addDocument"}
    BY SaveIsGood DEF IsPlan
  <2> HIDE DEF plan
  <2>3. /\ t.plan = plan /\ t.own = Blank /\ t.doc = d
    OBVIOUS
  <2> HIDE DEF t
  <2>4. ChoiceFacts(StepsOf(t.plan), t, record, manifest)
    BY <2>1, <2>2, <2>3 DEF ChoiceFacts, Fresh, Entering, Reading, ProfileSteps
  <2>5. QED
    BY <2>1, <2>2, <2>3, <2>4, BeginsChoices
<1>3. CASE ProfileSetDocumentPinned(o, d, pin)
  <2> DEFINE plan == <<"loadManifest", "markDocument">>
             t == [Idle EXCEPT !.plan = plan, !.scope = "profile", !.doc = d, !.pin = pin]
  <2>1. Begins(o, t) /\ d \in DOMAIN manifest["profile"]
    BY <1>3 DEF ProfileSetDocumentPinned
  <2>2. plan # << >> /\ StepsOf(plan) = {"loadManifest", "markDocument"}
    <3>1. IsPlan(plan, {"loadManifest", "markDocument"}, "loadManifest", "markDocument")
      BY TwoIsGood DEF Follows, Bars, StepNames, DocSteps, Writers, Loaders, JobSteps,
                       LateSteps
    <3>2. QED
      BY <3>1 DEF IsPlan
  <2> HIDE DEF plan
  <2>3. /\ t.plan = plan /\ t.own = Blank /\ t.doc = d
    OBVIOUS
  <2> HIDE DEF t
  <2>4. ChoiceFacts(StepsOf(t.plan), t, record, manifest)
    BY <2>1, <2>2, <2>3 DEF ChoiceFacts, Entering, Reading, ProfileSteps
  <2>5. QED
    BY <2>1, <2>2, <2>3, <2>4, BeginsChoices
<1>4. QED
  BY <1>1, <1>2, <1>3

LEMMA FileRequestChoices ==
    ASSUME StoreInv, ChoiceInv, ~LateRequests, NEW o \in Requests, NEW d,
           UploadDocument(o, d) \/ DeleteDocument(o, d)
    PROVE  ChoiceInv'
<1> o \in Actors
  BY DEF Actors
<1> USE IdleFields
<1>1. CASE UploadDocument(o, d)
  <2> DEFINE plan == <<"writeFiles", "extract">> \o Tail(SaveSteps(FALSE))
             t == [Idle EXCEPT !.plan = plan, !.doc = d]
  <2>1. Begins(o, t) /\ Fresh(d)
    BY <1>1 DEF UploadDocument
  <2>2. /\ plan # << >>
        /\ StepsOf(plan) = {"writeFiles", "extract", "loadManifest", "addDocument"}
    BY UploadIsGood DEF IsPlan
  <2> HIDE DEF plan
  <2>3. /\ t.plan = plan /\ t.scope = "project" /\ t.own = Blank /\ t.doc = d
    OBVIOUS
  <2> HIDE DEF t
  <2>4. ChoiceFacts(StepsOf(t.plan), t, record, manifest)
    BY <2>1, <2>2, <2>3 DEF ChoiceFacts, Fresh, Entering, Reading
  <2>5. QED
    BY <2>1, <2>2, <2>3, <2>4, BeginsChoices
<1>2. CASE DeleteDocument(o, d)
  <2> DEFINE plan == DeleteSteps
             t == [Idle EXCEPT !.plan = plan, !.doc = d]
  <2>1. Begins(o, t)
    BY <1>2 DEF DeleteDocument
  <2>2. /\ plan # << >>
        /\ StepsOf(plan) = {"loadExisting", "dropDocument", "removeFiles", "loadRecord",
                            "markRecord"}
    BY DeleteIsGood DEF IsPlan
  <2> HIDE DEF plan
  <2>3. t.plan = plan /\ t.scope = "project" /\ t.own = Blank /\ t.pin = Idle.pin
    BY DEF Idle
  <2> HIDE DEF t
  <2>4. ~t.pin
    BY <2>3, IdleChooses
  <2>5. ChoiceFacts(StepsOf(t.plan), t, record, manifest)
    BY <2>2, <2>3, <2>4 DEF ChoiceFacts, Entering, Reading
  <2>6. QED
    BY <2>1, <2>2, <2>3, <2>5, BeginsChoices
<1>3. QED
  BY <1>1, <1>2

LEMMA ProjectRequestChoices ==
    ASSUME StoreInv, ChoiceInv, ~LateRequests, NEW o \in Requests,
           CreateProject(o) \/ DeleteProject(o)
    PROVE  ChoiceInv'
<1> o \in Actors
  BY DEF Actors
<1> USE IdleFields
<1>1. CASE CreateProject(o)
  <2> DEFINE plan == CreateSteps
             t == [Idle EXCEPT !.plan = plan]
  <2>1. Begins(o, t) /\ manifest["project"] = << >>
    BY <1>1 DEF CreateProject
  <2>2. plan # << >> /\ StepsOf(plan) = {"makeManifest", "makeRecord"}
    <3>1. IsPlan(plan, {"makeManifest", "makeRecord"}, "makeManifest", "makeRecord")
      BY TwoIsGood DEF CreateSteps, Follows, Bars, StepNames, DocSteps, Writers, Loaders,
                       JobSteps, LateSteps
    <3>2. QED
      BY <3>1 DEF IsPlan
  <2> HIDE DEF plan
  <2>3. t.plan = plan /\ t.scope = "project" /\ t.own = Blank
    OBVIOUS
  <2> HIDE DEF t
  <2>4. ChoiceFacts(StepsOf(t.plan), t, record, manifest)
    BY <2>1, <2>2, <2>3 DEF ChoiceFacts, Entering
  <2>5. QED
    BY <2>1, <2>2, <2>3, <2>4, BeginsChoices
<1>2. CASE DeleteProject(o)
  <2> DEFINE plan == <<"removeProject">>
             t == [Idle EXCEPT !.plan = plan]
  <2>1. Begins(o, t)
    BY <1>2 DEF DeleteProject
  <2>2. plan # << >> /\ StepsOf(plan) = {"removeProject"}
    <3>1. IsPlan(plan, {"removeProject"}, "removeProject", "removeProject")
      BY OneIsGood DEF StepNames
    <3>2. QED
      BY <3>1 DEF IsPlan
  <2> HIDE DEF plan
  <2>3. t.plan = plan /\ t.scope = "project" /\ t.own = Blank
    OBVIOUS
  <2> HIDE DEF t
  <2>4. StepsOf(t.plan) \cap (Entering \cup {"markRecord", "makeManifest"}) = {}
    BY <2>2, <2>3 DEF Entering
  <2>5. QED
    BY <2>1, <2>2, <2>3, <2>4, PlainChoices
<1>3. QED
  BY <1>1, <1>2

LEMMA SaveRequestChoices ==
    ASSUME StoreInv, ChoiceInv, ~LateRequests, NEW o \in Requests,
           \/ \E edit, list : SaveProject(o, edit, list)
           \/ \E i : SaveEssayDraft(o, i)
    PROVE  ChoiceInv'
<1> o \in Actors
  BY DEF Actors
<1> USE IdleFields
<1>1. ASSUME NEW edit, NEW list, SaveProject(o, edit, list) PROVE ChoiceInv'
  <2> DEFINE plan == <<"readInfo", "writeInfo">>
                       \o IF edit = "confirmed" THEN <<"loadRecord", "writeReasons">> ELSE << >>
             t == [Idle EXCEPT !.plan = plan, !.edit = edit, !.list = list]
  <2>1. Begins(o, t)
    BY <1>1 DEF SaveProject
  <2>2. /\ plan # << >>
        /\ StepsOf(plan) \subseteq {"readInfo", "writeInfo", "loadRecord", "writeReasons"}
    BY PatchIsGood
  <2> HIDE DEF plan
  <2>3. t.plan = plan /\ t.scope = "project" /\ t.own = Blank
    OBVIOUS
  <2> HIDE DEF t
  <2>4. StepsOf(t.plan) \cap (Entering \cup {"markRecord", "makeManifest"}) = {}
    BY <2>2, <2>3 DEF Entering
  <2>5. QED
    BY <2>1, <2>2, <2>3, <2>4, PlainChoices
<1>2. ASSUME NEW i, SaveEssayDraft(o, i) PROVE ChoiceInv'
  <2> DEFINE plan == <<"readAnswer", "loadRecord", "writeAnswer">>
             text == record.questions[i]
             t == [Idle EXCEPT !.plan = plan, !.index = i, !.text = text]
  <2>1. Begins(o, t)
    BY <1>2 DEF SaveEssayDraft
  <2>2. plan # << >> /\ StepsOf(plan) = {"readAnswer", "loadRecord", "writeAnswer"}
    <3>1. IsPlan(plan, {"readAnswer", "loadRecord", "writeAnswer"},
                 "readAnswer", "writeAnswer")
      BY ThreeIsGood DEF Follows, Bars, StepNames, DocSteps, Writers, Loaders, JobSteps,
                         LateSteps
    <3>2. QED
      BY <3>1 DEF IsPlan
  <2> HIDE DEF plan, text
  <2>3. t.plan = plan /\ t.scope = "project" /\ t.own = Blank
    OBVIOUS
  <2> HIDE DEF t
  <2>4. StepsOf(t.plan) \cap (Entering \cup {"markRecord", "makeManifest"}) = {}
    BY <2>2, <2>3 DEF Entering
  <2>5. QED
    BY <2>1, <2>2, <2>3, <2>4, PlainChoices
<1>3. QED
  BY <1>1, <1>2

LEMMA JobBeginsChoices ==
    ASSUME StoreInv, ChoiceInv, ~LateRequests, NEW o \in Jobs,
           AnalyzeInsights(o) \/ GenerateInsights(o)
    PROVE  ChoiceInv'
<1> o \in Actors
  BY DEF Actors
<1> USE IdleFields
<1>1. CASE AnalyzeInsights(o)
  <2> DEFINE plan == <<"readInfo", "writeInfo", "await", "analyzed">>
             t == [Idle EXCEPT !.plan = plan]
  <2>1. Begins(o, t)
    BY <1>1 DEF AnalyzeInsights
  <2>2. plan # << >> /\ StepsOf(plan) = {"readInfo", "writeInfo", "await", "analyzed"}
    <3>1. IsPlan(plan, {"readInfo", "writeInfo", "await", "analyzed"}, "readInfo", "analyzed")
      BY FourIsGood DEF Follows, Bars, StepNames, DocSteps, Writers, Loaders, JobSteps,
                        LateSteps
    <3>2. QED
      BY <3>1 DEF IsPlan
  <2> HIDE DEF plan
  <2>3. t.plan = plan /\ t.scope = "project" /\ t.own = Blank
    OBVIOUS
  <2> HIDE DEF t
  <2>4. StepsOf(t.plan) \cap (Entering \cup {"markRecord", "makeManifest"}) = {}
    BY <2>2, <2>3 DEF Entering
  <2>5. QED
    BY <2>1, <2>2, <2>3, <2>4, PlainChoices
<1>2. CASE GenerateInsights(o)
  <2> DEFINE plan == <<"readInfo", "writeInfo", "checkInputs">>
             failed == <<"loadRecord", "writeError">>
             t == [Idle EXCEPT !.plan = plan, !.failed = failed]
  <2>1. Begins(o, t)
    BY <1>2 DEF GenerateInsights
  <2>2. plan # << >> /\ StepsOf(plan) = {"readInfo", "writeInfo", "checkInputs"}
    <3>1. IsPlan(plan, {"readInfo", "writeInfo", "checkInputs"}, "readInfo", "checkInputs")
      BY ThreeIsGood DEF Follows, Bars, StepNames, DocSteps, Writers, Loaders, JobSteps,
                         LateSteps
    <3>2. QED
      BY <3>1 DEF IsPlan
  <2> HIDE DEF plan, failed
  <2>3. t.plan = plan /\ t.scope = "project" /\ t.own = Blank
    OBVIOUS
  <2> HIDE DEF t
  <2>4. StepsOf(t.plan) \cap (Entering \cup {"markRecord", "makeManifest"}) = {}
    BY <2>2, <2>3 DEF Entering
  <2>5. QED
    BY <2>1, <2>2, <2>3, <2>4, PlainChoices
<1>3. QED
  BY <1>1, <1>2

\* Every step keeps what is known of the choices.
LEMMA ChoiceStep == StoreInv /\ ~LateRequests /\ ChoiceInv /\ [Next]_vars => ChoiceInv'
<1> SUFFICES ASSUME StoreInv, ~LateRequests, ChoiceInv, [Next]_vars PROVE ChoiceInv'
  OBVIOUS
<1>1. CASE UNCHANGED vars
  BY <1>1 DEF vars, ChoiceInv, Unseen
<1>2. ASSUME NEW o \in Requests, Request(o) PROVE ChoiceInv'
  BY <1>2, DocumentRequestChoices, FileRequestChoices, ProjectRequestChoices,
     SaveRequestChoices DEF Request
<1>3. ASSUME NEW o \in Actors, StorageStep(o) PROVE ChoiceInv'
  <2>1. CASE \/ MakeManifest(o) \/ MakeRecord(o) \/ WriteFiles(o) \/ Extract(o)
             \/ LoadManifest(o) \/ LoadExisting(o) \/ AddDocument(o) \/ MarkDocument(o)
             \/ DropDocument(o) \/ RemoveFiles(o)
    BY <2>1, MakeManifestChoices, FilesChoices, LoadManifestChoices, AddDocumentChoices,
       MarkDocumentChoices, DropDocumentChoices
  <2>2. CASE \/ LoadRecord(o) \/ MarkRecord(o) \/ RemoveProject(o) \/ ReadInfo(o)
             \/ UnpinNext(o) \/ WriteInfo(o) \/ WriteReasons(o) \/ ReadAnswer(o)
             \/ WriteAnswer(o)
    BY <2>2, LoadRecordChoices, MarkRecordChoices, RemoveProjectChoices, ReadInfoChoices,
       UnpinNextChoices, WriteInfoChoices, FilesChoices, ReadAnswerChoices
  <2>3. QED
    BY <1>3, <2>1, <2>2 DEF StorageStep
<1>4. ASSUME NEW o \in Actors, JobStep(o) PROVE ChoiceInv'
  BY <1>4, FilesChoices, AnalyzedChoices, CheckInputsChoices, FetchedChoices,
     ConfidenceChoices, CollectedChoices, PhaseChoices, FindGeneratedChoices, JobEndChoices
     DEF JobStep
<1>5. CASE Crash
  <2>1. /\ \A o \in Actors : op'[o] = Idle
        /\ UNCHANGED <<record, manifest, choice>>
    BY <1>5 DEF Crash, history
  <2>2. \A r, m : LeftOut(r, m, Idle.own.pinned)
    BY IdleChooses DEF LeftOut
  <2>3. QED
    BY <2>1, <2>2, IdleChooses DEF ChoiceInv, Unseen, Actors
<1>6. QED
  BY <1>1, <1>2, <1>3, <1>4, <1>5, JobBeginsChoices DEF Next

LEMMA InitChooses == Init => ChoiceInv
<1> SUFFICES ASSUME Init PROVE ChoiceInv
  OBVIOUS
<1>1. /\ \A s \in Scopes : manifest[s] = << >> /\ DOMAIN manifest[s] = {}
      /\ choice = [d \in Docs |-> "none"] /\ \A o \in Actors : op[o] = Idle
  BY DEF Init
<1>2. ManifestsOK(manifest)
  BY <1>1 DEF ManifestsOK, Scopes
<1>3. \A pins : LeftOut(choice, manifest, pins)
  BY <1>1 DEF LeftOut
<1>4. ChoiceOK(choice, record, manifest)
  BY <1>1, <1>3 DEF ChoiceOK
<1>5. QED
  BY <1>1, <1>2, <1>3, <1>4, IdleChooses DEF ChoiceInv, Unseen, Actors

\* What was acknowledged as part of the context of runs is part of it, and what
\* was acknowledged as left out is not, whatever is saved, generated or
\* interrupted later (setProjectDocumentPinned, persistDocument, the jobs that
\* write their record back).
THEOREM ChoicesStand == ASSUME ~LateRequests PROVE Spec => []ChoicesKept
<1>1. StoreInv /\ ChoiceInv /\ [Next]_vars => ChoiceInv'
  BY ChoiceStep
<1>2. ChoiceInv => ChoicesKept
  <2> SUFFICES ASSUME ChoiceInv, NEW d \in Docs
               PROVE  (choice[d] = "in" => Included(d)) /\ (choice[d] = "out" => ~Included(d))
    BY DEF ChoicesKept
  <2>1. ChoiceOK(choice, record, manifest)
    BY DEF ChoiceInv
  <2>2. choice[d] = "in" => Included(d)
    BY <2>1 DEF ChoiceOK, Included
  <2>3. choice[d] = "out" => ~Included(d)
    BY <2>1 DEF ChoiceOK, LeftOut, Included
  <2>4. QED
    BY <2>2, <2>3
<1>3. QED
  BY <1>1, <1>2, InitChooses, StoreIsSound, PTL DEF Spec

-----------------------------------------------------------------------------
(***************************************************************************)
(* Uploads.                                                                *)
(*                                                                         *)
(* The invariant is about one upload at a time: where its request is, what *)
(* its handler has done, and who may therefore be on the disk or in a      *)
(* manifest.  A step about one upload leaves the others where they are     *)
(* (SameUpload), or sends or skips one that waited in the panel (Waited).  *)
(***************************************************************************)
FileType == [size : Nat, kind : {"text", "image", "broken", "other"}]
UploadType ==
  [scope : {"project", "profile"}, file : FileType, sent : Nat, abort : BOOLEAN,
   verdict : {Up!None, "sending", "waiting", "done", "failed", "aborted", "skipped"}]
CallType ==
  [leg : {Up!None, "out", "sent", "held", "late", "back"},
   answer : {Up!None, "accepted", "complete", "error"}]
WorkType ==
  [step : {"write", "extract", "load", "save", "check"}, read : SUBSET (Ids \cup {Text})]

UploadTypes ==
  /\ upload \in [Ids -> UploadType]
  /\ panel \in Seq(Ids)
  /\ call \in [Ids -> CallType]
  /\ DOMAIN work \subseteq Ids \cup {Text, Pin}
  /\ \A w \in DOMAIN work : work[w] \in WorkType
  /\ work = [w \in DOMAIN work |-> work[w]]
  /\ listed \in [{"project", "profile"} -> SUBSET (Ids \cup {Text})]
  /\ fault \in [Ids -> {Up!None, "offline", "cut", "restarted"}]

\* The files of the panel wait, each once.
PanelOK ==
  /\ \A i \in DOMAIN panel : upload[panel[i]].verdict = "waiting"
  /\ \A i, j \in DOMAIN panel : panel[i] = panel[j] => i = j

Leg(u, leg) == Up!Sending(u) /\ call[u].leg = leg
Told(u, answer) == Leg(u, "back") /\ call[u].answer = answer
CutOff(u) == upload[u].verdict = "failed" /\ fault[u] = "cut"
StillListed(u) == Up!Listed(u) \/ u \in crossed
Stored(u) == u \in DOMAIN disk /\ disk[u] = Up!Bytes(u)
Busy(u) == u \in DOMAIN work

\* The request: under way while the page sends, or late after it gave up.
CallOK(u) ==
  /\ call[u].leg \in {"out", "sent", "held", "back"} => Up!Sending(u)
  /\ call[u].leg = "late" => CutOff(u)
  /\ call[u].leg = "held" => Busy(u)

\* The handler: its request is held, or was cut off.
WorkOK(u) == Busy(u) =>
  /\ call[u].leg = "held" \/ CutOff(u)
  /\ work[u].step # "write" => Stored(u)
  /\ work[u].step = "check" => Up!Scope(u) = "profile" /\ StillListed(u)

\* Who may be in a manifest, or in what a handler read of it.
Recorded(u) ==
  \/ \E s \in {"project", "profile"} : u \in listed[s]
  \/ \E w \in DOMAIN work : u \in work[w].read
HasSaved(u) ==
  \/ upload[u].verdict = "done" \/ CutOff(u)
  \/ upload[u].verdict = "failed" /\ u \in crossed
  \/ Told(u, "complete")
  \/ Told(u, "error") /\ u \in crossed
  \/ Leg(u, "held") /\ Busy(u) /\ work[u].step = "check"
ListedOK(u) == Recorded(u) => HasSaved(u)

\* Who may have a file on the disk.
HasWritten(u) ==
  \/ upload[u].verdict \in {"done", "failed"}
  \/ Leg(u, "held") /\ Busy(u) /\ work[u].step # "write"
  \/ Told(u, "complete") \/ Told(u, "error")
RawOK(u) == u \in DOMAIN disk => HasWritten(u)

\* What is called complete is.
DoneOK(u) == upload[u].verdict = "done" \/ Told(u, "complete") => Stored(u) /\ StillListed(u)

UploadOK(u) == CallOK(u) /\ WorkOK(u) /\ ListedOK(u) /\ RawOK(u) /\ DoneOK(u)
UploadInv == UploadTypes /\ PanelOK /\ \A u \in Ids : UploadOK(u)


LEMMA UploadInit == Up!Init => UploadInv
<1> SUFFICES ASSUME Up!Init PROVE UploadInv
  OBVIOUS
<1>1. UploadTypes
  <2>1. upload \in [Ids -> UploadType] /\ call \in [Ids -> CallType]
    <3>1. Up!Fresh("project", [size |-> 0, kind |-> "text"], Up!None) \in UploadType
      <4>1. [size |-> 0, kind |-> "text"] \in FileType
        BY DEF FileType
      <4> QED  BY <4>1 DEF UploadType, Up!Fresh
    <3>2. Up!NoCall \in CallType
      BY DEF CallType, Up!NoCall
    <3> QED  BY <3>1, <3>2 DEF Up!Init
  <2>2. panel \in Seq(Ids) /\ fault \in [Ids -> {Up!None, "offline", "cut", "restarted"}]
        /\ listed \in [{"project", "profile"} -> SUBSET (Ids \cup {Text})]
    BY DEF Up!Init
  <2>3. DOMAIN work = {} /\ work = [w \in DOMAIN work |-> work[w]]
    BY DEF Up!Init
  <2> QED  BY <2>1, <2>2, <2>3 DEF UploadTypes
<1>2. PanelOK
  BY DEF Up!Init, PanelOK
<1>3. ASSUME NEW u \in Ids PROVE UploadOK(u)
  BY <1>3 DEF Up!Init, UploadOK, CallOK, WorkOK, ListedOK, RawOK, DoneOK, Leg, Told, CutOff,
     StillListed,
     Stored, Busy, Recorded, HasSaved, HasWritten, Up!Fresh, Up!NoCall, Up!None, Up!Sending,
     Up!Listed, Up!Scope
<1> QED  BY <1>1, <1>2, <1>3 DEF UploadInv

-----------------------------------------------------------------------------
LEMMA UploadJudged ==
  ASSUME NEW r \in UploadType,
         NEW x \in {Up!None, "sending", "waiting", "done", "failed", "aborted", "skipped"}
  PROVE  [r EXCEPT !.verdict = x] \in UploadType
BY DEF UploadType

\* What a step does to an upload it is not about: nothing, or the file that waited
\* is sent or skipped.
Waited(u) ==
  /\ upload[u].verdict = "waiting"
  /\ \E x \in {"sending", "skipped"} : upload'[u] = [upload[u] EXCEPT !.verdict = x]
SameUpload(u) ==
  /\ upload'[u].verdict = upload[u].verdict
  /\ upload'[u].scope = upload[u].scope /\ upload'[u].file = upload[u].file
  /\ upload'[u].sent = upload[u].sent
SameStore(u) ==
  /\ fault'[u] = fault[u]
  /\ Busy(u)' <=> Busy(u)
  /\ Busy(u) => work'[u].step = work[u].step
  /\ Recorded(u)' => Recorded(u)
  /\ StillListed(u) => StillListed(u)'
  /\ u \in crossed => u \in crossed'
  /\ u \in DOMAIN disk' <=> u \in DOMAIN disk
  /\ u \in DOMAIN disk => disk'[u] = disk[u]

LEMMA UploadRests ==
  ASSUME NEW u \in Ids, UploadTypes, UploadOK(u), SameUpload(u) \/ Waited(u),
         call'[u] = call[u], SameStore(u)
  PROVE  UploadOK(u)'
<1>1. Up!Scope(u)' = Up!Scope(u) /\ upload'[u].file = upload[u].file
  BY DEF Up!Scope, SameUpload, Waited, UploadTypes, UploadType
<1>2. Stored(u) => Stored(u)'
  BY <1>1 DEF Stored, Up!Bytes, SameStore
<1>3. CASE SameUpload(u)
  BY <1>1, <1>2, <1>3 DEF SameUpload, SameStore, UploadOK, CallOK, WorkOK, ListedOK, RawOK,
     DoneOK, Leg,
     Told, CutOff, HasSaved, HasWritten, Up!Sending
<1>4. CASE Waited(u)
  <2>1. upload[u].verdict = "waiting" /\ upload'[u].verdict \in {"sending", "skipped"}
    BY <1>4 DEF Waited, UploadTypes, UploadType
  <2>2. call[u].leg = Up!None /\ ~Busy(u) /\ ~Recorded(u) /\ u \notin DOMAIN disk
    BY <2>1 DEF UploadOK, CallOK, WorkOK, ListedOK, RawOK, HasSaved, HasWritten, Leg, Told,
       CutOff,
       Up!Sending, UploadTypes, CallType
  <2> QED
    BY <2>1, <2>2 DEF SameStore, UploadOK, CallOK, WorkOK, ListedOK, RawOK, DoneOK, Leg, Told,
       CutOff, HasSaved, HasWritten, Up!Sending, Up!None
<1> QED  BY <1>3, <1>4

\* A request that came late, or never came, is forgotten.
LEMMA LateEnds ==
  ASSUME NEW u \in Ids, UploadTypes, UploadOK(u), SameUpload(u) \/ Waited(u), SameStore(u),
         call[u].leg = "late", call'[u] = Up!NoCall
  PROVE  UploadOK(u)'
<1>1. CutOff(u) /\ SameUpload(u)
  BY DEF UploadOK, CallOK, CutOff, Waited
<1>2. Up!Scope(u)' = Up!Scope(u) /\ CutOff(u)'
  BY <1>1 DEF Up!Scope, SameUpload, SameStore, CutOff
<1>3. Stored(u) => Stored(u)'
  BY <1>1 DEF Stored, Up!Bytes, SameUpload, SameStore
<1> QED
  BY <1>1, <1>2, <1>3 DEF SameUpload, SameStore, UploadOK, CallOK, WorkOK, ListedOK, RawOK,
     DoneOK, Leg,
     Told, CutOff, HasSaved, HasWritten, Up!Sending, Up!NoCall, Up!None

\* A step that leaves the runner's store alone.
LEMMA StoreRests ==
  ASSUME NEW u \in Ids, fault'[u] = fault[u], UNCHANGED Up!store,
         SameUpload(u) \/ Waited(u), UploadTypes
  PROVE  SameStore(u)
<1>1. Up!Scope(u)' = Up!Scope(u)
  BY DEF Up!Scope, SameUpload, Waited, UploadTypes, UploadType
<1> QED  BY <1>1 DEF SameStore, Up!store, Busy, Recorded, StillListed, Up!Listed

-----------------------------------------------------------------------------
LEMMA HeadOfPanel ==
  ASSUME panel \in Seq(Ids), PanelOK, panel # <<>>
  PROVE  /\ Head(panel) \in Ids /\ upload[Head(panel)].verdict = "waiting"
         /\ Tail(panel) \in Seq(Ids)
         /\ \A i \in DOMAIN Tail(panel) : /\ Tail(panel)[i] = panel[i + 1]
                                          /\ i + 1 \in DOMAIN panel
                                          /\ panel[i + 1] # Head(panel)
         /\ \A i, j \in DOMAIN Tail(panel) : Tail(panel)[i] = Tail(panel)[j] => i = j
<1>1. Len(panel) \in Nat \ {0} /\ DOMAIN panel = 1..Len(panel) /\ Head(panel) = panel[1]
  OBVIOUS
<1>2. Tail(panel) \in Seq(Ids) /\ DOMAIN Tail(panel) = 1..(Len(panel) - 1)
  OBVIOUS
<1>3. \A i \in 1..(Len(panel) - 1) : Tail(panel)[i] = panel[i + 1]
  OBVIOUS
<1> QED  BY <1>1, <1>2, <1>3 DEF PanelOK

LEMMA InPanel ==
  ASSUME panel \in Seq(Ids), PanelOK, NEW v, v \in Up!Range(panel)
  PROVE  upload[v].verdict = "waiting"
BY DEF Up!Range, PanelOK

\* The page settles an upload that was being sent.
LEMMA PageSettles ==
  ASSUME UploadTypes, PanelOK, NEW u \in Ids, Up!Sending(u),
         NEW verdict \in {"done", "failed", "aborted"}, Up!Settled(u, verdict)
  PROVE  /\ upload' \in [Ids -> UploadType]
         /\ panel' \in Seq(Ids) /\ PanelOK'
         /\ upload'[u] = [upload[u] EXCEPT !.verdict = verdict]
         /\ \A v \in Ids \ {u} : SameUpload(v) \/ Waited(v)
<1> USE DEF UploadTypes
<1>1. CASE Up!Scope(u) = "project"
  <2>1. upload' = [upload EXCEPT ![u].verdict = verdict] /\ panel' = panel
    BY <1>1 DEF Up!Settled
  <2>2. upload' \in [Ids -> UploadType]
    <3>1. [upload[u] EXCEPT !.verdict = verdict] \in UploadType
      BY UploadJudged
    <3> QED  BY <2>1, <3>1
  <2>3. upload'[u] = [upload[u] EXCEPT !.verdict = verdict]
        /\ \A v \in Ids \ {u} : upload'[v] = upload[v]
    BY <2>1
  <2>4. \A i \in DOMAIN panel : panel[i] \in Ids \ {u}
    BY DEF PanelOK, Up!Sending
  <2> QED  BY <2>1, <2>2, <2>3, <2>4 DEF PanelOK, SameUpload
<1>2. CASE Up!Scope(u) # "project" /\ verdict = "done" /\ panel # <<>>
  <2> DEFINE h == Head(panel)
  <2>1. upload' = [upload EXCEPT ![u].verdict = verdict, ![h].verdict = "sending"]
        /\ panel' = Tail(panel)
    BY <1>2 DEF Up!Settled
  <2>2. h \in Ids /\ upload[h].verdict = "waiting" /\ panel' \in Seq(Ids)
    BY <1>2, <2>1, HeadOfPanel
  <2>3. h # u
    BY <2>2 DEF Up!Sending
  <2> HIDE DEF h
  <2>4. upload'[u] = [upload[u] EXCEPT !.verdict = verdict]
        /\ upload'[h] = [upload[h] EXCEPT !.verdict = "sending"]
        /\ \A v \in Ids \ {u, h} : upload'[v] = upload[v]
    BY <2>1, <2>2, <2>3
  <2>5. upload' \in [Ids -> UploadType]
    <3>1. upload' = [v \in Ids |-> upload'[v]]
      BY <2>1
    <3>2. \A v \in Ids : upload'[v] \in UploadType
      <4>0. upload[u] \in UploadType /\ upload[h] \in UploadType
        BY <2>2
      <4>1. [upload[u] EXCEPT !.verdict = verdict] \in UploadType
            /\ [upload[h] EXCEPT !.verdict = "sending"] \in UploadType
        BY <4>0, UploadJudged
      <4>2. \A v \in Ids \ {u, h} : upload'[v] \in UploadType
        BY <2>4
      <4> QED  BY <2>4, <4>1, <4>2
    <3> QED  BY <3>1, <3>2
  <2>6. Waited(h)
    BY <2>2, <2>4 DEF Waited
  <2>7. \A i \in DOMAIN Tail(panel) : /\ Tail(panel)[i] = panel[i + 1] /\ i + 1 \in DOMAIN panel
                                      /\ panel[i + 1] # h
    BY <1>2, HeadOfPanel DEF h
  <2>8. \A i \in DOMAIN panel' : upload'[panel'[i]].verdict = "waiting"
    <3> SUFFICES ASSUME NEW i \in DOMAIN panel' PROVE upload'[panel'[i]].verdict = "waiting"
      OBVIOUS
    <3>1. panel'[i] = panel[i + 1] /\ i + 1 \in DOMAIN panel /\ panel'[i] # h
      BY <2>1, <2>7
    <3>2. panel'[i] \in Ids /\ upload[panel'[i]].verdict = "waiting"
      BY <3>1 DEF PanelOK
    <3> QED  BY <3>1, <3>2, <2>4 DEF Up!Sending
  <2>9. \A i, j \in DOMAIN panel' : panel'[i] = panel'[j] => i = j
    BY <1>2, <2>1, HeadOfPanel
  <2> QED  BY <2>2, <2>4, <2>5, <2>6, <2>8, <2>9 DEF PanelOK, SameUpload
<1>3. CASE Up!Scope(u) # "project" /\ ~(verdict = "done" /\ panel # <<>>)
  <2>1. panel' = <<>>
        /\ upload' = [v \in Ids |-> IF v = u THEN [upload[v] EXCEPT !.verdict = verdict]
                                    ELSE IF v \in Up!Range(panel)
                                         THEN [upload[v] EXCEPT !.verdict = "skipped"]
                                    ELSE upload[v]]
    BY <1>3 DEF Up!Settled
  <2>2. upload' \in [Ids -> UploadType]
    <3>1. \A v \in Ids, x \in {verdict, "skipped"} : [upload[v] EXCEPT !.verdict = x] \in UploadType
      BY UploadJudged
    <3> QED  BY <2>1, <3>1
  <2>3. \A v \in Ids \ {u} : SameUpload(v) \/ Waited(v)
    BY <2>1, InPanel DEF Waited, SameUpload
  <2> QED  BY <2>1, <2>2, <2>3 DEF PanelOK
<1> QED  BY <1>1, <1>2, <1>3

-----------------------------------------------------------------------------
\* An upload of which the runner stores nothing yet.
Quiet(u) == ~Busy(u) /\ ~Recorded(u) /\ u \notin DOMAIN disk

LEMMA BeforeStoring ==
  ASSUME NEW u \in Ids, UploadTypes, UploadOK(u),
         \/ upload[u].verdict \in {Up!None, "waiting", "skipped", "aborted"}
         \/ Up!Sending(u) /\ call[u].leg \in {Up!None, "out", "sent"}
         \/ Leg(u, "back") /\ call[u].answer \notin {"complete", "error"}
  PROVE  /\ Quiet(u)
         /\ ~Up!Sending(u) => call[u].leg = Up!None
<1> USE DEF UploadOK, CallOK, WorkOK, ListedOK, RawOK, HasSaved, HasWritten, Leg, Told, CutOff,
      Up!Sending, Up!None, Quiet
<1>1. CASE upload[u].verdict \in {Up!None, "waiting", "skipped", "aborted"}
  BY <1>1 DEF UploadTypes, CallType
<1>2. CASE Up!Sending(u) /\ call[u].leg \in {Up!None, "out", "sent"}
  BY <1>2
<1>3. CASE Leg(u, "back") /\ call[u].answer \notin {"complete", "error"}
  BY <1>3
<1> QED  BY <1>1, <1>2, <1>3

LEMMA QuietIsOK ==
  ASSUME NEW u \in Ids, Quiet(u)', CallOK(u)', upload'[u].verdict # "done", ~Told(u, "complete")'
  PROVE  UploadOK(u)'
BY DEF UploadOK, WorkOK, ListedOK, RawOK, DoneOK, Quiet

LEMMA StaysQuiet ==
  ASSUME NEW u \in Ids, Quiet(u), UNCHANGED Up!store
  PROVE  Quiet(u)'
BY DEF Quiet, Up!store, Busy, Recorded

LEMMA StoreTypes ==
  ASSUME UploadTypes, UNCHANGED Up!store, upload' \in [Ids -> UploadType], panel' \in Seq(Ids),
         call' \in [Ids -> CallType], fault' \in [Ids -> {Up!None, "offline", "cut", "restarted"}]
  PROVE  UploadTypes'
BY DEF UploadTypes, Up!store

\* A step of the page or of the link about one upload: what is left to show.
LEMMA OneMoves ==
  ASSUME UploadInv, NEW u \in Ids, UNCHANGED Up!store,
         upload' \in [Ids -> UploadType], panel' \in Seq(Ids), PanelOK',
         call' \in [Ids -> CallType], fault' \in [Ids -> {Up!None, "offline", "cut", "restarted"}],
         \A v \in Ids \ {u} : /\ SameUpload(v) \/ Waited(v)
                              /\ call'[v] = call[v] /\ fault'[v] = fault[v],
         UploadOK(u)'
  PROVE  UploadInv'
<1>1. UploadTypes'
  BY StoreTypes DEF UploadInv
<1>2. ASSUME NEW v \in Ids \ {u} PROVE UploadOK(v)'
  <2>1. SameStore(v)
    BY StoreRests DEF UploadInv
  <2> QED  BY <2>1, UploadRests DEF UploadInv
<1> QED  BY <1>1, <1>2 DEF UploadInv

LEMMA DropStep ==
  ASSUME UploadInv, NEW u \in Ids, NEW file \in Files, Up!Drop(u, file)
  PROVE  UploadInv'
<1> DEFINE r == Up!Fresh("project", file, "sending")
<1>1. r \in UploadType /\ r.verdict = "sending"
  BY UploadsAssumption DEF UploadType, FileType, Up!Fresh
<1> HIDE DEF r
<1>2. Up!Free(u) /\ upload' = [upload EXCEPT ![u] = r] /\ UNCHANGED <<panel, call, fault>>
      /\ UNCHANGED Up!store
  BY DEF Up!Drop, r
<1> USE DEF UploadInv
<1>3. upload' \in [Ids -> UploadType] /\ upload'[u] = r /\ \A v \in Ids \ {u} : SameUpload(v)
  BY <1>1, <1>2 DEF UploadTypes, SameUpload
<1>4. PanelOK'
  BY <1>2, <1>3 DEF PanelOK, UploadTypes, Up!Free, Up!None
<1>5. UploadOK(u)'
  <2>1. Quiet(u) /\ call[u].leg = Up!None
    BY <1>2, BeforeStoring DEF Up!Free, Up!Sending, Up!None
  <2> QED
    BY <1>1, <1>2, <1>3, <2>1, StaysQuiet, QuietIsOK DEF CallOK, Told, Leg, Up!Sending, Up!None
<1> QED
  <2>1. panel' \in Seq(Ids) /\ call' \in [Ids -> CallType]
        /\ fault' \in [Ids -> {Up!None, "offline", "cut", "restarted"}]
    BY <1>2 DEF UploadTypes
  <2> QED  BY <1>2, <1>3, <1>4, <1>5, <2>1, OneMoves

LEMMA ChooseStep ==
  ASSUME UploadInv, NEW u \in Ids, NEW file \in Files, NEW rest \in Seq(Ids), NEW chosen,
         Up!Choose(u, file, rest, chosen),
         \A i \in DOMAIN rest : chosen[i] \in Files,
         \A i, j \in DOMAIN rest : rest[i] = rest[j] => i = j
  PROVE  UploadInv'
<1> DEFINE r == Up!Fresh("profile", file, "sending")
           other(v) == Up!Fresh("profile", chosen[CHOOSE i \in DOMAIN rest : rest[i] = v],
                                "waiting")
<1>1. r \in UploadType /\ r.verdict = "sending"
  BY UploadsAssumption DEF UploadType, FileType, Up!Fresh
<1>2. ASSUME NEW v \in Up!Range(rest) PROVE other(v) \in UploadType /\ other(v).verdict = "waiting"
  <2> DEFINE i == CHOOSE k \in DOMAIN rest : rest[k] = v
  <2>1. \E k \in DOMAIN rest : rest[k] = v
    BY DEF Up!Range
  <2>2. i \in DOMAIN rest
    BY <2>1
  <2> HIDE DEF i
  <2>3. Up!Fresh("profile", chosen[i], "waiting") \in UploadType
        /\ Up!Fresh("profile", chosen[i], "waiting").verdict = "waiting"
    BY <2>2, UploadsAssumption DEF UploadType, FileType, Up!Fresh
  <2> QED  BY <2>3 DEF i
<1>3. /\ upload' = [v \in Ids |-> IF v = u THEN r ELSE IF v \in Up!Range(rest) THEN other(v)
                                   ELSE upload[v]]
      /\ panel' = rest /\ UNCHANGED <<call, fault>> /\ UNCHANGED Up!store /\ Up!Free(u)
      /\ \A i \in DOMAIN rest : Up!Free(rest[i]) /\ rest[i] # u
      /\ panel = <<>>
  BY DEF Up!Choose
<1> HIDE DEF r, other
<1> USE DEF UploadInv
<1>4. upload' \in [Ids -> UploadType]
  BY <1>1, <1>2, <1>3 DEF UploadTypes
<1>5. UploadTypes'
  BY <1>3, <1>4, StoreTypes DEF UploadTypes
<1>6. PanelOK'
  BY <1>2, <1>3 DEF PanelOK, Up!Range
<1>7. ASSUME NEW v \in Ids PROVE UploadOK(v)'
  <2>1. CASE v = u \/ v \in Up!Range(rest)
    <3>1. Up!Free(v) /\ upload'[v].verdict \in {"sending", "waiting"}
      BY <1>1, <1>2, <1>3, <2>1 DEF Up!Range
    <3>2. Quiet(v) /\ call[v].leg = Up!None
      BY <3>1, BeforeStoring DEF Up!Free, Up!Sending, Up!None
    <3> QED
      BY <1>3, <3>1, <3>2, StaysQuiet, QuietIsOK DEF CallOK, Told, Leg, Up!Sending, Up!None
  <2>2. CASE ~(v = u \/ v \in Up!Range(rest))
    <3>1. SameUpload(v)
      BY <1>3, <2>2 DEF SameUpload
    <3> QED  BY <1>3, <3>1, StoreRests, UploadRests
  <2> QED  BY <2>1, <2>2
<1> QED  BY <1>5, <1>6, <1>7

LEMMA SettleStep ==
  ASSUME UploadInv, NEW u \in Ids, Up!Sending(u), NEW verdict \in {"done", "failed", "aborted"},
         Up!Settled(u, verdict), UNCHANGED Up!store,
         call' \in [Ids -> CallType], fault' \in [Ids -> {Up!None, "offline", "cut", "restarted"}],
         \A v \in Ids \ {u} : call'[v] = call[v] /\ fault'[v] = fault[v],
         upload'[u] = [upload[u] EXCEPT !.verdict = verdict] => UploadOK(u)'
  PROVE  UploadInv'
<1>1. /\ upload' \in [Ids -> UploadType]
      /\ panel' \in Seq(Ids) /\ PanelOK'
      /\ upload'[u] = [upload[u] EXCEPT !.verdict = verdict]
      /\ \A v \in Ids \ {u} : SameUpload(v) \/ Waited(v)
  BY PageSettles DEF UploadInv
<1> QED  BY <1>1, OneMoves

LEMMA StopStep ==
  ASSUME UploadInv, NEW u \in Ids, Up!TooLarge(u) \/ Up!StopsHere(u)
  PROVE  UploadInv'
<1> USE DEF UploadInv
<1>1. PICK verdict \in {"failed", "aborted"} : Up!Settled(u, verdict)
  BY DEF Up!TooLarge, Up!StopsHere
<1>2. Up!Sending(u) /\ call[u] = Up!NoCall /\ UNCHANGED <<call, fault>> /\ UNCHANGED Up!store
  BY DEF Up!TooLarge, Up!StopsHere
<1>3. ASSUME upload'[u] = [upload[u] EXCEPT !.verdict = verdict] PROVE UploadOK(u)'
  <2>1. upload'[u].verdict = verdict /\ call'[u].leg = Up!None
    BY <1>2, <1>3 DEF UploadTypes, UploadType, Up!NoCall
  <2>2. Quiet(u)'
    BY <1>2, BeforeStoring, StaysQuiet DEF Up!NoCall
  <2> QED  BY <2>1, <2>2, QuietIsOK DEF CallOK, Told, Leg, Up!Sending, Up!None
<1> QED
  <2>1. call' \in [Ids -> CallType]
        /\ fault' \in [Ids -> {Up!None, "offline", "cut", "restarted"}]
    BY <1>2 DEF UploadTypes
  <2> QED  BY <1>1, <1>2, <1>3, <2>1, SettleStep

\* A request goes on its way.
LEMMA OutStep ==
  ASSUME UploadInv, NEW u \in Ids, Up!SendChunk(u) \/ Up!Forward(u)
  PROVE  UploadInv'
<1> USE DEF UploadInv
<1>1. PICK leg \in {"out", "sent"} : call' = [call EXCEPT ![u].leg = leg]
  BY DEF Up!SendChunk, Up!Forward
<1>2. UNCHANGED <<upload, panel, fault>> /\ UNCHANGED Up!store
  BY DEF Up!SendChunk, Up!Forward, Up!page
<1>3. Up!Sending(u) /\ call[u].leg \in {Up!None, "out"}
  BY DEF Up!SendChunk, Up!Forward, Up!NoCall, UploadOK, CallOK
<1>4. call' \in [Ids -> CallType] /\ call'[u].leg = leg /\ \A v \in Ids \ {u} : call'[v] = call[v]
  BY <1>1 DEF UploadTypes, CallType
<1>5. UploadOK(u)'
  <2>1. Quiet(u)'
    BY <1>2, <1>3, BeforeStoring, StaysQuiet
  <2> QED  BY <1>2, <1>3, <1>4, <2>1, QuietIsOK DEF CallOK, Told, Leg, Up!Sending
<1> QED
  <2>1. \A v \in Ids : SameUpload(v)
    BY <1>2 DEF SameUpload
  <2>2. PanelOK'
    BY <1>2 DEF PanelOK
  <2>3. upload' \in [Ids -> UploadType] /\ panel' \in Seq(Ids)
        /\ fault' \in [Ids -> {Up!None, "offline", "cut", "restarted"}]
    BY <1>2 DEF UploadTypes
  <2> QED  BY <1>2, <1>4, <1>5, <2>1, <2>2, <2>3, OneMoves

\* The page goes on with an upload, its verdict open.
LEMMA PageGoesOn ==
  ASSUME UploadInv, NEW u \in Ids, NEW r \in UploadType, upload' = [upload EXCEPT ![u] = r],
         r.verdict = upload[u].verdict, r.scope = upload[u].scope, r.file = upload[u].file
  PROVE  /\ upload' \in [Ids -> UploadType] /\ upload'[u] = r
         /\ \A v \in Ids \ {u} : SameUpload(v)
         /\ panel' = panel => PanelOK'
BY DEF UploadInv, UploadTypes, SameUpload, PanelOK

LEMMA AbortStep ==
  ASSUME UploadInv, NEW u \in Ids, Up!Abort(u)
  PROVE  UploadInv'
<1> USE DEF UploadInv
<1> DEFINE r == [upload[u] EXCEPT !.abort = TRUE]
<1>1. upload' = [upload EXCEPT ![u] = r]
  BY DEF Up!Abort
<1>2. r \in UploadType /\ r.verdict = upload[u].verdict /\ r.scope = upload[u].scope
      /\ r.file = upload[u].file /\ r.sent = upload[u].sent
  <2>1. upload[u] \in UploadType
    BY DEF UploadTypes
  <2> QED  BY <2>1 DEF UploadType
<1> HIDE DEF r
<1>3. UNCHANGED <<panel, call, fault>> /\ UNCHANGED Up!store
  BY DEF Up!Abort
<1>4. upload' \in [Ids -> UploadType] /\ PanelOK' /\ \A v \in Ids : SameUpload(v)
  BY <1>1, <1>2, <1>3, PageGoesOn DEF SameUpload
<1>5. UploadTypes'
  BY <1>3, <1>4, StoreTypes DEF UploadTypes
<1>6. \A v \in Ids : UploadOK(v)'
  BY <1>3, <1>4, StoreRests, UploadRests
<1> QED  BY <1>4, <1>5, <1>6

LEMMA ReturnStep ==
  ASSUME UploadInv, NEW u \in Ids, Up!Return(u)
  PROVE  UploadInv'
<1> USE DEF UploadInv
<1>1. /\ call[u].leg = "back" /\ call' = [call EXCEPT ![u] = Up!NoCall] /\ Up!Returned(u)
      /\ fault' = fault /\ UNCHANGED Up!store
  BY DEF Up!Return
<1>2. Up!Sending(u)
  BY <1>1 DEF UploadOK, CallOK
<1>3. /\ call' \in [Ids -> CallType]
      /\ fault' \in [Ids -> {Up!None, "offline", "cut", "restarted"}]
      /\ call'[u].leg = Up!None /\ \A v \in Ids \ {u} : call'[v] = call[v] /\ fault'[v] = fault[v]
  BY <1>1 DEF UploadTypes, Up!NoCall, CallType
<1>4. \/ call[u].answer # "complete" /\ Up!Settled(u, "failed")
      \/ call[u].answer = "complete" /\ Up!Settled(u, "done")
      \/ /\ call[u].answer = "accepted" /\ upload' = [upload EXCEPT ![u].sent = @ + 1]
         /\ UNCHANGED panel
  BY <1>1 DEF Up!Returned, Up!Advance
<1>5. CASE call[u].answer # "complete" /\ Up!Settled(u, "failed")
  <2>1. ASSUME upload'[u] = [upload[u] EXCEPT !.verdict = "failed"] PROVE UploadOK(u)'
    <3>1. upload'[u].verdict = "failed"
      BY <2>1 DEF UploadTypes, UploadType
    <3>2. CASE call[u].answer # "error"
      <4>1. Quiet(u)'
        BY <1>1, <1>2, <1>5, <3>2, BeforeStoring, StaysQuiet DEF Leg
      <4> QED  BY <1>3, <3>1, <4>1, QuietIsOK DEF CallOK, Told, Leg, Up!Sending, Up!None
    <3>3. CASE call[u].answer = "error"
      <4>1. ~Busy(u) /\ (Recorded(u) => u \in crossed)
        BY <1>1, <1>2, <3>3 DEF UploadOK, WorkOK, ListedOK, HasSaved, Leg, Told, CutOff,
           Up!Sending
      <4>2. ~Busy(u)' /\ (Recorded(u)' => u \in crossed')
        BY <1>1, <4>1 DEF Up!store, Busy, Recorded
      <4> QED
        BY <1>3, <3>1, <4>2 DEF UploadOK, CallOK, WorkOK, ListedOK, RawOK, DoneOK,
           HasSaved, HasWritten, Told, Leg, Up!Sending, Up!None
    <3> QED  BY <3>2, <3>3
  <2> QED  BY <1>1, <1>2, <1>3, <1>5, <2>1, SettleStep
<1>6. CASE call[u].answer = "complete" /\ Up!Settled(u, "done")
  <2>1. ASSUME upload'[u] = [upload[u] EXCEPT !.verdict = "done"] PROVE UploadOK(u)'
    <3>1. upload'[u].verdict = "done" /\ upload'[u].file = upload[u].file
          /\ Up!Scope(u)' = Up!Scope(u)
      BY <2>1 DEF UploadTypes, UploadType, Up!Scope
    <3>2. Stored(u) /\ StillListed(u) /\ ~Busy(u)
      BY <1>1, <1>2, <1>6 DEF UploadOK, DoneOK, WorkOK, Told, Leg, CutOff, Up!Sending
    <3>3. Stored(u)' /\ StillListed(u)' /\ ~Busy(u)'
      BY <1>1, <3>1, <3>2 DEF Stored, StillListed, Busy, Up!store, Up!Bytes, Up!Listed
    <3> QED
      BY <1>3, <3>1, <3>3 DEF UploadOK, CallOK, WorkOK, ListedOK, RawOK, DoneOK, HasSaved,
         HasWritten, Up!None
  <2> QED  BY <1>1, <1>2, <1>3, <1>6, <2>1, SettleStep
<1>7. CASE /\ call[u].answer = "accepted" /\ upload' = [upload EXCEPT ![u].sent = @ + 1]
           /\ UNCHANGED panel
  <2> DEFINE r == [upload[u] EXCEPT !.sent = @ + 1]
  <2>1. upload' = [upload EXCEPT ![u] = r]
    BY <1>7
  <2>2. r \in UploadType /\ r.verdict = upload[u].verdict /\ r.scope = upload[u].scope
        /\ r.file = upload[u].file
    <3>1. upload[u] \in UploadType
      BY DEF UploadTypes
    <3> QED  BY <3>1 DEF UploadType
  <2> HIDE DEF r
  <2>3. upload' \in [Ids -> UploadType] /\ PanelOK' /\ upload'[u] = r
        /\ \A v \in Ids \ {u} : SameUpload(v)
    BY <1>7, <2>1, <2>2, PageGoesOn
  <2>4. UploadOK(u)'
    <3>1. Quiet(u)'
      BY <1>1, <1>2, <1>7, BeforeStoring, StaysQuiet DEF Leg
    <3>2. upload'[u].verdict = "sending"
      BY <1>2, <2>2, <2>3 DEF Up!Sending
    <3> QED  BY <1>3, <3>1, <3>2, QuietIsOK DEF CallOK, Told, Leg, Up!None
  <2>5. panel' \in Seq(Ids)
    BY <1>7 DEF UploadTypes
  <2> QED  BY <1>1, <1>3, <2>3, <2>4, <2>5, OneMoves
<1> QED  BY <1>4, <1>5, <1>6, <1>7

\* The backend gives a request up.
LEMMA GiveUpStep ==
  ASSUME UploadInv, NEW u \in Ids, Up!Offline(u) \/ Up!Timeout(u)
  PROVE  UploadInv'
<1> USE DEF UploadInv
<1> DEFINE why == IF call[u].leg = "out" THEN "offline" ELSE "cut"
           leg == IF call[u].leg = "sent" THEN "late" ELSE Up!None
<1>1. /\ call[u].leg \in {"out", "sent", "held"} /\ Up!Settled(u, "failed")
      /\ call' = [call EXCEPT ![u].leg = leg] /\ fault' = [fault EXCEPT ![u] = why]
      /\ UNCHANGED Up!store
  BY DEF Up!Offline, Up!Timeout, Up!Waits, Up!Fail
<1>2. Up!Sending(u)
  BY <1>1 DEF UploadOK, CallOK
<1>3. /\ call' \in [Ids -> CallType]
      /\ fault' \in [Ids -> {Up!None, "offline", "cut", "restarted"}]
      /\ call'[u].leg = leg /\ fault'[u] = why
      /\ \A v \in Ids \ {u} : call'[v] = call[v] /\ fault'[v] = fault[v]
  BY <1>1, SMTT(30) DEF UploadTypes, CallType
<1>4. ASSUME upload'[u] = [upload[u] EXCEPT !.verdict = "failed"] PROVE UploadOK(u)'
  <2>1. upload'[u].verdict = "failed" /\ upload'[u].file = upload[u].file
        /\ Up!Scope(u)' = Up!Scope(u)
    BY <1>4 DEF UploadTypes, UploadType, Up!Scope
  <2>2. CASE call[u].leg \in {"out", "sent"}
    <3>1. Quiet(u)'
      BY <1>1, <1>2, <2>2, BeforeStoring, StaysQuiet
    <3> QED  BY <1>3, <2>1, <2>2, <3>1, QuietIsOK DEF CallOK, CutOff, Told, Leg, Up!Sending,
       Up!None
  <2>3. CASE call[u].leg = "held"
    <3>1. CutOff(u)' /\ call'[u].leg = Up!None
      BY <1>3, <2>1, <2>3 DEF CutOff
    <3>2. Busy(u) => /\ work[u].step # "write" => Stored(u)
                     /\ work[u].step = "check" => Up!Scope(u) = "profile" /\ StillListed(u)
      BY DEF UploadOK, WorkOK
    <3>3. Busy(u)' => /\ work'[u].step # "write" => Stored(u)'
                      /\ work'[u].step = "check" => Up!Scope(u)' = "profile" /\ StillListed(u)'
      BY <1>1, <2>1, <3>2 DEF Up!store, Busy, Stored, Up!Bytes, StillListed, Up!Listed
    <3> QED
      BY <2>1, <3>1, <3>3 DEF UploadOK, CallOK, WorkOK, ListedOK, RawOK, DoneOK, HasSaved,
         HasWritten, Told, Leg, Up!Sending, Up!None
  <2> QED  BY <1>1, <2>2, <2>3
<1> HIDE DEF why, leg
<1> QED  BY <1>1, <1>2, <1>3, <1>4, SettleStep

-----------------------------------------------------------------------------
(***************************************************************************)
(* The socket closes.                                                      *)
(***************************************************************************)
LEMMA Rejects ==
  ASSUME UploadInv, Up!Rejected
  PROVE  /\ upload' \in [Ids -> UploadType] /\ panel' \in Seq(Ids) /\ PanelOK'
         /\ call' \in [Ids -> CallType]
         /\ \A u \in Ids : Up!Waits(u) =>
              upload'[u] = [upload[u] EXCEPT !.verdict = "failed"] /\ call'[u] = Up!NoCall
         /\ \A u \in Ids : ~Up!Waits(u) =>
              /\ SameUpload(u) \/ Waited(u)
              /\ call'[u] = IF call[u].leg = "late" THEN Up!NoCall ELSE call[u]
<1> USE DEF UploadInv
<1> DEFINE cut == {u \in Ids : Up!Waits(u)}
           stop == \E u \in cut : Up!Scope(u) = "profile"
<1>1. /\ upload' = [u \in Ids |->
            IF u \in cut THEN [upload[u] EXCEPT !.verdict = "failed"]
            ELSE IF stop /\ u \in Up!Range(panel) THEN [upload[u] EXCEPT !.verdict = "skipped"]
            ELSE upload[u]]
      /\ panel' = IF stop THEN <<>> ELSE panel
      /\ call' = [u \in Ids |-> IF u \in cut \/ call[u].leg = "late" THEN Up!NoCall ELSE call[u]]
  BY DEF Up!Rejected
<1>2. \A u \in cut : Up!Sending(u)
  BY DEF Up!Waits, UploadOK, CallOK
<1>3. \A u \in Ids : u \in cut <=> Up!Waits(u)
  OBVIOUS
<1> HIDE DEF cut, stop
<1>4. upload' \in [Ids -> UploadType]
  <2>1. \A v \in Ids, x \in {"failed", "skipped"} :
          upload[v] \in UploadType /\ [upload[v] EXCEPT !.verdict = x] \in UploadType
    BY UploadJudged DEF UploadTypes
  <2> QED  BY <1>1, <2>1
<1>5. call' \in [Ids -> CallType]
  BY <1>1 DEF UploadTypes, Up!NoCall, CallType
<1>6. ASSUME NEW u \in Ids, ~Up!Waits(u) PROVE SameUpload(u) \/ Waited(u)
  <2>1. CASE stop /\ u \in Up!Range(panel)
    BY <1>1, <1>3, <1>6, <2>1, InPanel DEF Waited, UploadTypes
  <2>2. CASE ~(stop /\ u \in Up!Range(panel))
    BY <1>1, <1>3, <1>6, <2>2 DEF SameUpload
  <2> QED  BY <2>1, <2>2
<1>7. panel' \in Seq(Ids)
  BY <1>1 DEF UploadTypes
<1>8. PanelOK'
  <2>1. CASE stop
    BY <1>1, <2>1 DEF PanelOK
  <2>2. CASE ~stop
    <3>1. \A i \in DOMAIN panel : panel[i] \in Ids /\ panel[i] \notin cut
      BY <1>2 DEF PanelOK, UploadTypes, Up!Sending
    <3> QED  BY <1>1, <2>2, <3>1 DEF PanelOK
  <2> QED  BY <2>1, <2>2
<1> QED  BY <1>1, <1>3, <1>4, <1>5, <1>6, <1>7, <1>8

LEMMA LinkLostStep ==
  ASSUME UploadInv, Up!LinkLost
  PROVE  UploadInv'
<1> USE DEF UploadInv
<1>1. Up!Rejected /\ UNCHANGED Up!store
      /\ fault' = [u \in Ids |-> IF Up!Waits(u) THEN "cut" ELSE fault[u]]
  BY DEF Up!LinkLost
<1>2. UploadTypes' /\ PanelOK'
  <2>1. fault' \in [Ids -> {Up!None, "offline", "cut", "restarted"}]
    BY <1>1 DEF UploadTypes
  <2> QED  BY <1>1, <2>1, Rejects, StoreTypes
<1>3. ASSUME NEW u \in Ids, Up!Waits(u) PROVE UploadOK(u)'
  <2>1. upload'[u] = [upload[u] EXCEPT !.verdict = "failed"] /\ call'[u].leg = Up!None
    BY <1>1, <1>3, Rejects DEF Up!NoCall
  <2>2. upload'[u].verdict = "failed" /\ upload'[u].file = upload[u].file
        /\ Up!Scope(u)' = Up!Scope(u)
    BY <2>1 DEF UploadTypes, UploadType, Up!Scope
  <2>3. CutOff(u)'
    BY <1>1, <1>3, <2>2 DEF CutOff
  <2>4. Busy(u) => /\ work[u].step # "write" => Stored(u)
                   /\ work[u].step = "check" => Up!Scope(u) = "profile" /\ StillListed(u)
    BY DEF UploadOK, WorkOK
  <2>5. Busy(u)' => /\ work'[u].step # "write" => Stored(u)'
                    /\ work'[u].step = "check" => Up!Scope(u)' = "profile" /\ StillListed(u)'
    BY <1>1, <2>2, <2>4 DEF Up!store, Busy, Stored, Up!Bytes, StillListed, Up!Listed
  <2> QED
    BY <2>1, <2>2, <2>3, <2>5 DEF UploadOK, CallOK, WorkOK, ListedOK, RawOK, DoneOK, HasSaved,
       HasWritten, Told, Leg, Up!Sending, Up!None
<1>4. ASSUME NEW u \in Ids, ~Up!Waits(u) PROVE UploadOK(u)'
  <2>1. (SameUpload(u) \/ Waited(u)) /\ fault'[u] = fault[u]
        /\ call'[u] = IF call[u].leg = "late" THEN Up!NoCall ELSE call[u]
    BY <1>1, <1>4, Rejects
  <2>2. SameStore(u)
    BY <1>1, <2>1, StoreRests
  <2>3. CASE call[u].leg # "late"
    BY <2>1, <2>2, <2>3, UploadRests
  <2>4. CASE call[u].leg = "late"
    BY <2>1, <2>2, <2>4, LateEnds
  <2> QED  BY <2>3, <2>4
<1> QED  BY <1>2, <1>3, <1>4

LEMMA RestartStep ==
  ASSUME UploadInv, Up!Restart
  PROVE  UploadInv'
<1> USE DEF UploadInv
<1>1. /\ Up!Rejected /\ work' = <<>> /\ UNCHANGED <<disk, listed, crossed>>
      /\ fault' = [u \in Ids |-> IF Up!Waits(u) THEN "cut"
                                 ELSE IF Up!Sending(u) THEN "restarted" ELSE fault[u]]
  BY DEF Up!Restart
<1>2. UploadTypes' /\ PanelOK'
  <2>1. fault' \in [Ids -> {Up!None, "offline", "cut", "restarted"}]
    BY <1>1 DEF UploadTypes
  <2>2. DOMAIN work' = {} /\ work' = [w \in DOMAIN work' |-> work'[w]]
    BY <1>1
  <2>3. listed' \in [{"project", "profile"} -> SUBSET (Ids \cup {Text})]
    BY <1>1 DEF UploadTypes
  <2> QED  BY <1>1, <2>1, <2>2, <2>3, Rejects DEF UploadTypes
<1>3. \A u \in Ids : ~Busy(u)' /\ (Recorded(u)' => Recorded(u))
  BY <1>1 DEF Busy, Recorded
<1>4. ASSUME NEW u \in Ids, Up!Waits(u) PROVE UploadOK(u)'
  <2>1. upload'[u] = [upload[u] EXCEPT !.verdict = "failed"] /\ call'[u].leg = Up!None
    BY <1>1, <1>4, Rejects DEF Up!NoCall
  <2>2. upload'[u].verdict = "failed"
    BY <2>1 DEF UploadTypes, UploadType
  <2>3. CutOff(u)'
    BY <1>1, <1>4, <2>2 DEF CutOff
  <2> QED
    BY <1>3, <2>1, <2>2, <2>3 DEF UploadOK, CallOK, WorkOK, ListedOK, RawOK, DoneOK, HasSaved,
       HasWritten, Told, Leg, Up!Sending, Up!None
<1>5. ASSUME NEW u \in Ids, ~Up!Waits(u) PROVE UploadOK(u)'
  <2>1. (SameUpload(u) \/ Waited(u)) /\ (Up!Sending(u) \/ fault'[u] = fault[u])
        /\ call'[u] = IF call[u].leg = "late" THEN Up!NoCall ELSE call[u]
    BY <1>1, <1>5, Rejects
  <2>2. CASE Waited(u)
    <3>1. Quiet(u) /\ call[u].leg = Up!None /\ upload'[u].verdict \in {"sending", "skipped"}
      BY <2>2, BeforeStoring DEF Waited, Up!Sending, UploadTypes, UploadType
    <3>2. Quiet(u)'
      BY <1>1, <1>3, <3>1 DEF Quiet
    <3> QED  BY <2>1, <3>1, <3>2, QuietIsOK DEF CallOK, Told, Leg, Up!Sending, Up!None
  <2>3. CASE SameUpload(u)
    <3>1. /\ Up!Scope(u)' = Up!Scope(u) /\ upload'[u].file = upload[u].file
          /\ upload'[u].verdict = upload[u].verdict
      BY <2>3 DEF Up!Scope, SameUpload
    <3>2. (Stored(u) <=> Stored(u)') /\ (StillListed(u) <=> StillListed(u)')
      BY <1>1, <3>1 DEF Stored, StillListed, Up!Bytes, Up!Listed
    <3>3. CASE Up!Sending(u)
      <4>1. call'[u] = call[u] /\ ~CutOff(u) /\ ~CutOff(u)' /\ call[u].leg # "held"
        BY <1>5, <2>1, <3>1, <3>3 DEF UploadOK, CallOK, CutOff, Up!Sending, Up!Waits
      <4> QED
        BY <1>1, <1>3, <3>1, <3>2, <3>3, <4>1 DEF UploadOK, CallOK, WorkOK, ListedOK, RawOK,
           DoneOK,
           HasSaved, HasWritten, Told, Leg, Up!Sending
    <3>4. CASE ~Up!Sending(u)
      <4>1. call[u].leg \in {Up!None, "late"} /\ call'[u].leg = Up!None
        BY <2>1, <3>4 DEF UploadOK, CallOK, Up!NoCall, UploadTypes, CallType
      <4>2. CutOff(u) <=> CutOff(u)'
        BY <2>1, <3>1, <3>4 DEF CutOff
      <4> QED
        BY <1>1, <1>3, <3>1, <3>2, <3>4, <4>1, <4>2 DEF UploadOK, CallOK, WorkOK, ListedOK,
           RawOK,
           DoneOK, HasSaved, HasWritten, Told, Leg, Up!Sending, Up!None
    <3> QED  BY <3>3, <3>4
  <2> QED  BY <2>1, <2>2, <2>3
<1> QED  BY <1>2, <1>4, <1>5

-----------------------------------------------------------------------------
(***************************************************************************)
(* The runner stores.                                                      *)
(***************************************************************************)
Worker == Ids \cup {Text, Pin}
WorkTyped ==
  /\ DOMAIN work \subseteq Worker
  /\ \A w \in DOMAIN work : work[w] \in WorkType
  /\ work = [w \in DOMAIN work |-> work[w]]

\* A step of the runner: what is left to show.
LEMMA RunnerMoves ==
  ASSUME UploadInv, NEW w \in Worker, UNCHANGED <<upload, panel, fault>>,
         call' \in [Ids -> CallType], WorkTyped',
         listed' \in [{"project", "profile"} -> SUBSET (Ids \cup {Text})],
         \A v \in Ids \ {w} : call'[v] = call[v] /\ SameStore(v),
         w \in Ids => UploadOK(w)'
  PROVE  UploadInv'
<1> USE DEF UploadInv
<1>1. UploadTypes'
  BY DEF UploadTypes, WorkTyped, Worker
<1>2. PanelOK'
  BY DEF PanelOK
<1>3. ASSUME NEW v \in Ids \ {w} PROVE UploadOK(v)'
  <2>1. SameUpload(v)
    BY DEF SameUpload
  <2> QED  BY <2>1, UploadRests
<1> QED  BY <1>1, <1>2, <1>3

\* What the operators on the handlers do.
LEMMA WorkBegins ==
  ASSUME UploadTypes, NEW w \in Worker, NEW x \in WorkType, work' = Up!With(work, w, x)
  PROVE  /\ WorkTyped' /\ Busy(w)' /\ work'[w] = x
         /\ \A v : v # w => /\ Busy(v)' <=> Busy(v)
                            /\ Busy(v) => work'[v] = work[v]
BY DEF UploadTypes, WorkTyped, Worker, Up!With, Busy

LEMMA WorkGoes ==
  ASSUME UploadTypes, NEW w \in DOMAIN work, NEW x \in WorkType, work' = [work EXCEPT ![w] = x]
  PROVE  /\ WorkTyped' /\ Busy(w)' /\ work'[w] = x
         /\ \A v : v # w => /\ Busy(v)' <=> Busy(v)
                            /\ Busy(v) => work'[v] = work[v]
BY DEF UploadTypes, WorkTyped, Worker, Busy

LEMMA WorkEnds ==
  ASSUME UploadTypes, NEW w, work' = Up!Without(work, w)
  PROVE  /\ WorkTyped' /\ ~Busy(w)'
         /\ \A v : v # w => /\ Busy(v)' <=> Busy(v)
                            /\ Busy(v) => work'[v] = work[v]
BY DEF UploadTypes, WorkTyped, Worker, Up!Without, Busy

\* Goes and Ends, in these terms.
LEMMA HandlerGoes ==
  ASSUME UploadTypes, NEW w \in Worker, Busy(w),
         NEW step \in {"write", "extract", "load", "save", "check"}, Up!Goes(w, step)
  PROVE  /\ WorkTyped' /\ Busy(w)' /\ work'[w] = [step |-> step, read |-> work[w].read]
         /\ \A v : v # w => /\ Busy(v)' <=> Busy(v)
                            /\ Busy(v) => work'[v] = work[v]
<1> DEFINE x == [step |-> step, read |-> work[w].read]
<1>1. work[w] \in WorkType
  BY DEF UploadTypes, Busy
<1>2. x \in WorkType /\ x = [work[w] EXCEPT !.step = step]
  BY <1>1 DEF WorkType
<1>3. work' = [work EXCEPT ![w] = x]
  BY <1>2 DEF Up!Goes
<1> HIDE DEF x
<1>4. /\ WorkTyped' /\ Busy(w)' /\ work'[w] = x
      /\ \A v : v # w => /\ Busy(v)' <=> Busy(v)
                         /\ Busy(v) => work'[v] = work[v]
  BY <1>2, <1>3, WorkGoes DEF Busy
<1> QED  BY <1>4 DEF x

\* A handler's request is held, or it was cut off.
LEMMA HandlerOf ==
  ASSUME NEW u \in Ids, UploadTypes, UploadOK(u), Busy(u)
  PROVE  \/ Up!Sending(u) /\ call[u].leg = "held" /\ Up!Waits(u) /\ ~CutOff(u)
         \/ CutOff(u) /\ ~Up!Sending(u) /\ ~Up!Waits(u) /\ call[u].leg \in {Up!None, "late"}
BY DEF UploadTypes, CallType, UploadOK, WorkOK, CallOK, Up!Waits, CutOff, Up!Sending

LEMMA AnsweredType ==
  ASSUME UploadTypes, NEW u \in Ids, NEW answer \in {"accepted", "complete", "error"},
         Up!Answered(u, answer)
  PROVE  /\ call' \in [Ids -> CallType] /\ \A v \in Ids \ {u} : call'[v] = call[v]
         /\ Up!Waits(u) => call'[u].leg = "back" /\ call'[u].answer = answer
         /\ ~Up!Waits(u) => call'[u] = Up!NoCall /\ call'[u].leg = Up!None
BY DEF UploadTypes, Up!Answered, CallType, Up!NoCall

\* The others, when a handler of w moves and what it read was read, or is, in a manifest.
LEMMA OthersRest ==
  ASSUME UploadInv, NEW w \in Worker, NEW v \in Ids \ {w}, fault' = fault,
         upload' = upload,
         \A x : x # w => /\ Busy(x)' <=> Busy(x)
                         /\ Busy(x) => work'[x] = work[x],
         Busy(w)' /\ v \in work'[w].read => Recorded(v),
         listed' = listed, crossed' = crossed,
         v \in DOMAIN disk' <=> v \in DOMAIN disk, v \in DOMAIN disk => disk'[v] = disk[v]
  PROVE  SameStore(v)
BY DEF SameStore, Recorded, StillListed, Up!Listed, Up!Scope, Busy

LEMMA BeginStep ==
  ASSUME UploadInv, Up!SaveText \/ Up!TogglePinned
  PROVE  UploadInv'
<1> USE DEF UploadInv
<1>1. PICK w \in {Text, Pin}, step \in {"write", "load"} :
        work' = Up!With(work, w, [step |-> step, read |-> {}])
  BY DEF Up!SaveText, Up!TogglePinned, Up!Begins
<1>2. UNCHANGED <<upload, panel, fault, call, disk, listed, crossed>>
  BY DEF Up!SaveText, Up!TogglePinned, Up!page
<1> DEFINE x == [step |-> step, read |-> {}]
<1>3. x \in WorkType /\ x.read = {}
  BY DEF WorkType
<1> HIDE DEF x
<1>4. w \in Worker /\ w \notin Ids
  BY UploadsAssumption DEF Worker
<1>5. /\ WorkTyped' /\ work'[w] = x
      /\ \A v : v # w => /\ Busy(v)' <=> Busy(v)
                         /\ Busy(v) => work'[v] = work[v]
  BY <1>1, <1>3, <1>4, WorkBegins DEF x
<1>6. \A v \in Ids \ {w} : SameStore(v)
  BY <1>2, <1>3, <1>4, <1>5, OthersRest
<1>7. call' \in [Ids -> CallType]
      /\ listed' \in [{"project", "profile"} -> SUBSET (Ids \cup {Text})]
  BY <1>2 DEF UploadTypes
<1> QED  BY <1>2, <1>4, <1>5, <1>6, <1>7, RunnerMoves

LEMMA ReceiveStep ==
  ASSUME UploadInv, NEW u \in Ids, Up!ReceiveChunk(u)
  PROVE  UploadInv'
<1> USE DEF UploadInv
<1> DEFINE x == [step |-> "write", read |-> {}]
<1>1. /\ call[u].leg \in {"sent", "late"}
      /\ UNCHANGED <<upload, panel, fault, disk, listed, crossed>>
      /\ \/ /\ work' = Up!With(work, u, x)
            /\ call' = [call EXCEPT ![u].leg = IF Up!Waits(u) THEN "held" ELSE Up!None]
         \/ work' = work /\ \E answer \in {"accepted", "error"} : Up!Answered(u, answer)
  BY DEF Up!ReceiveChunk, Up!page, Up!Begins
<1>2. /\ call[u].leg = "sent" => Up!Sending(u) /\ Up!Waits(u) /\ Quiet(u) /\ ~CutOff(u)
      /\ call[u].leg = "late" => CutOff(u) /\ ~Up!Waits(u) /\ ~Up!Sending(u)
  BY BeforeStoring DEF UploadOK, CallOK, Up!Waits, CutOff, Up!Sending, Up!None
<1>3. SameUpload(u) /\ Up!Scope(u)' = Up!Scope(u)
      /\ (Up!Sending(u)' <=> Up!Sending(u)) /\ (CutOff(u)' <=> CutOff(u))
      /\ u \in Worker
  BY <1>1 DEF SameUpload, Up!Scope, Up!Sending, CutOff, Worker
<1>4. listed' \in [{"project", "profile"} -> SUBSET (Ids \cup {Text})]
  BY <1>1 DEF UploadTypes
<1>5. CASE /\ work' = Up!With(work, u, x)
           /\ call' = [call EXCEPT ![u].leg = IF Up!Waits(u) THEN "held" ELSE Up!None]
  <2>1. x \in WorkType /\ x.read = {} /\ x.step = "write"
    BY DEF WorkType
  <2> HIDE DEF x
  <2>2. /\ WorkTyped' /\ Busy(u)' /\ work'[u] = x
        /\ \A v : v # u => /\ Busy(v)' <=> Busy(v)
                           /\ Busy(v) => work'[v] = work[v]
    BY <1>3, <1>5, <2>1, WorkBegins
  <2>3. \A v \in Ids \ {u} : SameStore(v)
    BY <1>1, <1>3, <2>1, <2>2, OthersRest
  <2>4. /\ call' \in [Ids -> CallType] /\ \A v \in Ids \ {u} : call'[v] = call[v]
        /\ call'[u].leg = IF Up!Waits(u) THEN "held" ELSE Up!None
    BY <1>5 DEF UploadTypes, CallType
  <2>5. Recorded(u)' => Recorded(u)
    BY <1>1, <2>1, <2>2 DEF Recorded, Busy
  <2>6. UploadOK(u)'
    <3>1. CASE call[u].leg = "sent"
      BY <1>1, <1>2, <1>3, <2>1, <2>2, <2>4, <2>5, <3>1 DEF Quiet, UploadOK, CallOK, WorkOK,
         ListedOK, RawOK, DoneOK, Told, Leg, Up!Sending, Up!None
    <3>2. CASE call[u].leg = "late"
      BY <1>1, <1>2, <1>3, <2>1, <2>2, <2>4, <3>2 DEF UploadOK, CallOK, WorkOK,
         ListedOK, RawOK, DoneOK, HasSaved, HasWritten, CutOff, Told, Leg, Up!Sending, Up!None
    <3> QED  BY <1>1, <3>1, <3>2
  <2> QED  BY <1>1, <1>3, <1>4, <2>2, <2>3, <2>4, <2>6, RunnerMoves
<1>6. CASE work' = work /\ \E answer \in {"accepted", "error"} : Up!Answered(u, answer)
  <2>1. PICK answer \in {"accepted", "error"} : Up!Answered(u, answer)
    BY <1>6
  <2>2. /\ call' \in [Ids -> CallType] /\ \A v \in Ids \ {u} : call'[v] = call[v]
        /\ Up!Waits(u) => call'[u].leg = "back" /\ call'[u].answer = answer
        /\ ~Up!Waits(u) => call'[u] = Up!NoCall
    BY <2>1, AnsweredType
  <2>3. UNCHANGED Up!store /\ WorkTyped'
    BY <1>1, <1>6 DEF Up!store, UploadTypes, WorkTyped, Worker
  <2>4. \A v \in Ids : SameStore(v)
    <3>1. \A v \in Ids : SameUpload(v)
      BY <1>1 DEF SameUpload
    <3> QED  BY <1>1, <2>3, <3>1, StoreRests
  <2>5. UploadOK(u)'
    <3>1. CASE call[u].leg = "sent"
      <4>1. Quiet(u)'
        BY <1>2, <2>3, <3>1, StaysQuiet
      <4>2. Up!Sending(u)' /\ call'[u].leg = "back" /\ call'[u].answer # "complete"
        BY <1>2, <1>3, <2>2, <3>1
      <4> QED  BY <4>1, <4>2, QuietIsOK DEF CallOK, Told, Leg, Up!Sending
    <3>2. CASE call[u].leg = "late"
      BY <1>2, <1>3, <2>2, <2>4, <3>2, LateEnds
    <3> QED  BY <1>1, <3>1, <3>2
  <2> QED  BY <1>1, <1>3, <1>4, <2>2, <2>3, <2>4, <2>5, RunnerMoves
<1> QED  BY <1>1, <1>5, <1>6

\* The handler goes on, and the manifests stay.
LEMMA GoesStep ==
  ASSUME UploadInv, NEW w \in Worker, Busy(w), NEW x \in WorkType,
         work' = [work EXCEPT ![w] = x],
         \A v \in Ids : v \in x.read => Recorded(v),
         UNCHANGED <<upload, panel, call, fault, listed, crossed>>,
         \A v \in Ids \ {w} : /\ v \in DOMAIN disk' <=> v \in DOMAIN disk
                              /\ v \in DOMAIN disk => disk'[v] = disk[v],
         w \in Ids => /\ work[w].step # "check" /\ x.step \in {"extract", "load", "save"}
                      /\ Stored(w)'
  PROVE  UploadInv'
<1> USE DEF UploadInv
<1>1. /\ WorkTyped' /\ Busy(w)' /\ work'[w] = x
      /\ \A v : v # w => /\ Busy(v)' <=> Busy(v)
                         /\ Busy(v) => work'[v] = work[v]
  BY WorkGoes DEF Busy
<1>2. \A v \in Ids \ {w} : SameStore(v)
  BY <1>1, OthersRest
<1>3. ASSUME w \in Ids PROVE UploadOK(w)'
  <2>1. Recorded(w)' => Recorded(w)
    BY <1>1, <1>3 DEF Recorded, Busy
  <2>2. Up!Sending(w)' = Up!Sending(w) /\ CutOff(w)' = CutOff(w)
    BY DEF Up!Sending, CutOff
  <2>3. \/ Up!Sending(w) /\ call[w].leg = "held" /\ ~CutOff(w)
        \/ CutOff(w) /\ ~Up!Sending(w) /\ call[w].leg \in {Up!None, "late"}
    BY <1>3, HandlerOf
  <2>4. Recorded(w) => CutOff(w)
    <3>1. Recorded(w) => HasSaved(w)
      BY <1>3 DEF UploadOK, ListedOK
    <3> QED  BY <1>3, <2>3, <3>1 DEF HasSaved, Told, Leg, CutOff, Up!Sending
  <2>5. CASE Up!Sending(w) /\ call[w].leg = "held" /\ ~CutOff(w)
    BY <1>1, <1>3, <2>1, <2>2, <2>4, <2>5 DEF UploadOK, CallOK, WorkOK, ListedOK, RawOK, DoneOK,
       HasSaved, HasWritten, Told, Leg, Up!Sending, Up!None
  <2>6. CASE CutOff(w) /\ ~Up!Sending(w) /\ call[w].leg \in {Up!None, "late"}
    BY <1>1, <1>3, <2>2, <2>6 DEF UploadOK, CallOK, WorkOK, ListedOK, RawOK, DoneOK,
       HasSaved, HasWritten, Told, Leg, CutOff, Up!None
  <2> QED  BY <2>3, <2>5, <2>6
<1>4. call' \in [Ids -> CallType]
      /\ listed' \in [{"project", "profile"} -> SUBSET (Ids \cup {Text})]
  BY DEF UploadTypes
<1> QED  BY <1>1, <1>2, <1>3, <1>4, RunnerMoves

\* Goes, as an assignment.
LEMMA GoesTo ==
  ASSUME UploadTypes, NEW w, Busy(w),
         NEW step \in {"write", "extract", "load", "save", "check"}, Up!Goes(w, step)
  PROVE  \E x \in WorkType : /\ work' = [work EXCEPT ![w] = x]
                             /\ x.step = step /\ x.read = work[w].read
<1> DEFINE x == [step |-> step, read |-> work[w].read]
<1>1. work[w] \in WorkType
  BY DEF UploadTypes, Busy
<1>2. x \in WorkType /\ x = [work[w] EXCEPT !.step = step]
  BY <1>1 DEF WorkType
<1>3. work' = [work EXCEPT ![w] = x]
  BY <1>2 DEF Up!Goes
<1>4. x.step = step /\ x.read = work[w].read
  OBVIOUS
<1> HIDE DEF x
<1> QED  BY <1>2, <1>3, <1>4

LEMMA WriteRawStep ==
  ASSUME UploadInv, NEW w \in Worker, Up!WriteRaw(w)
  PROVE  UploadInv'
<1> USE DEF UploadInv
<1>1. Busy(w) /\ UNCHANGED <<upload, panel, call, fault, listed, crossed>>
      /\ work[w].step = "write"
      /\ disk' = Up!With(disk, w, IF w \in Ids THEN Up!Bytes(w) ELSE <<>>)
      /\ Up!Goes(w, IF w \in Ids THEN "extract" ELSE "load")
  BY DEF Up!WriteRaw, Up!At, Busy, Up!page
<1>2. PICK x \in WorkType : /\ work' = [work EXCEPT ![w] = x]
                            /\ x.step = (IF w \in Ids THEN "extract" ELSE "load")
                            /\ x.read = work[w].read
  BY <1>1, GoesTo
<1>3. \A v \in Ids : v \in x.read => Recorded(v)
  BY <1>1, <1>2 DEF Recorded, Busy
<1>4. \A v \in Ids \ {w} : /\ v \in DOMAIN disk' <=> v \in DOMAIN disk
                           /\ v \in DOMAIN disk => disk'[v] = disk[v]
  BY <1>1 DEF Up!With
<1>5. w \in Ids => /\ work[w].step # "check" /\ x.step \in {"extract", "load", "save"}
                   /\ Stored(w)'
  BY <1>1, <1>2 DEF Up!With, Stored, Up!Bytes
<1> QED  BY <1>1, <1>2, <1>3, <1>4, <1>5, GoesStep

LEMMA ExtractStep ==
  ASSUME UploadInv, NEW u \in Ids, Up!Extract(u)
  PROVE  UploadInv'
<1> USE DEF UploadInv
<1>1. Busy(u) /\ UNCHANGED <<upload, panel, call, fault, listed, crossed, disk>>
      /\ work[u].step = "extract" /\ Up!Goes(u, "load") /\ u \in Worker
  BY DEF Up!Extract, Up!At, Busy, Up!page, Worker
<1>2. PICK x \in WorkType : /\ work' = [work EXCEPT ![u] = x]
                            /\ x.step = "load" /\ x.read = work[u].read
  BY <1>1, GoesTo
<1>3. \A v \in Ids : v \in x.read => Recorded(v)
  BY <1>1, <1>2 DEF Recorded, Busy
<1>4. Stored(u)'
  BY <1>1 DEF UploadOK, WorkOK, Stored, Up!Bytes
<1> QED  BY <1>1, <1>2, <1>3, <1>4, GoesStep

LEMMA LoadManifestStep ==
  ASSUME UploadInv, NEW w \in Worker, Up!LoadManifest(w)
  PROVE  UploadInv'
<1> USE DEF UploadInv
<1> DEFINE x == [step |-> "save", read |-> listed[Up!Scope(w)]]
<1>1. Busy(w) /\ UNCHANGED <<upload, panel, call, fault, listed, crossed, disk>>
      /\ work[w].step = "load" /\ work' = [work EXCEPT ![w] = x]
  BY DEF Up!LoadManifest, Up!At, Busy, Up!page
<1>2. Up!Scope(w) \in {"project", "profile"}
  BY DEF Up!Scope, UploadTypes, UploadType
<1>3. x \in WorkType
  BY <1>2 DEF UploadTypes, WorkType
<1>4. \A v \in Ids : v \in x.read => Recorded(v)
  BY <1>2 DEF Recorded
<1>5. x.step = "save"
  OBVIOUS
<1> HIDE DEF x
<1>6. w \in Ids => Stored(w)'
  BY <1>1 DEF UploadOK, WorkOK, Stored, Up!Bytes
<1> QED  BY <1>1, <1>3, <1>4, <1>5, <1>6, GoesStep

\* The last step of a handler of an upload: what it answers is true.
LEMMA EndedIsOK ==
  ASSUME UploadInv, NEW u \in Ids, Busy(u), ~Busy(u)',
         NEW answer \in {"complete", "error"}, Up!Answered(u, answer),
         UNCHANGED <<upload, panel, fault>>,
         answer = "complete" => Stored(u)' /\ StillListed(u)',
         answer = "error" => (Recorded(u)' => u \in crossed') \/ CutOff(u)
  PROVE  UploadOK(u)'
<1> USE DEF UploadInv
<1>1. \/ Up!Sending(u) /\ call[u].leg = "held" /\ Up!Waits(u) /\ ~CutOff(u)
      \/ CutOff(u) /\ ~Up!Sending(u) /\ ~Up!Waits(u) /\ call[u].leg \in {Up!None, "late"}
  BY HandlerOf
<1>2. Up!Sending(u)' = Up!Sending(u) /\ CutOff(u)' = CutOff(u)
  BY DEF Up!Sending, CutOff
<1>3. /\ Up!Waits(u) => call'[u].leg = "back" /\ call'[u].answer = answer
      /\ ~Up!Waits(u) => call'[u].leg = Up!None
  BY AnsweredType
<1>4. CASE Up!Sending(u) /\ Up!Waits(u) /\ ~CutOff(u)
  BY <1>2, <1>3, <1>4 DEF UploadOK, CallOK, WorkOK, ListedOK, RawOK, DoneOK, HasSaved,
     HasWritten,
     Told, Leg, Up!Sending
<1>5. CASE CutOff(u) /\ ~Up!Waits(u)
  BY <1>2, <1>3, <1>5 DEF UploadOK, CallOK, WorkOK, ListedOK, RawOK, DoneOK, HasSaved,
     HasWritten,
     CutOff, Told, Leg, Up!Sending, Up!None
<1> QED  BY <1>1, <1>4, <1>5

LEMMA UnreadableStep ==
  ASSUME UploadInv, NEW u \in Ids, Up!Unreadable(u)
  PROVE  UploadInv'
<1> USE DEF UploadInv
<1>1. /\ Busy(u) /\ work[u].step = "extract"
      /\ UNCHANGED <<upload, panel, fault, listed, crossed>>
      /\ disk' = Up!Without(disk, u) /\ work' = Up!Without(work, u) /\ Up!Answered(u, "error")
  BY DEF Up!Unreadable, Up!At, Busy, Up!page, Up!Ends
<1>2. /\ WorkTyped' /\ ~Busy(u)'
      /\ \A v : v # u => /\ Busy(v)' <=> Busy(v)
                         /\ Busy(v) => work'[v] = work[v]
  BY <1>1, WorkEnds
<1>3. /\ call' \in [Ids -> CallType] /\ \A v \in Ids \ {u} : call'[v] = call[v]
  BY <1>1, AnsweredType
<1>4. u \in Worker
  BY DEF Worker
<1>5. \A v \in Ids \ {u} : SameStore(v)
  <2>1. \A v \in Ids \ {u} : /\ v \in DOMAIN disk' <=> v \in DOMAIN disk
                             /\ v \in DOMAIN disk => disk'[v] = disk[v]
    BY <1>1 DEF Up!Without
  <2> QED  BY <1>1, <1>2, <1>4, <2>1, OthersRest
<1>6. Recorded(u)' => Recorded(u)
  BY <1>1, <1>2 DEF Recorded, Busy
<1>7. Recorded(u) => CutOff(u)
  <2>1. (Up!Sending(u) /\ call[u].leg = "held") \/ CutOff(u)
    BY <1>1, HandlerOf
  <2> QED  BY <1>1, <2>1 DEF UploadOK, ListedOK, HasSaved, Told, Leg, CutOff, Up!Sending
<1>8. UploadOK(u)'
  BY <1>1, <1>2, <1>6, <1>7, EndedIsOK
<1>9. listed' \in [{"project", "profile"} -> SUBSET (Ids \cup {Text})]
  BY <1>1 DEF UploadTypes
<1> QED  BY <1>1, <1>2, <1>3, <1>4, <1>5, <1>8, <1>9, RunnerMoves

LEMMA FindSavedStep ==
  ASSUME UploadInv, NEW w \in Worker, Up!FindSaved(w)
  PROVE  UploadInv'
<1> USE DEF UploadInv
<1> DEFINE answer == IF w \in listed["profile"] THEN "complete" ELSE "error"
<1>1. /\ Busy(w) /\ work[w].step = "check"
      /\ UNCHANGED <<upload, panel, fault, listed, crossed, disk>>
      /\ work' = Up!Without(work, w)
      /\ IF w \in Ids THEN Up!Answered(w, answer) ELSE call' = call
  BY DEF Up!FindSaved, Up!At, Busy, Up!page, Up!Ends
<1>2. /\ WorkTyped' /\ ~Busy(w)'
      /\ \A v : v # w => /\ Busy(v)' <=> Busy(v)
                         /\ Busy(v) => work'[v] = work[v]
  BY <1>1, WorkEnds
<1>3. /\ call' \in [Ids -> CallType] /\ \A v \in Ids \ {w} : call'[v] = call[v]
  BY <1>1, AnsweredType DEF UploadTypes
<1>4. \A v \in Ids \ {w} : SameStore(v)
  BY <1>1, <1>2, OthersRest
<1>5. ASSUME w \in Ids PROVE UploadOK(w)'
  <2>1. Up!Scope(w) = "profile" /\ StillListed(w) /\ Stored(w)
    BY <1>1, <1>5 DEF UploadOK, WorkOK
  <2>2. StillListed(w)' /\ Stored(w)'
    BY <1>1, <2>1 DEF StillListed, Stored, Up!Listed, Up!Scope, Up!Bytes
  <2>3. answer = "error" => w \in crossed'
    BY <1>1, <1>5, <2>1 DEF StillListed, Up!Listed
  <2> QED  BY <1>1, <1>2, <1>5, <2>2, <2>3, EndedIsOK
<1>6. listed' \in [{"project", "profile"} -> SUBSET (Ids \cup {Text})]
  BY <1>1 DEF UploadTypes
<1> QED  BY <1>1, <1>2, <1>3, <1>4, <1>5, <1>6, RunnerMoves

LEMMA SaveManifestStep ==
  ASSUME UploadInv, NEW w \in Worker, Up!SaveManifest(w)
  PROVE  UploadInv'
<1> USE DEF UploadInv
<1>1. /\ Busy(w) /\ work[w].step = "save"
      /\ UNCHANGED <<upload, panel, fault, disk>>
      /\ listed' = [listed EXCEPT ![Up!Scope(w)] = work[w].read \cup ({w} \ {Pin})]
      /\ crossed' = crossed \cup (listed[Up!Scope(w)] \ work[w].read)
      /\ IF Up!Scope(w) = "project" THEN Up!Ends(w, "complete")
         ELSE Up!Goes(w, "check") /\ UNCHANGED call
  BY DEF Up!SaveManifest, Up!At, Busy, Up!page
<1>2. Up!Scope(w) \in {"project", "profile"} /\ (w \notin Ids => Up!Scope(w) = "profile")
  BY DEF Up!Scope, UploadTypes, UploadType
<1>3. work[w].read \subseteq Ids \cup {Text}
  BY <1>1 DEF UploadTypes, WorkType, Busy
<1>4. listed' \in [{"project", "profile"} -> SUBSET (Ids \cup {Text})]
  <2>1. {w} \ {Pin} \subseteq Ids \cup {Text}
    BY DEF Worker
  <2> QED  BY <1>1, <1>2, <1>3, <2>1 DEF UploadTypes
<1>5. /\ WorkTyped' /\ call' \in [Ids -> CallType] /\ \A v \in Ids \ {w} : call'[v] = call[v]
      /\ \A v : v # w => /\ Busy(v)' <=> Busy(v)
                         /\ Busy(v) => work'[v] = work[v]
      /\ Busy(w)' => work'[w].read = work[w].read
  <2>1. CASE Up!Scope(w) = "project"
    <3>1. work' = Up!Without(work, w) /\ w \in Ids /\ Up!Answered(w, "complete")
      BY <1>1, <1>2, <2>1 DEF Up!Ends
    <3>2. /\ WorkTyped' /\ ~Busy(w)'
          /\ \A v : v # w => /\ Busy(v)' <=> Busy(v)
                             /\ Busy(v) => work'[v] = work[v]
      BY <3>1, WorkEnds
    <3> QED  BY <3>1, <3>2, AnsweredType
  <2>2. CASE Up!Scope(w) # "project"
    <3>1. Up!Goes(w, "check") /\ call' = call
      BY <1>1, <2>2
    <3>2. /\ WorkTyped' /\ work'[w] = [step |-> "check", read |-> work[w].read]
          /\ \A v : v # w => /\ Busy(v)' <=> Busy(v)
                             /\ Busy(v) => work'[v] = work[v]
      BY <1>1, <3>1, HandlerGoes
    <3> QED  BY <3>1, <3>2 DEF UploadTypes
  <2> QED  BY <2>1, <2>2
<1>6. ASSUME NEW v \in Ids \ {w} PROVE SameStore(v)
  <2>1. Recorded(v)' => Recorded(v)
    <3>1. \A s \in {"project", "profile"} :
             v \in listed'[s] => v \in listed[s] \/ v \in work[w].read
      BY <1>1, <1>2, <1>4 DEF UploadTypes
    <3> QED  BY <1>1, <1>5, <3>1 DEF Recorded, Busy
  <2>2. StillListed(v) => StillListed(v)'
    <3>1. Up!Scope(v)' = Up!Scope(v) /\ Up!Scope(v) \in {"project", "profile"}
      BY <1>1 DEF Up!Scope, UploadTypes, UploadType
    <3> QED  BY <1>1, <1>2, <3>1 DEF StillListed, Up!Listed, UploadTypes
  <2> QED  BY <1>1, <1>5, <2>1, <2>2 DEF SameStore
<1>7. ASSUME w \in Ids PROVE UploadOK(w)'
  <2>1. Up!Scope(w)' = Up!Scope(w) /\ Stored(w) /\ Stored(w)'
    BY <1>1, <1>7 DEF Up!Scope, UploadOK, WorkOK, Stored, Up!Bytes
  <2>2. StillListed(w)'
    <3>1. w # Pin
      BY <1>7, UploadsAssumption
    <3> QED  BY <1>1, <1>2, <2>1, <3>1 DEF StillListed, Up!Listed, UploadTypes
  <2>3. CASE Up!Scope(w) = "project"
    <3>1. work' = Up!Without(work, w) /\ Up!Answered(w, "complete")
      BY <1>1, <1>7, <2>3 DEF Up!Ends
    <3>2. ~Busy(w)'
      BY <3>1, WorkEnds
    <3> QED  BY <1>1, <1>7, <2>1, <2>2, <3>1, <3>2, EndedIsOK
  <2>4. CASE Up!Scope(w) # "project"
    <3>1. Up!Goes(w, "check") /\ call' = call
      BY <1>1, <2>4
    <3>2. Busy(w)' /\ work'[w].step = "check"
      <4>1. Busy(w)' /\ work'[w] = [step |-> "check", read |-> work[w].read]
        BY <1>1, <3>1, HandlerGoes
      <4> QED  BY <4>1
    <3>3. Up!Sending(w)' = Up!Sending(w) /\ CutOff(w)' = CutOff(w)
      BY <1>1 DEF Up!Sending, CutOff
    <3>4. \/ Up!Sending(w) /\ call[w].leg = "held" /\ Up!Waits(w) /\ ~CutOff(w)
          \/ CutOff(w) /\ ~Up!Sending(w) /\ ~Up!Waits(w) /\ call[w].leg \in {Up!None, "late"}
      BY <1>1, <1>7, HandlerOf
    <3>5. CASE Up!Sending(w) /\ call[w].leg = "held"
      BY <1>2, <2>1, <2>2, <2>4, <3>1, <3>2, <3>3, <3>5 DEF UploadOK, CallOK, WorkOK, ListedOK,
         RawOK, DoneOK, HasSaved, HasWritten, Told, Leg, Up!Sending
    <3>6. CASE CutOff(w) /\ ~Up!Sending(w) /\ call[w].leg \in {Up!None, "late"}
      BY <1>2, <1>7, <2>1, <2>2, <2>4, <3>1, <3>2, <3>3, <3>6 DEF UploadOK, CallOK, WorkOK,
         ListedOK,
         RawOK, DoneOK, HasSaved, HasWritten, CutOff, Told, Leg, Up!Sending, Up!None
    <3> QED  BY <3>4, <3>5, <3>6
  <2> QED  BY <2>3, <2>4
<1> QED  BY <1>1, <1>4, <1>5, <1>6, <1>7, RunnerMoves

-----------------------------------------------------------------------------
LEMMA UploadStutters ==
  ASSUME UploadInv, UNCHANGED <<upload, panel, call, fault>>, UNCHANGED Up!store
  PROVE  UploadInv'
<1> USE DEF UploadInv
<1>1. UploadTypes'
  BY DEF UploadTypes, Up!store
<1>2. PanelOK'
  BY DEF PanelOK
<1>3. ASSUME NEW u \in Ids PROVE UploadOK(u)'
  <2>1. SameUpload(u)
    BY DEF SameUpload
  <2> QED  BY <2>1, StoreRests, UploadRests
<1> QED  BY <1>1, <1>2, <1>3

LEMMA UploadSteps ==
  ASSUME UploadInv, [Up!Next]_Up!vars
  PROVE  UploadInv'
<1>1. CASE Up!UserActs
  <2>1. ASSUME NEW u \in Ids, NEW file \in Files, Up!Drop(u, file) PROVE UploadInv'
    BY <2>1, DropStep
  <2>2. ASSUME NEW u \in Ids, NEW file \in Files, Up!Choose(u, file, <<>>, <<>>) PROVE UploadInv'
    <3>1. <<>> \in Seq(Ids) /\ DOMAIN <<>> = {}
      OBVIOUS
    <3> QED  BY <2>2, <3>1, ChooseStep
  <2>3. ASSUME NEW u \in Ids, NEW v \in Ids, NEW file \in Files, NEW other \in Files,
               Up!Choose(u, file, <<v>>, <<other>>)
        PROVE  UploadInv'
    <3>1. <<v>> \in Seq(Ids) /\ DOMAIN <<v>> = {1} /\ <<other>>[1] \in Files
      OBVIOUS
    <3> QED  BY <2>3, <3>1, ChooseStep
  <2>4. ASSUME NEW u \in Ids, Up!Abort(u) PROVE UploadInv'
    BY <2>4, AbortStep
  <2>5. CASE Up!SaveText \/ Up!TogglePinned
    BY <2>5, BeginStep
  <2> QED  BY <1>1, <2>1, <2>2, <2>3, <2>4, <2>5 DEF Up!UserActs
<1>2. CASE Up!PageActs
  BY <1>2, StopStep, OutStep, ReturnStep DEF Up!PageActs
<1>3. CASE Up!LinkActs
  <2>1. CASE Up!LinkBack
    BY <2>1, UploadStutters DEF Up!LinkBack, Up!page
  <2> QED  BY <1>3, <2>1, LinkLostStep, RestartStep, OutStep, GiveUpStep DEF Up!LinkActs
<1>4. CASE Up!RunnerActs
  BY <1>4, ReceiveStep, UnreadableStep, ExtractStep, WriteRawStep, LoadManifestStep,
     SaveManifestStep, FindSavedStep DEF Up!RunnerActs, Worker
<1>5. CASE UNCHANGED Up!vars
  BY <1>5, UploadStutters DEF Up!vars, Up!store
<1> QED  BY <1>1, <1>2, <1>3, <1>4, <1>5 DEF Up!Next

LEMMA UploadVerdict == ASSUME UploadInv PROVE VerdictIsTrue
<1> SUFFICES ASSUME NEW u \in Ids
             PROVE  LET v == upload[u].verdict IN
                    /\ v = "done" => /\ u \in DOMAIN disk /\ disk[u] = Up!Bytes(u)
                                     /\ Up!Listed(u) \/ u \in crossed
                    /\ v = "aborted" => u \notin DOMAIN disk /\ ~Up!Listed(u)
                    /\ v = "failed" /\ fault[u] # "cut" => ~Up!Listed(u) \/ u \in crossed
  BY DEF VerdictIsTrue, Up!VerdictIsTrue
<1> USE DEF UploadInv
<1>1. Up!Listed(u) => Recorded(u)
  BY DEF Up!Listed, Recorded, Up!Scope, UploadTypes, UploadType
<1> QED
  BY <1>1 DEF UploadOK, ListedOK, RawOK, DoneOK, HasSaved, HasWritten, Told, Leg, CutOff,
     Stored,
     StillListed, Up!Sending

\* What the page says of an upload is true, for any files, chunks and handlers: what
\* it calls uploaded is stored and listed, what was stopped left nothing, and what
\* failed is not listed unless its request was given up (uploadFileInChunks,
\* sendRpc, uploadDocumentChunk, persistDocument).
THEOREM UploadVerdicts == Up!Spec => []VerdictIsTrue
<1>1. Up!Spec => []UploadInv
  BY UploadInit, UploadSteps, PTL DEF Up!Spec
<1> QED  BY <1>1, UploadVerdict, PTL

-----------------------------------------------------------------------------
(***************************************************************************)
(* Chunks.                                                                 *)
(***************************************************************************)
Size(u) == upload[u].file.size
Parts(u) == Up!TotalChunks(Size(u))
Gathered(u, m) == SubSeq(Up!Bytes(u), 1, m)

\* The chunks cover the file, and without the last one they do not.
LEMMA Chunks ==
  ASSUME NEW size \in Nat
  PROVE  /\ Up!TotalChunks(size) \in Nat \ {0}
         /\ size <= Up!TotalChunks(size) * ChunkSize
         /\ \A n \in Nat : n < Up!TotalChunks(size) => n * ChunkSize <= size
<1> DEFINE c == ChunkSize
<1>1. c \in Nat \ {0}
  BY UploadsAssumption
<1> HIDE DEF c
<1>2. CASE size = 0
  <2>1. Up!TotalChunks(size) = 1
    BY <1>2 DEF Up!TotalChunks
  <2>2. \A n \in Nat : n < 1 => n * c <= size
    <3>1. \A n \in Nat : n < 1 => n = 0
      OBVIOUS
    <3> QED  BY <1>1, <1>2, <3>1
  <2> QED  BY <1>1, <1>2, <2>1, <2>2 DEF c
<1>3. CASE size # 0
  <2> DEFINE a == size + c - 1
             t == a \div c
  <2>1. Up!TotalChunks(size) = t
    BY <1>3 DEF Up!TotalChunks, c
  <2>2. a \in Nat /\ a + 1 = size + c
    BY <1>1, <1>3
  <2> HIDE DEF a
  <2>3. t \in Nat /\ t * c <= a /\ a < (t + 1) * c
    BY <1>1, <2>2
  <2> HIDE DEF t
  <2>4. (t + 1) * c = t * c + c /\ (t - 1) * c = t * c - c
    BY <1>1, <2>3
  <2>5. t * c \in Nat
    BY <1>1, <2>3
  <2>6. size <= t * c /\ (t - 1) * c <= size
    BY <1>1, <2>2, <2>3, <2>4, <2>5
  <2>7. t # 0
    <3>1. 0 * c = 0
      BY <1>1
    <3> QED  BY <1>3, <2>6, <3>1
  <2>8. ASSUME NEW n \in Nat, n < t PROVE n * c <= size
    <3>1. n * c <= (t - 1) * c
      <4>1. n <= t - 1 /\ t - 1 \in Nat
        BY <2>3, <2>7, <2>8
      <4> QED  BY <1>1, <4>1
    <3>2. n * c \in Int /\ (t - 1) * c \in Int
      BY <1>1, <2>3
    <3> QED  BY <2>6, <3>1, <3>2
  <2> QED  BY <2>1, <2>3, <2>6, <2>7, <2>8 DEF c
<1> QED  BY <1>2, <1>3

LEMMA BytesOf ==
  ASSUME UploadTypes, NEW u \in Ids
  PROVE  Size(u) \in Nat /\ Up!Bytes(u) \in Seq({u} \X Nat) /\ Len(Up!Bytes(u)) = Size(u)
<1>1. Size(u) \in Nat
  BY DEF Size, UploadTypes, UploadType, FileType
<1> QED  BY <1>1 DEF Up!Bytes, Size

\* A chunk goes on where the ones before it end.
LEMMA NextChunk ==
  ASSUME UploadTypes, NEW u \in Ids, NEW n \in Nat, n < Parts(u)
  PROVE  LET e == Up!Smaller((n + 1) * ChunkSize, Size(u)) IN
         /\ n * ChunkSize \in Nat /\ e \in Nat
         /\ Gathered(u, n * ChunkSize) \o Up!Chunk(u, n) = Gathered(u, e)
         /\ Len(Gathered(u, e)) = e
         /\ n + 1 < Parts(u) => e = (n + 1) * ChunkSize
         /\ n + 1 = Parts(u) => e = Size(u)
<1> DEFINE m == n * ChunkSize
           k == (n + 1) * ChunkSize
           e == Up!Smaller(k, Size(u))
<1>1. Size(u) \in Nat /\ Up!Bytes(u) \in Seq({u} \X Nat) /\ Len(Up!Bytes(u)) = Size(u)
  BY BytesOf
<1>2. m \in Nat /\ k \in Nat /\ m <= k
  <2>1. ChunkSize \in Nat
    BY UploadsAssumption
  <2>2. m \in Nat /\ k = m + ChunkSize
    BY <2>1
  <2> HIDE DEF m, k
  <2> QED  BY <2>1, <2>2
<1>3. m <= Size(u) /\ (n + 1 < Parts(u) => k <= Size(u)) /\ (n + 1 = Parts(u) => Size(u) <= k)
  <2>1. n + 1 \in Nat
    OBVIOUS
  <2> QED  BY <1>1, <2>1, Chunks DEF Parts
<1>4. Up!Chunk(u, n) = SubSeq(Up!Bytes(u), m + 1, e)
  BY DEF Up!Chunk, Size
<1> HIDE DEF m, k
<1>5. e \in Nat /\ m <= e /\ e <= Size(u)
      /\ (n + 1 < Parts(u) => e = k) /\ (n + 1 = Parts(u) => e = Size(u))
  BY <1>1, <1>2, <1>3 DEF Up!Smaller
<1> HIDE DEF e
<1>6. 1 \in 1..Len(Up!Bytes(u)) + 1 /\ m \in 1 - 1..Len(Up!Bytes(u)) /\ e \in m..Len(Up!Bytes(u))
  BY <1>1, <1>2, <1>3, <1>5
<1>7. SubSeq(Up!Bytes(u), 1, m) \o SubSeq(Up!Bytes(u), m + 1, e) = SubSeq(Up!Bytes(u), 1, e)
  BY <1>1, <1>6, ConcatAdjacentSubSeq
<1>8. Len(SubSeq(Up!Bytes(u), 1, e)) = e
  BY <1>1, <1>5
<1> QED  BY <1>2, <1>4, <1>5, <1>7, <1>8 DEF Gathered, e, m, k

-----------------------------------------------------------------------------
(***************************************************************************)
(* Sessions: as long as nothing went wrong, the runner has collected what  *)
(* the page had sent, so the next chunk is the one it expects.             *)
(***************************************************************************)
Session(u, n) ==
  [scope |-> upload[u].scope, total |-> Parts(u), size |-> Size(u), sum |-> Up!Bytes(u),
   next |-> n, bytes |-> Gathered(u, n * ChunkSize)]
HasCollected(u, n) ==
  IF n = 0 THEN u \notin DOMAIN sessions
  ELSE u \in DOMAIN sessions /\ sessions[u] = Session(u, n)

Excused(u) == upload[u].file.kind = "broken" \/ u \in crossed
SendingOK(u) ==
  LET n == upload[u].sent IN
  /\ n < Parts(u)
  /\ call[u].leg # Up!None => Size(u) <= MaxBytes
  /\ call[u].leg \in {Up!None, "out", "sent"} => HasCollected(u, n)
  /\ call[u].leg = "back" => call[u].answer # Up!None
  /\ Told(u, "accepted") => n + 1 < Parts(u) /\ HasCollected(u, n + 1)
  /\ Told(u, "error") => Excused(u)
SessionOK(u) == fault[u] = Up!None =>
  /\ upload[u].verdict \in {Up!None, "waiting"} => upload[u].sent = 0 /\ u \notin DOMAIN sessions
  /\ Up!Sending(u) => SendingOK(u)
  /\ upload[u].verdict = "failed" => Size(u) > MaxBytes \/ Excused(u)
SessionInv == \A u \in Ids : SessionOK(u)

Aside(u) ==
  /\ SameUpload(u) \/ Waited(u)
  /\ call'[u] = call[u] /\ fault'[u] = fault[u]
  /\ u \in DOMAIN sessions' <=> u \in DOMAIN sessions
  /\ u \in DOMAIN sessions => sessions'[u] = sessions[u]
  /\ u \in crossed => u \in crossed'

LEMMA SameFile ==
  ASSUME NEW u \in Ids, upload'[u].file = upload[u].file, upload'[u].scope = upload[u].scope
  PROVE  /\ Size(u)' = Size(u) /\ Parts(u)' = Parts(u) /\ Up!Bytes(u)' = Up!Bytes(u)
         /\ \A n \in Nat : Session(u, n)' = Session(u, n)
BY DEF Size, Parts, Up!Bytes, Session, Gathered, Up!TotalChunks

LEMMA AsideIsOK ==
  ASSUME UploadInv, NEW u \in Ids, SessionOK(u), Aside(u)
  PROVE  SessionOK(u)'
<1> USE DEF UploadInv
<1>1. upload'[u].file = upload[u].file /\ upload'[u].scope = upload[u].scope
      /\ upload'[u].sent = upload[u].sent /\ upload[u].sent \in Nat
  BY DEF Aside, SameUpload, Waited, UploadTypes, UploadType
<1>2. /\ Size(u)' = Size(u) /\ Parts(u)' = Parts(u)
      /\ \A n \in Nat : Session(u, n)' = Session(u, n)
  BY <1>1, SameFile
<1>3. \A n \in {upload[u].sent, upload[u].sent + 1} : HasCollected(u, n) => HasCollected(u, n)'
  <2>1. \A n \in {upload[u].sent, upload[u].sent + 1} : n \in Nat
    BY <1>1
  <2> QED  BY <1>2, <2>1 DEF HasCollected, Aside
<1>4. Excused(u) => Excused(u)'
  BY <1>1 DEF Excused, Aside
<1>5. CASE SameUpload(u)
  BY <1>1, <1>2, <1>3, <1>4, <1>5 DEF Aside, SameUpload, SessionOK, SendingOK, Told, Leg,
     Up!Sending
<1>6. CASE Waited(u)
  <2>1. upload[u].verdict = "waiting" /\ upload'[u].verdict \in {"sending", "skipped"}
    BY <1>6 DEF Waited, UploadTypes, UploadType
  <2>2. call'[u].leg = Up!None
    BY <2>1, BeforeStoring DEF Up!Sending, Aside
  <2>3. Parts(u) \in Nat \ {0}
    BY BytesOf, Chunks DEF Parts
  <2> QED
    BY <1>1, <1>2, <2>1, <2>2, <2>3 DEF Aside, SessionOK, SendingOK, HasCollected, Told, Leg,
       Up!Sending,
       Up!None
<1> QED  BY <1>5, <1>6 DEF Aside

\* What of an upload a fault excuses.
LEMMA FaultExcuses == ASSUME NEW u \in Ids, fault'[u] # Up!None PROVE SessionOK(u)'
BY DEF SessionOK

LEMMA DropSession ==
  ASSUME UploadInv, SessionInv, NEW u \in Ids, NEW file \in Files, Up!Drop(u, file)
  PROVE  SessionInv'
<1> USE DEF UploadInv, SessionInv
<1> DEFINE r == Up!Fresh("project", file, "sending")
<1>1. Up!Free(u) /\ upload' = [upload EXCEPT ![u] = r]
      /\ UNCHANGED <<call, fault, sessions, crossed>>
  BY DEF Up!Drop, Up!store
<1>2. upload'[u] = r /\ r.sent = 0 /\ r.verdict = "sending" /\ r.file = file /\ Size(u)' \in Nat
  BY <1>1, UploadsAssumption DEF UploadTypes, Up!Fresh, Size
<1> HIDE DEF r
<1>3. call[u].leg = Up!None
  BY <1>1, BeforeStoring DEF Up!Free, Up!Sending, Up!None
<1>4. Parts(u)' \in Nat \ {0}
  BY <1>2, Chunks DEF Parts, Up!TotalChunks
<1>5. SessionOK(u)'
  BY <1>1, <1>2, <1>3, <1>4 DEF SessionOK, SendingOK, HasCollected, Told, Leg, Up!Sending,
     Up!Free, Up!None
<1>6. \A v \in Ids \ {u} : Aside(v)
  BY <1>1 DEF Aside, SameUpload
<1> QED  BY <1>5, <1>6, AsideIsOK

LEMMA ChooseSession ==
  ASSUME UploadInv, SessionInv, NEW u \in Ids, NEW file \in Files,
         NEW rest \in Seq(Ids), NEW chosen, Up!Choose(u, file, rest, chosen), UploadInv'
  PROVE  SessionInv'
<1> USE DEF UploadInv, SessionInv
<1> DEFINE r == Up!Fresh("profile", file, "sending")
           other(v) == Up!Fresh("profile", chosen[CHOOSE i \in DOMAIN rest : rest[i] = v],
                                "waiting")
<1>1. /\ upload' = [v \in Ids |-> IF v = u THEN r ELSE IF v \in Up!Range(rest) THEN other(v)
                                   ELSE upload[v]]
      /\ UNCHANGED <<call, fault, sessions, crossed>> /\ Up!Free(u)
      /\ \A i \in DOMAIN rest : Up!Free(rest[i])
  BY DEF Up!Choose, Up!store
<1>2. r.sent = 0 /\ r.verdict = "sending"
      /\ \A v : other(v).sent = 0 /\ other(v).verdict = "waiting"
  BY DEF Up!Fresh
<1> HIDE DEF r, other
<1>3. ASSUME NEW v \in Ids PROVE SessionOK(v)'
  <2>1. CASE v = u \/ v \in Up!Range(rest)
    <3>1. Up!Free(v) /\ upload'[v].verdict \in {"sending", "waiting"} /\ upload'[v].sent = 0
      BY <1>1, <1>2, <2>1 DEF Up!Range
    <3>2. call[v].leg = Up!None
      BY <3>1, BeforeStoring DEF Up!Free, Up!Sending, Up!None
    <3>3. Parts(v)' \in Nat \ {0}
      <4>1. Size(v)' \in Nat
        BY DEF Size, UploadTypes, UploadType, FileType
      <4> QED  BY <4>1, Chunks DEF Parts, Up!TotalChunks
    <3> QED
      BY <1>1, <3>1, <3>2, <3>3 DEF SessionOK, SendingOK, HasCollected, Told, Leg, Up!Sending,
         Up!Free, Up!None
  <2>2. CASE ~(v = u \/ v \in Up!Range(rest))
    <3>1. Aside(v)
      BY <1>1, <2>2 DEF Aside, SameUpload
    <3> QED  BY <3>1, AsideIsOK
  <2> QED  BY <2>1, <2>2
<1> QED  BY <1>3

LEMMA SettledSession ==
  ASSUME UploadInv, SessionInv, NEW u \in Ids, Up!Sending(u),
         NEW verdict \in {"done", "failed", "aborted"}, Up!Settled(u, verdict),
         UNCHANGED <<sessions, crossed>>,
         \A v \in Ids \ {u} : call'[v] = call[v] /\ fault'[v] = fault[v],
         fault'[u] = fault[u] \/ fault'[u] # Up!None,
         verdict = "failed" /\ fault'[u] = Up!None => Size(u) > MaxBytes \/ Excused(u)
  PROVE  SessionInv'
<1> USE DEF UploadInv, SessionInv
<1>1. /\ upload'[u] = [upload[u] EXCEPT !.verdict = verdict]
      /\ \A v \in Ids \ {u} : SameUpload(v) \/ Waited(v)
  BY PageSettles
<1>2. upload'[u].verdict = verdict /\ upload'[u].file = upload[u].file
  BY <1>1 DEF UploadTypes, UploadType
<1>3. SessionOK(u)'
  BY <1>2 DEF SessionOK, Up!Sending, Size, Excused, Up!None
<1>4. \A v \in Ids \ {u} : Aside(v)
  BY <1>1 DEF Aside
<1> QED  BY <1>3, <1>4, AsideIsOK

LEMMA StopSession ==
  ASSUME UploadInv, SessionInv, NEW u \in Ids, Up!TooLarge(u) \/ Up!StopsHere(u)
  PROVE  SessionInv'
<1>1. CASE Up!TooLarge(u)
  <2>1. Size(u) > MaxBytes
    BY <1>1, BytesOf, UploadsAssumption DEF Up!TooLarge, Size
  <2> QED  BY <1>1, <2>1, SettledSession DEF Up!TooLarge, Up!store
<1>2. CASE Up!StopsHere(u)
  BY <1>2, SettledSession DEF Up!StopsHere, Up!store
<1> QED  BY <1>1, <1>2

LEMMA OutSession ==
  ASSUME UploadInv, SessionInv, NEW u \in Ids, Up!SendChunk(u) \/ Up!Forward(u)
  PROVE  SessionInv'
<1> USE DEF UploadInv, SessionInv
<1>1. PICK leg \in {"out", "sent"} : call' = [call EXCEPT ![u].leg = leg]
  BY DEF Up!SendChunk, Up!Forward
<1>2. UNCHANGED <<upload, fault, sessions, crossed>>
  BY DEF Up!SendChunk, Up!Forward, Up!page, Up!store
<1>3. call'[u].leg = leg /\ \A v \in Ids \ {u} : call'[v] = call[v]
  BY <1>1 DEF UploadTypes, CallType
<1>4. Up!Sending(u) /\ call[u].leg \in {Up!None, "out"}
      /\ (Size(u) <= MaxBytes \/ call[u].leg = "out")
  BY DEF Up!SendChunk, Up!Forward, Up!NoCall, UploadOK, CallOK, Size
<1>5. SessionOK(u)'
  <2>1. /\ Size(u)' = Size(u) /\ Parts(u)' = Parts(u)
        /\ \A n \in Nat : Session(u, n)' = Session(u, n)
    BY <1>2, SameFile
  <2>2. upload[u].sent \in Nat
    BY DEF UploadTypes, UploadType
  <2>3. HasCollected(u, upload[u].sent) => HasCollected(u, upload[u].sent)'
    BY <1>2, <2>1, <2>2 DEF HasCollected
  <2> QED
    BY <1>2, <1>3, <1>4, <2>1, <2>3 DEF SessionOK, SendingOK, Told, Leg, Up!Sending, Up!None
<1>6. \A v \in Ids \ {u} : Aside(v)
  BY <1>2, <1>3 DEF Aside, SameUpload
<1> QED  BY <1>5, <1>6, AsideIsOK

LEMMA ReturnSession ==
  ASSUME UploadInv, SessionInv, NEW u \in Ids, Up!Return(u)
  PROVE  SessionInv'
<1> USE DEF UploadInv, SessionInv
<1>1. /\ call[u].leg = "back" /\ call' = [call EXCEPT ![u] = Up!NoCall] /\ Up!Returned(u)
      /\ UNCHANGED <<fault, sessions, crossed>>
  BY DEF Up!Return, Up!store
<1>2. Up!Sending(u)
  BY <1>1 DEF UploadOK, CallOK
<1>3. /\ call'[u].leg = Up!None
      /\ \A v \in Ids \ {u} : call'[v] = call[v] /\ fault'[v] = fault[v]
  BY <1>1 DEF UploadTypes, Up!NoCall
<1>4. fault[u] = Up!None =>
        SendingOK(u) /\ call[u].answer \in {"accepted", "complete", "error"} /\ Size(u) <= MaxBytes
  BY <1>1, <1>2 DEF SessionOK, SendingOK, UploadTypes, CallType, Up!None
<1>5. CASE call[u].answer = "accepted" /\ upload[u].sent + 1 < Parts(u)
  <2> DEFINE r == [upload[u] EXCEPT !.sent = @ + 1]
  <2>1. upload' = [upload EXCEPT ![u] = r]
    BY <1>1, <1>5 DEF Up!Returned, Up!Advance, Parts, Size
  <2>2. r \in UploadType /\ r.verdict = upload[u].verdict /\ r.scope = upload[u].scope
        /\ r.file = upload[u].file /\ r.sent = upload[u].sent + 1 /\ r.sent \in Nat
    <3>1. upload[u] \in UploadType
      BY DEF UploadTypes
    <3> QED  BY <3>1 DEF UploadType
  <2> HIDE DEF r
  <2>3. upload'[u] = r /\ \A v \in Ids \ {u} : SameUpload(v)
    BY <2>1, <2>2, PageGoesOn
  <2>4. /\ Size(u)' = Size(u) /\ Parts(u)' = Parts(u)
        /\ \A n \in Nat : Session(u, n)' = Session(u, n)
    BY <2>2, <2>3, SameFile
  <2>5. SessionOK(u)'
    <3> SUFFICES ASSUME fault'[u] = Up!None PROVE SessionOK(u)'
      BY DEF SessionOK
    <3>1. SendingOK(u)
      BY <1>1, <1>4
    <3>2. PICK n \in Nat : n = upload[u].sent + 1
      BY <2>2
    <3>3. upload'[u].sent = n /\ n # 0 /\ n < Parts(u) /\ HasCollected(u, n)
      BY <1>1, <1>2, <1>5, <2>2, <2>3, <3>1, <3>2 DEF SendingOK, Told, Leg, UploadTypes,
         UploadType
    <3>4. HasCollected(u, n)'
      BY <1>1, <2>4, <3>3 DEF HasCollected
    <3>5. upload'[u].verdict = "sending" /\ Size(u)' <= MaxBytes /\ n < Parts(u)'
      BY <1>2, <1>4, <2>2, <2>3, <2>4, <3>1, <3>3, <1>1 DEF Up!Sending
    <3> QED
      BY <1>3, <3>3, <3>4, <3>5 DEF SessionOK, SendingOK, Told, Leg, Up!Sending, Up!None
  <2>6. \A v \in Ids \ {u} : Aside(v)
    BY <1>1, <1>3, <2>3 DEF Aside
  <2> QED  BY <2>5, <2>6, AsideIsOK
<1>6. CASE ~(call[u].answer = "accepted" /\ upload[u].sent + 1 < Parts(u))
  <2>1. PICK verdict \in {"done", "failed"} :
          Up!Settled(u, verdict) /\ (verdict = "failed" => call[u].answer # "complete")
    BY <1>1, <1>6 DEF Up!Returned, Up!Advance, Parts, Size
  <2>2. verdict = "failed" /\ fault'[u] = Up!None => Excused(u)
    BY <1>1, <1>2, <1>4, <1>6, <2>1 DEF SendingOK, Told, Leg
  <2> QED  BY <1>1, <1>2, <1>3, <2>1, <2>2, SettledSession
<1> QED  BY <1>5, <1>6

LEMMA GiveUpSession ==
  ASSUME UploadInv, SessionInv, NEW u \in Ids, Up!Offline(u) \/ Up!Timeout(u)
  PROVE  SessionInv'
<1> USE DEF UploadInv, SessionInv
<1>1. PICK why \in {"offline", "cut"}, leg \in {Up!None, "late"} :
        /\ call' = [call EXCEPT ![u].leg = leg] /\ fault' = [fault EXCEPT ![u] = why]
  BY DEF Up!Offline, Up!Timeout, Up!Fail
<1>2. Up!Settled(u, "failed") /\ UNCHANGED <<sessions, crossed>>
  BY DEF Up!Offline, Up!Timeout, Up!Fail, Up!store
<1>3. Up!Sending(u)
  BY DEF Up!Offline, Up!Timeout, Up!Waits, UploadOK, CallOK
<1>4. /\ \A v \in Ids \ {u} : call'[v] = call[v] /\ fault'[v] = fault[v]
      /\ fault'[u] # Up!None
  BY <1>1 DEF UploadTypes, Up!None
<1> QED  BY <1>2, <1>3, <1>4, SettledSession

LEMMA LinkLostSession ==
  ASSUME UploadInv, SessionInv, Up!LinkLost
  PROVE  SessionInv'
<1> USE DEF UploadInv, SessionInv
<1>1. Up!Rejected /\ fault' = [u \in Ids |-> IF Up!Waits(u) THEN "cut" ELSE fault[u]]
      /\ UNCHANGED <<sessions, crossed>>
  BY DEF Up!LinkLost, Up!store
<1>2. ASSUME NEW u \in Ids, Up!Waits(u) \/ call[u].leg = "late" PROVE SessionOK(u)'
  <2>1. fault'[u] = "cut"
    BY <1>1, <1>2 DEF UploadOK, CallOK, CutOff
  <2> QED  BY <2>1 DEF SessionOK, Up!None
<1>3. ASSUME NEW u \in Ids, ~Up!Waits(u), call[u].leg # "late" PROVE SessionOK(u)'
  <2>1. Aside(u)
    BY <1>1, <1>3, Rejects DEF Aside
  <2> QED  BY <2>1, AsideIsOK
<1> QED  BY <1>2, <1>3

LEMMA RestartSession ==
  ASSUME UploadInv, SessionInv, Up!Restart
  PROVE  SessionInv'
<1> USE DEF UploadInv, SessionInv
<1>1. /\ Up!Rejected /\ sessions' = <<>> /\ crossed' = crossed
      /\ fault' = [u \in Ids |-> IF Up!Waits(u) THEN "cut"
                                 ELSE IF Up!Sending(u) THEN "restarted" ELSE fault[u]]
  BY DEF Up!Restart
<1>2. ASSUME NEW u \in Ids, fault'[u] = Up!None PROVE SessionOK(u)'
  <2>1. ~Up!Waits(u) /\ ~Up!Sending(u) /\ fault[u] = Up!None /\ (SameUpload(u) \/ Waited(u))
    BY <1>1, <1>2, Rejects DEF Up!None
  <2>2. u \notin DOMAIN sessions'
    BY <1>1
  <2>3. upload'[u].file = upload[u].file /\ upload'[u].scope = upload[u].scope
        /\ upload'[u].sent = upload[u].sent
    BY <2>1 DEF SameUpload, Waited, UploadTypes, UploadType
  <2>4. Size(u)' = Size(u) /\ Parts(u)' = Parts(u)
    BY <2>3, SameFile
  <2>5. CASE SameUpload(u)
    BY <1>1, <2>1, <2>2, <2>3, <2>4, <2>5 DEF SameUpload, SessionOK, Up!Sending, Excused
  <2>6. CASE Waited(u)
    <3>1. upload[u].verdict = "waiting" /\ upload'[u].verdict \in {"sending", "skipped"}
      BY <2>6 DEF Waited, UploadTypes, UploadType
    <3>2. call[u].leg = Up!None
      BY <3>1, BeforeStoring DEF Up!Sending
    <3>3. call'[u].leg = Up!None
      BY <1>1, <2>1, <3>2, Rejects DEF Up!None
    <3>4. Parts(u) \in Nat \ {0}
      BY BytesOf, Chunks DEF Parts
    <3> QED
      BY <2>1, <2>2, <2>3, <2>4, <3>1, <3>3, <3>4 DEF SessionOK, SendingOK, HasCollected,
         Told, Leg,
         Up!Sending, Up!None
  <2> QED  BY <2>1, <2>5, <2>6
<1> QED  BY <1>2, FaultExcuses

\* The chunk that comes is the one the runner waits for.
LEMMA ReceiveSession ==
  ASSUME UploadInv, SessionInv, NEW u \in Ids, Up!ReceiveChunk(u)
  PROVE  SessionInv'
<1> USE DEF UploadInv, SessionInv
<1> DEFINE p == Up!Payload(u)
           s == Up!Grown(Up!SessionFor(u, p), p)
           n == upload[u].sent
           b == Gathered(u, n * ChunkSize) \o Up!Chunk(u, n)
           e == Up!Smaller((n + 1) * ChunkSize, Size(u))
<1>1. /\ call[u].leg \in {"sent", "late"} /\ UNCHANGED <<upload, fault, crossed>>
      /\ sessions' = CASE Up!Refused(u, p) -> sessions
                       [] Up!Overfull(s) \/ Up!Complete(s) -> Up!Without(sessions, u)
                       [] OTHER -> Up!With(sessions, u, s)
      /\ IF ~Up!Refused(u, p) /\ ~Up!Overfull(s) /\ Up!Complete(s) /\ Up!Whole(s)
         THEN call' = [call EXCEPT ![u].leg = IF Up!Waits(u) THEN "held" ELSE Up!None]
         ELSE Up!Answered(u, IF ~Up!Refused(u, p) /\ ~Up!Overfull(s) /\ ~Up!Complete(s)
                          THEN "accepted" ELSE "error")
  BY DEF Up!ReceiveChunk, Up!page
<1>2. \A v \in Ids \ {u} : Aside(v)
  <2>1. \A v \in Ids \ {u} : call'[v] = call[v]
    <3>1. \/ call' = [call EXCEPT ![u].leg = IF Up!Waits(u) THEN "held" ELSE Up!None]
          \/ \E answer \in {"accepted", "error"} : Up!Answered(u, answer)
      <4> HIDE DEF s, p
      <4> QED  BY <1>1
    <3> QED  BY <3>1, AnsweredType DEF UploadTypes, CallType
  <2>2. \A v \in Ids \ {u} : /\ v \in DOMAIN sessions' <=> v \in DOMAIN sessions
                             /\ v \in DOMAIN sessions => sessions'[v] = sessions[v]
    <3> HIDE DEF s, p
    <3> QED  BY <1>1 DEF Up!With, Up!Without
  <2> QED  BY <1>1, <2>1, <2>2 DEF Aside, SameUpload
<1>3. ASSUME fault[u] = Up!None, call[u].leg = "sent" PROVE SessionOK(u)'
  <2>1. Up!Sending(u) /\ Up!Waits(u) /\ SendingOK(u) /\ n \in Nat
    BY <1>3 DEF UploadOK, CallOK, Up!Waits, SessionOK, UploadTypes, UploadType
  <2>2. n < Parts(u) /\ Size(u) <= MaxBytes /\ HasCollected(u, n)
    BY <1>3, <2>1 DEF SendingOK, Up!None
  <2>3. Size(u) \in Nat /\ Parts(u) \in Nat /\ Len(Up!Bytes(u)) = Size(u)
        /\ Up!Bytes(u) \in Seq({u} \X Nat)
    BY BytesOf, Chunks DEF Parts
  <2>4. /\ p.scope = upload[u].scope /\ p.index = n /\ p.total = Parts(u) /\ p.size = Size(u)
        /\ p.sum = Up!Bytes(u) /\ p.bytes = Up!Chunk(u, n)
    BY DEF Up!Payload, Parts, Size
  <2> HIDE DEF p
  <2>5. Up!SessionFor(u, p) = Session(u, n)
    <3>1. CASE n = 0
      <4>1. n * ChunkSize = 0
        BY <3>1, UploadsAssumption
      <4>2. Gathered(u, n * ChunkSize) = <<>>
        BY <2>3, <4>1, SubSeqEmpty DEF Gathered
      <4> QED  BY <2>2, <2>4, <3>1, <4>2 DEF Up!SessionFor, HasCollected, Up!NewSession, Session
    <3>2. CASE n # 0
      BY <2>2, <2>4, <3>2 DEF Up!SessionFor, HasCollected
    <3> QED  BY <3>1, <3>2
  <2>6. ~Up!Refused(u, p)
    <3>1. ~Up!Oversized(p)
      BY <2>2, <2>3, <2>4, UploadsAssumption DEF Up!Oversized
    <3>2. ~Up!Unknown(u, p)
      BY <2>2, <2>4 DEF Up!Unknown, HasCollected
    <3>3. ~Up!Mismatch(Session(u, n), p) /\ p.index = Session(u, n).next
      BY <2>4 DEF Up!Mismatch, Session
    <3> QED  BY <2>5, <3>1, <3>2, <3>3 DEF Up!Refused
  <2>7. /\ n * ChunkSize \in Nat /\ e \in Nat /\ b = Gathered(u, e) /\ Len(b) = e
        /\ n + 1 < Parts(u) => e = (n + 1) * ChunkSize
        /\ n + 1 = Parts(u) => e = Size(u)
    BY <2>1, <2>2, NextChunk
  <2>8. s = [scope |-> upload[u].scope, total |-> Parts(u), size |-> Size(u), sum |-> Up!Bytes(u),
             next |-> n + 1, bytes |-> b]
    <3>1. Gathered(u, n * ChunkSize) \o p.bytes = b
      BY <2>4
    <3>2. s = Up!Grown(Session(u, n), p)
      BY <2>5
    <3> HIDE DEF s, b, n
    <3> QED  BY <3>1, <3>2 DEF Up!Grown, Session
  <2>9. /\ s.size = Size(u) /\ s.sum = Up!Bytes(u) /\ s.next = n + 1 /\ s.total = Parts(u)
        /\ s.bytes = b
    BY <2>8
  <2> HIDE DEF s, b, e
  <2>10. ~Up!Overfull(s)
    <3>1. e <= Size(u)
      BY <2>1, <2>3, UploadsAssumption DEF e, Up!Smaller
    <3> QED  BY <2>3, <2>7, <2>9, <3>1 DEF Up!Overfull
  <2>11. Size(u)' = Size(u) /\ Parts(u)' = Parts(u)
         /\ \A i \in Nat : Session(u, i)' = Session(u, i)
    BY <1>1, SameFile
  <2>12. CASE n + 1 < Parts(u)
    <3>1. ~Up!Complete(s)
      BY <2>1, <2>3, <2>9, <2>12 DEF Up!Complete
    <3>2. s = Session(u, n + 1)
      BY <2>7, <2>8, <2>12 DEF Session
    <3>3. sessions' = Up!With(sessions, u, s) /\ Up!Answered(u, "accepted")
      BY <1>1, <2>6, <2>10, <3>1
    <3>4. u \in DOMAIN sessions' /\ sessions'[u] = s
      BY <3>3 DEF Up!With
    <3>5. call'[u].leg = "back" /\ call'[u].answer = "accepted"
      BY <2>1, <3>3 DEF Up!Answered, UploadTypes
    <3>6. PICK k \in Nat : k = n + 1 /\ k # 0
      BY <2>1
    <3>7. HasCollected(u, k)'
      BY <2>11, <3>2, <3>4, <3>6 DEF HasCollected
    <3>8. Up!Sending(u)' /\ upload'[u].sent = n
      BY <1>1, <2>1 DEF Up!Sending
    <3>9. HasCollected(u, upload[u].sent + 1)'
      BY <3>6, <3>7, <3>8
    <3> QED
      BY <2>2, <2>11, <2>12, <3>5, <3>8, <3>9 DEF SessionOK, SendingOK, Told, Leg, Up!Sending,
         Up!None
  <2>13. CASE n + 1 = Parts(u)
    <3>1. Up!Complete(s)
      BY <2>1, <2>3, <2>9, <2>13 DEF Up!Complete
    <3>2. b = Up!Bytes(u) /\ Len(b) = Size(u)
      <4>1. b = SubSeq(Up!Bytes(u), 1, Len(Up!Bytes(u))) /\ Len(b) = Size(u)
        BY <2>3, <2>7, <2>13 DEF Gathered
      <4> QED  BY <2>3, <4>1, SubSeqFull
    <3>3. Up!Whole(s)
      BY <2>9, <3>2 DEF Up!Whole
    <3>4. call' = [call EXCEPT ![u].leg = IF Up!Waits(u) THEN "held" ELSE Up!None]
      BY <1>1, <2>6, <2>10, <3>1, <3>3
    <3>5. call'[u].leg = "held"
      BY <2>1, <3>4 DEF UploadTypes, CallType
    <3> QED
      BY <1>1, <2>1, <2>2, <2>11, <3>5 DEF SessionOK, SendingOK, Told, Leg, Up!Sending, Up!None
  <2> QED  BY <2>1, <2>2, <2>3, <2>12, <2>13
<1>4. ASSUME fault[u] = Up!None PROVE call[u].leg = "sent"
  BY <1>1, <1>4 DEF UploadOK, CallOK, CutOff, Up!None
<1>5. SessionOK(u)'
  BY <1>1, <1>3, <1>4, FaultExcuses
<1> QED  BY <1>2, <1>5, AsideIsOK

\* A step of a handler that answers nothing.
LEMMA SilentSession ==
  ASSUME UploadInv, SessionInv, UNCHANGED <<upload, call, fault, sessions>>,
         crossed \subseteq crossed'
  PROVE  SessionInv'
<1>1. \A v \in Ids : Aside(v)
  BY DEF Aside, SameUpload
<1> QED  BY <1>1, AsideIsOK DEF SessionInv

\* The last step of a handler: it fails for a reason.
LEMMA EndedSession ==
  ASSUME UploadInv, SessionInv, NEW u \in Ids, Busy(u),
         NEW answer \in {"complete", "error"}, Up!Answered(u, answer),
         UNCHANGED <<upload, fault, sessions>>, crossed \subseteq crossed',
         answer = "error" => Excused(u)' \/ fault[u] # Up!None
  PROVE  SessionInv'
<1> USE DEF UploadInv, SessionInv
<1>1. ASSUME fault[u] = Up!None PROVE SessionOK(u)'
  <2>1. Up!Sending(u) /\ call[u].leg = "held" /\ Up!Waits(u)
    BY <1>1, HandlerOf DEF CutOff, Up!None
  <2>2. call'[u].leg = "back" /\ call'[u].answer = answer
    BY <2>1, AnsweredType
  <2>3. Size(u)' = Size(u) /\ Parts(u)' = Parts(u)
    BY SameFile
  <2>4. SendingOK(u)
    BY <1>1, <2>1 DEF SessionOK
  <2> QED
    BY <1>1, <2>1, <2>2, <2>3, <2>4 DEF SessionOK, SendingOK, Told, Leg, Up!Sending, Up!None
<1>2. \A v \in Ids \ {u} : Aside(v)
  <2>1. \A v \in Ids \ {u} : call'[v] = call[v]
    BY AnsweredType
  <2> QED  BY <2>1 DEF Aside, SameUpload
<1>3. SessionOK(u)'
  BY <1>1, FaultExcuses
<1> QED  BY <1>2, <1>3, AsideIsOK

LEMMA UnreadableSession ==
  ASSUME UploadInv, SessionInv, NEW u \in Ids, Up!Unreadable(u)
  PROVE  SessionInv'
<1>1. /\ Busy(u) /\ Up!Answered(u, "error") /\ UNCHANGED <<upload, fault, sessions, crossed>>
      /\ upload[u].file.kind = "broken"
  BY DEF Up!Unreadable, Up!At, Busy, Up!page, Up!Ends
<1>2. Excused(u)'
  BY <1>1 DEF Excused
<1> QED  BY <1>1, <1>2, EndedSession

LEMMA SaveSession ==
  ASSUME UploadInv, SessionInv, NEW w \in Worker, Up!SaveManifest(w)
  PROVE  SessionInv'
<1>1. /\ Busy(w) /\ UNCHANGED <<upload, fault, sessions>> /\ crossed \subseteq crossed'
      /\ \/ call' = call
         \/ w \in Ids /\ Up!Answered(w, "complete")
  BY DEF Up!SaveManifest, Up!At, Busy, Up!page, Up!Ends
<1> QED  BY <1>1, SilentSession, EndedSession

LEMMA FindSession ==
  ASSUME UploadInv, SessionInv, NEW w \in Worker, Up!FindSaved(w)
  PROVE  SessionInv'
<1> DEFINE answer == IF w \in listed["profile"] THEN "complete" ELSE "error"
<1>1. /\ Busy(w) /\ work[w].step = "check" /\ UNCHANGED <<upload, fault, sessions, crossed>>
      /\ IF w \in Ids THEN Up!Answered(w, answer) ELSE call' = call
  BY DEF Up!FindSaved, Up!At, Busy, Up!page, Up!Ends
<1>2. CASE w \in Ids
  <2>1. Up!Scope(w) = "profile" /\ StillListed(w)
    BY <1>1, <1>2 DEF UploadInv, UploadOK, WorkOK
  <2>2. answer = "error" => Excused(w)'
    BY <1>1, <2>1 DEF StillListed, Up!Listed, Excused
  <2> QED  BY <1>1, <1>2, <2>2, EndedSession
<1>3. CASE w \notin Ids
  BY <1>1, <1>3, SilentSession
<1> QED  BY <1>2, <1>3

LEMMA SessionSteps ==
  ASSUME UploadInv, SessionInv, [Up!Next]_Up!vars
  PROVE  SessionInv'
<1>0. UploadInv'
  BY UploadSteps
<1>1. CASE Up!UserActs
  <2>1. ASSUME NEW u \in Ids, NEW file \in Files, Up!Drop(u, file) PROVE SessionInv'
    BY <2>1, DropSession
  <2>2. ASSUME NEW u \in Ids, NEW file \in Files, Up!Choose(u, file, <<>>, <<>>) PROVE SessionInv'
    <3>1. <<>> \in Seq(Ids)
      OBVIOUS
    <3> QED  BY <1>0, <2>2, <3>1, ChooseSession
  <2>3. ASSUME NEW u \in Ids, NEW v \in Ids, NEW file \in Files, NEW other \in Files,
               Up!Choose(u, file, <<v>>, <<other>>)
        PROVE  SessionInv'
    <3>1. <<v>> \in Seq(Ids)
      OBVIOUS
    <3> QED  BY <1>0, <2>3, <3>1, ChooseSession
  <2>4. ASSUME NEW u \in Ids, Up!Abort(u) PROVE SessionInv'
    <3>1. \A v \in Ids : Aside(v)
      <4>1. SameUpload(u)
        <5>1. upload[u] \in UploadType /\ upload'[u] = [upload[u] EXCEPT !.abort = TRUE]
          BY <2>4 DEF Up!Abort, UploadInv, UploadTypes
        <5> QED  BY <5>1 DEF SameUpload, UploadType
      <4>2. \A v \in Ids \ {u} : SameUpload(v)
        BY <2>4 DEF Up!Abort, SameUpload
      <4> QED  BY <2>4, <4>1, <4>2 DEF Up!Abort, Aside, Up!store
    <3> QED  BY <3>1, AsideIsOK DEF SessionInv
  <2>5. CASE Up!SaveText \/ Up!TogglePinned
    BY <2>5, SilentSession DEF Up!SaveText, Up!TogglePinned, Up!page
  <2> QED  BY <1>1, <2>1, <2>2, <2>3, <2>4, <2>5 DEF Up!UserActs
<1>2. CASE Up!PageActs
  BY <1>2, StopSession, OutSession, ReturnSession DEF Up!PageActs
<1>3. CASE Up!LinkActs
  <2>1. CASE Up!LinkBack
    BY <2>1, SilentSession DEF Up!LinkBack, Up!page, Up!store
  <2> QED  BY <1>3, <2>1, LinkLostSession, RestartSession, OutSession,
     GiveUpSession DEF Up!LinkActs
<1>4. CASE Up!RunnerActs
  <2>1. ASSUME NEW w \in Worker, Up!WriteRaw(w) \/ Up!LoadManifest(w) PROVE SessionInv'
    BY <2>1, SilentSession DEF Up!WriteRaw, Up!LoadManifest, Up!page
  <2>2. ASSUME NEW u \in Ids, Up!Extract(u) PROVE SessionInv'
    BY <2>2, SilentSession DEF Up!Extract, Up!page
  <2> QED
    BY <1>4, <2>1, <2>2, ReceiveSession, UnreadableSession, SaveSession, FindSession
       DEF Up!RunnerActs, Worker
<1>5. CASE UNCHANGED Up!vars
  BY <1>5, SilentSession DEF Up!vars
<1> QED  BY <1>1, <1>2, <1>3, <1>4, <1>5 DEF Up!Next

LEMMA SessionInit == Up!Init => SessionInv
<1> SUFFICES ASSUME Up!Init, NEW u \in Ids PROVE SessionOK(u)
  BY DEF SessionInv
<1> QED  BY DEF Up!Init, SessionOK, Up!Sending, Up!Fresh, Up!None

LEMMA UploadReason == ASSUME UploadInv, SessionInv PROVE FailureHasReason
<1> SUFFICES ASSUME NEW u \in Ids, upload[u].verdict = "failed"
             PROVE  \/ fault[u] # Up!None
                    \/ upload[u].file.size > MaxBytes \/ upload[u].file.kind = "broken"
                    \/ u \in crossed
  BY DEF FailureHasReason, Up!FailureHasReason
<1> QED  BY DEF SessionInv, SessionOK, Excused, Size

\* An upload that met no fault fails for its file or for a handler that overlapped:
\* its chunks, whatever their number and size, are those the runner waits for and
\* make up the file (uploadFileInChunks, uploadDocumentChunk).
THEOREM UploadFailures == Up!Spec => []FailureHasReason
<1>1. Up!Spec => []UploadInv
  BY UploadInit, UploadSteps, PTL DEF Up!Spec
<1>2. Up!Spec => [](UploadInv /\ SessionInv)
  BY <1>1, SessionInit, SessionSteps, PTL DEF Up!Spec
<1> QED  BY <1>2, UploadReason, PTL
=============================================================================
