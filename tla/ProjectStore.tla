---------------------------- MODULE ProjectStore ----------------------------
(***************************************************************************)
(* The documents of one project and its record on the runner's disk: the   *)
(* handlers of projects, profile and insights over ForJobStorage.          *)
(*                                                                         *)
(* An operation is a plan: the steps it has still to take, each of them    *)
(* the code between two awaits on the file system.  It carries the copies  *)
(* it has read (manifest, record), which it writes back as a whole.  A     *)
(* request runs to its end; the background jobs (analysis, generation of   *)
(* insights) rest at "await" for the web or a provider, for minutes, with  *)
(* the record they read before.  The runner may end between any two steps. *)
(***************************************************************************)
EXTENDS Naturals, Sequences, FiniteSets

CONSTANTS
  Docs,           \* document ids
  Requests,       \* requests of users that may be under way
  Jobs,           \* background jobs that may be under way
  First,          \* the question list a project is created with
  Lists,          \* the question lists a user may save
  MaxRequests,    \* bound: requests and jobs that are started
  LateRequests,   \* may a request overlap a step of a job?
  Crashes,        \* may the runner end?
  NoFile, NoDoc   \* not on the disk; no document

ASSUME StoreAssumption ==
  /\ MaxRequests \in Nat
  /\ {LateRequests, Crashes} \subseteq BOOLEAN
  /\ NoDoc \notin Docs
  /\ Requests \cap Jobs = {}
  /\ First \in Lists

VARIABLES
  record,     \* project.json, or NoFile
  manifest,   \* per scope: manifest.json, from ids to titles and pins
  files,      \* per scope: documents whose raw file is there
  op,         \* what each request and job has still to do
  edits,      \* how often the sources of the insights were given new values
  made,       \* history: the sources the generated documents come from
  choice,     \* history: what was last acknowledged of a document
  started     \* how many requests and jobs were started

vars == <<record, manifest, files, op, edits, made, choice, started>>
history == <<edits, made, choice, started>>

Actors == Requests \cup Jobs
Scopes == {"project", "profile"}
Generated == {"company", "supporting"}

(***************************************************************************)
(* Pure parts.                                                             *)
(***************************************************************************)
\* What updateProjectInfo keeps of the answers when the questions change: the
\* n-th of several equal questions takes the n-th answer given to that text.
Same(list, i) == {j \in DOMAIN list : list[j] = list[i]}
Rank(i, S) == Cardinality({j \in S : j <= i})
Taken(old, new, answers, n) ==
  {i \in DOMAIN answers \cap DOMAIN old :
     /\ old[i] = new[n]
     /\ Rank(i, Same(old, i) \cap DOMAIN answers) = Rank(n, Same(new, n))}
\* Mutant of Kept: an answer keeps its index.
Kept_ByIndex(old, new, answers) ==
  [n \in DOMAIN new \cap DOMAIN answers |-> answers[n]]
Kept(old, new, answers) ==
  [n \in {m \in DOMAIN new : Taken(old, new, answers, m) # {}} |->
     answers[CHOOSE i \in Taken(old, new, answers, n) : TRUE]]
Removed(old, new, answers) ==
  {answers[i].doc : i \in DOMAIN answers
     \ UNION {Taken(old, new, answers, n) : n \in DOMAIN new}}

\* A document is part of the context of a run (compile).
Included(d) ==
  \E s \in Scopes : /\ d \in DOMAIN manifest[s]
                    /\ \/ manifest[s][d].pin
                       \/ record # NoFile /\ s = "project" /\ d \in record.pinned

\* readDocumentRawContent and the preview find something.
Readable(s, d) == d \in files[s]

\* createProject.
Blank == [questions |-> First, answers |-> << >>, pinned |-> {},
          status |-> "idle", generated |-> FALSE, rev |-> 0,
          posting |-> "url", low |-> FALSE, dart |-> "open"]

Idle == [plan |-> << >>, scope |-> "project", doc |-> NoDoc, pin |-> FALSE,
         title |-> "note", man |-> << >>, rec |-> Blank, own |-> Blank,
         answers |-> << >>,
         index |-> 0, text |-> "", edit |-> "none", list |-> First,
         drop |-> {}, failed |-> << >>]

\* The plans of the storage's operations.
SaveSteps(pin) == <<"writeFiles", "loadManifest", "addDocument">>
                    \o IF pin THEN <<"loadRecord", "markRecord">> ELSE << >>
PinSteps == <<"loadManifest", "markDocument", "loadRecord", "markRecord">>
UpdateSteps == <<"loadExisting", "writeFiles", "markDocument",
                 "loadRecord", "markRecord">>
\* Mutant of DeleteSteps: the files go first.
DeleteSteps_FilesFirst == <<"loadExisting", "removeFiles", "dropDocument",
                            "loadRecord", "markRecord">>
DeleteSteps == <<"loadExisting", "dropDocument", "removeFiles",
                 "loadRecord", "markRecord">>
CreateSteps == <<"makeManifest", "makeRecord">>

(***************************************************************************)
(* Who may take a step.                                                    *)
(***************************************************************************)
Resting(o) == op[o].plan # << >> => Head(op[o].plan) = "await"
At(o, step) == /\ op[o].plan # << >>
               /\ Head(op[o].plan) = step
               /\ LateRequests \/ \A p \in Actors \ {o} : Resting(p)

Put(o, r) == op' = [op EXCEPT ![o] = IF r.plan = << >> THEN Idle ELSE r]
Rest(o) == Tail(op[o].plan)
GoesOn(o) == Put(o, [op[o] EXCEPT !.plan = Rest(o)])
Expands(o, steps) == Put(o, [op[o] EXCEPT !.plan = steps \o Rest(o)])
Throws(o) == Put(o, [op[o] EXCEPT !.plan = op[o].failed, !.failed = << >>])
Ends(o) == Put(o, Idle)

Init ==
  /\ record \in {[Blank EXCEPT !.posting = p] : p \in {"url", "text"}}
  /\ manifest = [s \in Scopes |-> << >>]
  /\ files = [s \in Scopes |-> {}]
  /\ op = [o \in Actors |-> Idle]
  /\ edits = 0
  /\ made = 0
  /\ choice = [d \in Docs |-> "none"]
  /\ started = 0

\* An id that createId has not given yet.
Fresh(d) == /\ \A s \in Scopes : d \notin DOMAIN manifest[s] \cup files[s]
            /\ \A o \in Actors : op[o].doc # d
            /\ record # NoFile =>
                 /\ d \notin record.pinned
                 /\ \A i \in DOMAIN record.answers : record.answers[i].doc # d
            /\ \A o \in Jobs : /\ d \notin op[o].own.pinned
                               /\ \A i \in DOMAIN op[o].own.answers :
                                    op[o].own.answers[i].doc # d

(***************************************************************************)
(* Requests.                                                               *)
(***************************************************************************)
Begins(o, r) ==
  /\ op[o] = Idle
  /\ started < MaxRequests
  /\ LateRequests \/ \A p \in Actors : Resting(p)
  /\ started' = started + 1
  /\ op' = [op EXCEPT ![o] = r]
  /\ UNCHANGED <<record, manifest, files, edits, made, choice>>

\* The name of a directory that is still there is not given again.
CreateProject(o) ==
  /\ record = NoFile /\ manifest["project"] = << >> /\ files["project"] = {}
  /\ Begins(o, [Idle EXCEPT !.plan = CreateSteps])

SaveDocument(o, d, pin) ==
  /\ Fresh(d)
  /\ Begins(o, [Idle EXCEPT !.plan = SaveSteps(pin), !.doc = d, !.pin = pin])

UploadDocument(o, d) ==
  /\ Fresh(d)
  /\ Begins(o, [Idle EXCEPT !.plan = <<"writeFiles", "extract">> \o Tail(SaveSteps(FALSE)),
                            !.doc = d])

DeleteDocument(o, d) ==
  /\ d \in DOMAIN manifest["project"]
  /\ Begins(o, [Idle EXCEPT !.plan = DeleteSteps, !.doc = d])

ProfileSaveTextDocument(o, d, pin) ==
  /\ Fresh(d)
  /\ Begins(o, [Idle EXCEPT !.plan = SaveSteps(FALSE), !.scope = "profile",
                            !.doc = d, !.pin = pin])

ProfileSetDocumentPinned(o, d, pin) ==
  /\ d \in DOMAIN manifest["profile"]
  /\ Begins(o, [Idle EXCEPT !.plan = <<"loadManifest", "markDocument">>,
                            !.scope = "profile", !.doc = d, !.pin = pin])

\* What a patch may change, as far as anything here tells it apart.
Patches == {"questions", "fields", "confirmed", "skip", "pick"}

\* saveProject: new questions, other sources, a choice of the company, or
\* company and role confirmed, which takes the block of a low confidence away.
SaveProject(o, edit, list) ==
  /\ record # NoFile
  /\ edit # "questions" => list = record.questions
  /\ Begins(o, [Idle EXCEPT
       !.plan = <<"readInfo", "writeInfo">>
                  \o IF edit = "confirmed" THEN <<"loadRecord", "writeReasons">> ELSE << >>,
       !.edit = edit, !.list = list])

\* saveEssayDraft takes the question from the record; complete_run takes index
\* and question from the record of its run, which the same list gave it.
SaveEssayDraft(o, i) ==
  /\ record # NoFile
  /\ i \in DOMAIN record.questions
  /\ Begins(o, [Idle EXCEPT !.plan = <<"readAnswer", "loadRecord", "writeAnswer">>,
                            !.index = i, !.text = record.questions[i]])

DeleteProject(o) ==
  /\ record # NoFile
  /\ Begins(o, [Idle EXCEPT !.plan = <<"removeProject">>])

(***************************************************************************)
(* Steps of the storage.                                                   *)
(***************************************************************************)
MakeManifest(o) ==
  /\ At(o, "makeManifest")
  /\ manifest' = [manifest EXCEPT !["project"] = << >>]
  /\ GoesOn(o)
  /\ UNCHANGED <<record, files, history>>

MakeRecord(o) ==
  /\ At(o, "makeRecord")
  /\ record' = Blank
  /\ GoesOn(o)
  /\ UNCHANGED <<manifest, files, history>>

WriteFiles(o) ==
  /\ At(o, "writeFiles")
  /\ files' = [files EXCEPT ![op[o].scope] = @ \cup {op[o].doc}]
  /\ GoesOn(o)
  /\ UNCHANGED <<record, manifest, history>>

\* A file nothing can be extracted from is removed again.
Extract(o) ==
  /\ At(o, "extract")
  /\ \/ GoesOn(o) /\ UNCHANGED files
     \/ Throws(o) /\ files' = [files EXCEPT ![op[o].scope] = @ \ {op[o].doc}]
  /\ UNCHANGED <<record, manifest, history>>

LoadManifest(o) ==
  /\ At(o, "loadManifest")
  /\ Put(o, [op[o] EXCEPT !.plan = Rest(o), !.man = manifest[op[o].scope]])
  /\ UNCHANGED <<record, manifest, files, history>>

LoadExisting(o) ==
  /\ At(o, "loadExisting")
  /\ IF op[o].doc \in DOMAIN manifest[op[o].scope]
       THEN Put(o, [op[o] EXCEPT !.plan = Rest(o), !.man = manifest[op[o].scope]])
       ELSE Throws(o)
  /\ UNCHANGED <<record, manifest, files, history>>

Entry(o) == [title |-> op[o].title, pin |-> op[o].pin]
Saved(o, m) == manifest' = [manifest EXCEPT ![op[o].scope] = m]

\* persistDocument; an unpinned document is acknowledged here.
AddDocument(o) ==
  /\ At(o, "addDocument")
  /\ Saved(o, [d \in DOMAIN op[o].man \cup {op[o].doc} |->
                 IF d = op[o].doc THEN Entry(o) ELSE op[o].man[d]])
  /\ choice' = [choice EXCEPT ![op[o].doc] =
                  IF ~op[o].pin THEN "out"
                  ELSE IF op[o].scope = "profile" THEN "in" ELSE @]
  /\ GoesOn(o)
  /\ UNCHANGED <<record, files, edits, made, started>>

MarkDocument(o) ==
  /\ At(o, "markDocument")
  /\ Saved(o, [d \in DOMAIN op[o].man |->
                 IF d = op[o].doc THEN [op[o].man[d] EXCEPT !.pin = op[o].pin]
                                  ELSE op[o].man[d]])
  /\ choice' = [choice EXCEPT ![op[o].doc] =
                  IF op[o].scope = "project" THEN "none"
                  ELSE IF op[o].pin THEN "in" ELSE "out"]
  /\ GoesOn(o)
  /\ UNCHANGED <<record, files, edits, made, started>>

DropDocument(o) ==
  /\ At(o, "dropDocument")
  /\ Saved(o, [d \in DOMAIN op[o].man \ {op[o].doc} |-> op[o].man[d]])
  /\ choice' = [choice EXCEPT ![op[o].doc] = "none"]
  /\ GoesOn(o)
  /\ UNCHANGED <<record, files, edits, made, started>>

RemoveFiles(o) ==
  /\ At(o, "removeFiles")
  /\ files' = [files EXCEPT ![op[o].scope] = @ \ {op[o].doc}]
  /\ GoesOn(o)
  /\ UNCHANGED <<record, manifest, history>>

\* getProject: what is not there cannot be parsed.
LoadRecord(o) ==
  /\ At(o, "loadRecord")
  /\ IF record = NoFile THEN Throws(o)
     ELSE Put(o, [op[o] EXCEPT !.plan = Rest(o), !.rec = record])
  /\ UNCHANGED <<record, manifest, files, history>>

\* The end of setProjectDocumentPinned, updateProjectDocument, persistDocument
\* and deleteProjectDocument.  A document that was taken out while a job is
\* under way is not counted as acknowledged: the job puts it back.
MarkRecord(o) ==
  LET r == op[o].rec
      d == op[o].doc
  IN  /\ At(o, "markRecord")
      /\ record' = [r EXCEPT !.pinned = IF op[o].pin THEN @ \cup {d} ELSE @ \ {d}]
      /\ choice' = [choice EXCEPT ![d] =
                      IF op[o].pin THEN "in"
                      ELSE IF /\ d \in DOMAIN manifest["project"]
                              /\ \A j \in Jobs : op[j] = Idle THEN "out" ELSE "none"]
      /\ GoesOn(o)
      /\ UNCHANGED <<manifest, files, edits, made, started>>

RemoveProject(o) ==
  /\ At(o, "removeProject")
  /\ record' = NoFile
  /\ manifest' = [manifest EXCEPT !["project"] = << >>]
  /\ files' = [files EXCEPT !["project"] = {}]
  /\ choice' = [d \in Docs |-> IF d \in DOMAIN manifest["profile"]
                               THEN choice[d] ELSE "none"]
  /\ GoesOn(o)
  /\ UNCHANGED <<edits, made, started>>

(***************************************************************************)
(* updateProjectInfo.                                                      *)
(***************************************************************************)
\* The record is read, and the answers of the questions that are gone are
\* found; their documents are unpinned one by one before the write.
\* After the documents are unpinned the record is read again.
\* Mutant of RereadSteps: it is not.
RereadSteps_None == <<"unpinNext">>
RereadSteps == <<"unpinNext", "loadRecord">>
ReadInfo(o) ==
  /\ At(o, "readInfo")
  /\ IF record = NoFile THEN Throws(o)
     ELSE LET new  == IF op[o].edit = "questions" THEN op[o].list ELSE record.questions
              gone == Removed(record.questions, new, record.answers)
          IN  Put(o, [op[o] EXCEPT
                !.plan = (IF gone = {} THEN << >> ELSE RereadSteps) \o Rest(o),
                !.rec = record, !.list = new, !.drop = gone,
                !.answers = Kept(record.questions, new, record.answers)])
  /\ UNCHANGED <<record, manifest, files, history>>

UnpinNext(o) ==
  /\ At(o, "unpinNext")
  /\ IF op[o].drop = {} THEN GoesOn(o)
     ELSE \E d \in op[o].drop :
            Put(o, [op[o] EXCEPT !.plan = PinSteps \o @, !.doc = d, !.pin = FALSE,
                                 !.drop = @ \ {d}])
  /\ UNCHANGED <<record, manifest, files, history>>

SourceChanged(o) == \/ op[o].edit \in Patches \ {"questions"}
                    \/ op[o].list # op[o].rec.questions

NextStatus(o, r) ==
  IF SourceChanged(o) /\ r.generated THEN "reviewNeeded" ELSE r.status

WriteInfo(o) ==
  LET r == op[o].rec
      n == [r EXCEPT
              !.questions = op[o].list,
              !.answers = op[o].answers,
              !.rev = IF SourceChanged(o) THEN edits + 1 ELSE @,
              !.dart = CASE op[o].edit = "skip" -> "skipped"
                         [] op[o].edit = "pick" -> "picked"
                         [] OTHER -> @,
              !.status = NextStatus(o, r)]
  IN  /\ At(o, "writeInfo")
      /\ record' = n
      /\ edits' = IF SourceChanged(o) THEN edits + 1 ELSE edits
      /\ Put(o, [op[o] EXCEPT !.plan = Rest(o), !.own = n])
      /\ UNCHANGED <<manifest, files, made, choice, started>>

WriteReasons(o) ==
  /\ At(o, "writeReasons")
  /\ record' = [op[o].rec EXCEPT !.low = FALSE]
  /\ GoesOn(o)
  /\ UNCHANGED <<manifest, files, history>>

(***************************************************************************)
(* saveCompletedEssayAnswer.                                               *)
(***************************************************************************)
ReadAnswer(o) ==
  /\ At(o, "readAnswer")
  /\ IF record = NoFile THEN Throws(o)
     ELSE IF op[o].index \in DOMAIN record.answers
       THEN Put(o, [op[o] EXCEPT !.plan = UpdateSteps \o Rest(o), !.pin = TRUE,
                                 !.doc = record.answers[op[o].index].doc])
       ELSE \E d \in Docs :
              /\ Fresh(d)
              /\ Put(o, [op[o] EXCEPT !.plan = SaveSteps(TRUE) \o Rest(o), !.pin = TRUE,
                                      !.doc = d, !.title = "answer"])
  /\ UNCHANGED <<record, manifest, files, history>>

WriteAnswer(o) ==
  LET r == op[o].rec
      a == [doc |-> op[o].doc, text |-> op[o].text]
  IN  /\ At(o, "writeAnswer")
      /\ record' = [r EXCEPT !.answers =
                      [i \in DOMAIN @ \cup {op[o].index} |->
                         IF i = op[o].index THEN a ELSE @[i]]]
      /\ GoesOn(o)
      /\ UNCHANGED <<manifest, files, history>>

(***************************************************************************)
(* The background jobs.  own is the record a job has read or written last;  *)
(* every write puts it back, with the fields the job changes.              *)
(***************************************************************************)
AnalyzeInsights(o) ==
  Begins(o, [Idle EXCEPT !.plan = <<"readInfo", "writeInfo", "await", "analyzed">>])

GenerateInsights(o) ==
  Begins(o, [Idle EXCEPT !.plan = <<"readInfo", "writeInfo", "checkInputs">>,
                         !.failed = <<"loadRecord", "writeError">>])

Await(o) ==
  /\ At(o, "await")
  /\ GoesOn(o)
  /\ UNCHANGED <<record, manifest, files, history>>

\* Writes the job's record with status st, the last thing it does.
EndsWith(o, r, st) ==
  /\ record' = [r EXCEPT !.status = st]
  /\ Ends(o)

Extracted(r) == [r EXCEPT !.rev = edits + 1, !.posting = "text"]

\* Mutant of Analyzed: what was extracted needs no review.
Analyzed_Ready(o) ==
  /\ At(o, "analyzed")
  /\ EndsWith(o, Extracted(op[o].own), "ready")
  /\ edits' = edits + 1
  /\ UNCHANGED <<manifest, files, made, choice, started>>
Analyzed(o) ==
  /\ At(o, "analyzed")
  /\ \/ \E low \in BOOLEAN :
          /\ EndsWith(o, [Extracted(op[o].own) EXCEPT !.low = low, !.dart =
                            IF @ = "candidates" THEN "open" ELSE @], "reviewNeeded")
          /\ edits' = edits + 1
     \/ EndsWith(o, op[o].own, "reviewNeeded") /\ UNCHANGED edits
  /\ UNCHANGED <<manifest, files, made, choice, started>>

CheckInputs(o) ==
  /\ At(o, "checkInputs")
  /\ LET r == op[o].own IN
       IF r.questions = << >> \/ r.posting = "none" THEN Throws(o)
       ELSE Expands(o, IF r.posting = "url" THEN <<"await", "fetched">>
                                            ELSE <<"confidence">>)
  /\ UNCHANGED <<record, manifest, files, history>>

Fetched(o) ==
  /\ At(o, "fetched")
  /\ \/ /\ record' = Extracted(op[o].own)
        /\ edits' = edits + 1
        /\ Put(o, [op[o] EXCEPT !.plan = <<"confidence">>, !.own = record'])
     \/ EndsWith(o, op[o].own, "reviewNeeded") /\ UNCHANGED edits
  /\ UNCHANGED <<manifest, files, made, choice, started>>

Confidence(o) ==
  /\ At(o, "confidence")
  /\ IF op[o].own.low THEN EndsWith(o, op[o].own, "reviewNeeded")
     ELSE /\ record' = [op[o].own EXCEPT !.status = "generating"]
          /\ Put(o, [op[o] EXCEPT !.plan = <<"await", "collected">>, !.own = record'])
  /\ UNCHANGED <<manifest, files, history>>

\* collectCompanyContext found several companies, one, or none.
Collected(o) ==
  LET r == op[o].own
      next == <<"await", "companyPhase">>
  IN  /\ At(o, "collected")
      /\ \/ /\ r.dart # "skipped"
            /\ EndsWith(o, [r EXCEPT !.dart = "candidates"], "reviewNeeded")
         \/ /\ r.dart # "skipped"
            /\ record' = [r EXCEPT !.dart = "picked"]
            /\ Put(o, [op[o] EXCEPT !.plan = next, !.own = record'])
         \/ Put(o, [op[o] EXCEPT !.plan = next]) /\ UNCHANGED record
      /\ UNCHANGED <<manifest, files, history>>

CompanyPhase(o) ==
  /\ At(o, "companyPhase")
  /\ \/ EndsWith(o, op[o].own, "error") /\ UNCHANGED made
     \/ /\ Put(o, [op[o] EXCEPT !.plan = <<"findGenerated", "await", "supportPhase">>,
                                !.title = "company", !.pin = TRUE])
        /\ made' = op[o].own.rev
        /\ UNCHANGED record
  /\ UNCHANGED <<manifest, files, edits, choice, started>>

\* From here on a failure of the storage ends the job with its own record.
SupportPhase(o) ==
  /\ At(o, "supportPhase")
  /\ \/ EndsWith(o, op[o].own, "error")
     \/ /\ Put(o, [op[o] EXCEPT !.plan = <<"findGenerated", "writeReady">>,
                                !.title = "supporting", !.pin = TRUE,
                                !.failed = <<"writeStale">>])
        /\ UNCHANGED record
  /\ UNCHANGED <<manifest, files, history>>

\* saveOrUpdateProjectGeneratedDocument.
FindGenerated(o) ==
  /\ At(o, "findGenerated")
  /\ LET found == {d \in DOMAIN manifest["project"] :
                     manifest["project"][d].title = op[o].title}
         run(d, steps) == Put(o, [op[o] EXCEPT !.plan = steps \o Rest(o),
                                               !.doc = d])
     IN  \/ \E d \in found : run(d, UpdateSteps)
         \/ /\ found = {}
            /\ \E d \in Docs : Fresh(d) /\ run(d, SaveSteps(TRUE))
  /\ UNCHANGED <<record, manifest, files, history>>

WriteReady(o) ==
  /\ At(o, "writeReady")
  /\ EndsWith(o, [op[o].own EXCEPT !.generated = TRUE], "ready")
  /\ UNCHANGED <<manifest, files, history>>

\* The catch of the support phase writes the job's record, that of
\* generateInsights reads the record again.
WriteStale(o) ==
  /\ At(o, "writeStale")
  /\ EndsWith(o, op[o].own, "error")
  /\ UNCHANGED <<manifest, files, history>>

WriteError(o) ==
  /\ At(o, "writeError")
  /\ EndsWith(o, op[o].rec, "error")
  /\ UNCHANGED <<manifest, files, history>>

\* The runner ends; nothing is under way when it is started again.
Crash ==
  /\ Crashes
  /\ \E o \in Actors : op[o] # Idle
  /\ op' = [o \in Actors |-> Idle]
  /\ UNCHANGED <<record, manifest, files, history>>

Request(o) ==
  \/ CreateProject(o) \/ DeleteProject(o)
  \/ \E d \in Docs : \/ \E pin \in BOOLEAN : \/ SaveDocument(o, d, pin)
                                             \/ ProfileSaveTextDocument(o, d, pin)
                                             \/ ProfileSetDocumentPinned(o, d, pin)
                     \/ UploadDocument(o, d)
                     \/ DeleteDocument(o, d)
  \/ \E edit \in Patches, list \in Lists :
       SaveProject(o, edit, list)
  \/ \E i \in 1..3 : SaveEssayDraft(o, i)

StorageStep(o) ==
  \/ MakeManifest(o) \/ MakeRecord(o) \/ WriteFiles(o) \/ Extract(o)
  \/ LoadManifest(o) \/ LoadExisting(o) \/ AddDocument(o) \/ MarkDocument(o)
  \/ DropDocument(o) \/ RemoveFiles(o) \/ LoadRecord(o) \/ MarkRecord(o)
  \/ RemoveProject(o) \/ ReadInfo(o) \/ UnpinNext(o) \/ WriteInfo(o)
  \/ WriteReasons(o) \/ ReadAnswer(o) \/ WriteAnswer(o)

JobStep(o) ==
  \/ Await(o) \/ Analyzed(o) \/ CheckInputs(o) \/ Fetched(o) \/ Confidence(o)
  \/ Collected(o) \/ CompanyPhase(o) \/ SupportPhase(o) \/ FindGenerated(o)
  \/ WriteReady(o) \/ WriteStale(o) \/ WriteError(o)

Next ==
  \/ \E o \in Requests : Request(o)
  \/ \E o \in Jobs : AnalyzeInsights(o) \/ GenerateInsights(o)
  \/ \E o \in Actors : StorageStep(o) \/ JobStep(o)
  \/ Crash

Spec == Init /\ [][Next]_vars

-----------------------------------------------------------------------------
(***************************************************************************)
(* Properties.                                                             *)
(***************************************************************************)
\* Whatever a manifest names is on the disk, wherever the runner ended: files
\* are written before the manifest and removed after it.
DocumentsHaveFiles ==
  \A s \in Scopes, d \in Docs : d \in DOMAIN manifest[s] => Readable(s, d)

\* A completed answer stays with the text it answers, through every edit,
\* reordering and repetition of the questions.
AnswerFollowsQuestion ==
  record # NoFile =>
    \A i \in DOMAIN record.answers :
      /\ i \in DOMAIN record.questions
      /\ record.questions[i] = record.answers[i].text

\* What was acknowledged as part of the context of runs is part of it, and
\* what was acknowledged as left out is not, whatever is saved, generated or
\* interrupted later.
ChoicesKept ==
  \A d \in Docs : /\ choice[d] = "in" => Included(d)
                  /\ choice[d] = "out" => ~Included(d)

\* A project is called ready only if its insights were generated from the
\* sources its record has now.
ReadyIsCurrent ==
  record # NoFile /\ record.status = "ready" => made = record.rev
=============================================================================
