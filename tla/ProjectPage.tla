----------------------------- MODULE ProjectPage -----------------------------
(***************************************************************************)
(* The page of application projects in the browser and what is behind it:  *)
(* the runner's handlers, its background jobs, the cache the snapshots are *)
(* made of, and the snapshots on their way to the page.  One project.      *)
(*                                                                         *)
(* A handler or a job is a program counter and the record it has read.     *)
(* ProjectStore has the steps within an operation of the storage; here an  *)
(* operation is one step.                                                  *)
(***************************************************************************)
EXTENDS Posting

CONSTANTS
  Pages,       \* what may be found behind the URL
  Opened,      \* bound: those a project is created from
  OwnCompany,  \* names the user may type
  OwnRole,
  Label,       \* the name made from the URL's host
  MaxStarted,  \* bound: requests and jobs that are started
  MaxWire      \* bound: snapshots on their way

\* A posting is made of sequences, of texts of finitely many words.
Texts(p) ==
  {p.host, p.site, p.embedded.title} \cup Range(p.title)
    \cup {l.words : l \in Range(p.lines)}
ASSUME PagesAssumption ==
  \A p \in Pages :
    /\ p.title \in Seq(Range(p.title)) /\ p.lines \in Seq(Range(p.lines))
    /\ \A text \in Texts(p) : IsFiniteSet(text)

VARIABLES
  web,      \* the page behind the URL
  disk,     \* project.json, or Gone
  cache,    \* SidebarStateStore.projects
  task,     \* the request, the analysis and the generation under way
  reading,  \* refreshProjects under way, in the order they read the disk
  late,     \* those of them another has overtaken
  crossed,  \* history: the last refresh or answer that counted was overtaken
  wire,     \* state_snapshot events on their way
  answer,   \* the answer to get_state on its way, or NoAnswer
  shown,    \* the record in the page's state
  form,     \* CreateProjectWorkspace
  desk,     \* ProjectWorkspace
  mode,     \* workspaceMode
  started   \* how many requests and jobs were started

runner == <<disk, cache, task, reading, late>>
net    == <<wire, answer, crossed>>
page   == <<shown, form, desk, mode>>
vars   == <<web, runner, net, page, started>>

Tasks == {"request", "analysis", "generation"}
Gone  == [there |-> FALSE]
NoAnswer == [there |-> FALSE]
NoResult == [there |-> FALSE]
NoSeeds  == [company |-> NoText, role |-> NoText]
Idle  == [pc |-> "idle"]
Empty == [status |-> "idle", asked |-> FALSE, company |-> NoText, role |-> NoText,
          result |-> NoResult, sent |-> FALSE]
Fresh == [locked |-> FALSE, saw |-> FALSE, loading |-> FALSE, editing |-> FALSE,
          company |-> NoText, role |-> NoText, choosing |-> FALSE]

Orelse(a, b) == IF a # NoText THEN a ELSE b
Quiet == /\ \A t \in Tasks : task[t].pc = "idle"
         /\ wire = <<>> /\ answer = NoAnswer /\ ~form.sent

-----------------------------------------------------------------------------
(***************************************************************************)
(* What the operations make of the record.                                 *)
(***************************************************************************)
\* ForJobStorage.createProject: what the form has, and no word of its confidence;
\* without a company it is named after the URL's host.
Named(company) == Orelse(company, Label)
Blank(f, asks) ==
  [there |-> TRUE, company |-> Named(f.company), role |-> f.role,
   text |-> IF f.result = NoResult THEN <<>> ELSE f.result.text,
   asks |-> asks, low |-> FALSE, status |-> "idle", made |-> FALSE,
   candidates |-> FALSE, corp |-> FALSE, skip |-> FALSE]

\* ForJobStorage.updateProjectInfo: a field the patch lacks keeps its value; a new
\* name drops what was settled for the old one.
Informed(r, patch) ==
  LET p == patch @@ r
      renamed == p.company # r.company
      skip == ~renamed /\ p.skip
      changed == renamed \/ p.role # r.role \/ p.corp # r.corp \/ skip # r.skip
  IN  [p EXCEPT !.candidates = ~renamed /\ @, !.skip = skip,
                !.status = IF changed /\ r.made THEN "reviewNeeded" ELSE @]

\* analyzeProjectInsightsService writes back the record it read.
Analysed(r, e) ==
  [r EXCEPT !.company = Orelse(e.company.value, @), !.role = Orelse(e.role.value, @),
            !.text = e.text, !.status = "reviewNeeded", !.candidates = FALSE,
            !.low = LowConfidence(e)]
\* The generation's own analysis leaves the reasons as they are.
Completed(r, e) ==
  [r EXCEPT !.company = Orelse(e.company.value, @), !.role = Orelse(e.role.value, @),
            !.text = e.text]
Status(r, s) == [r EXCEPT !.status = s]

Seeds(r) == [company |-> r.company, role |-> r.role]
FromWeb(seeds) == {FromUrl(p, seeds) : p \in Fetched(web)}
Extracted(r) == IF r.text # <<>> THEN {FromText(r.text, Seeds(r))} ELSE FromWeb(Seeds(r))

-----------------------------------------------------------------------------
(***************************************************************************)
(* Steps of handlers and jobs.                                             *)
(***************************************************************************)
At(t, pc) == task[t].pc = pc
Goto(t, pc) == [task EXCEPT ![t].pc = pc]
Go(t, pc) == task' = Goto(t, pc)
Push == Len(wire) < MaxWire /\ wire' = Append(wire, cache)

\* The generation's last status stays on the disk alone.
Ending_Silent(t) == IF t = "generation" THEN [task EXCEPT ![t] = Idle] ELSE Goto(t, "read")
\* What a task does when its work is over: it refreshes and pushes.
Ending(t) == Goto(t, "read")

Write(r) == disk' = r
EndWith(t, r) == Write(r) /\ task' = Ending(t)

Start(t, r) == task' = [task EXCEPT ![t] = r] /\ started' = started + 1
MayStart(t) == At(t, "idle") /\ started < MaxStarted
Asked(op, patch, next) == [pc |-> "busy", op |-> op, patch |-> patch, next |-> next]
Kicked == [pc |-> "start", copy |-> Gone]

\* runBusy tells the page, works, refreshes and tells the page again.
Busy ==
  /\ At("request", "busy")
  /\ Push /\ Go("request", "work")
  /\ UNCHANGED <<web, disk, cache, reading, late, answer, crossed, page, started>>

\* The work of a request; what it names may be gone.
Work ==
  /\ At("request", "work")
  /\ LET q == task["request"]
     IN  \/ q.op = "create" /\ EndWith("request", q.patch)
         \/ q.op = "delete" /\ EndWith("request", Gone)
         \/ q.op = "save" /\ disk # Gone /\ EndWith("request", Informed(disk, q.patch))
         \/ q.op = "save" /\ disk = Gone /\ Go("request", "push") /\ UNCHANGED disk
  /\ UNCHANGED <<web, cache, reading, late, net, page, started>>

\* listProjects: a directory without a project.json is no project.
Projects == disk

\* refreshProjects reads the projects, and assigns the list it has read.
Read(t) ==
  /\ At(t, "read") \/ At(t, "reread")
  /\ task' = [task EXCEPT ![t].pc = IF @ = "read" THEN "assign" ELSE "reassign"]
  /\ reading' = Append(reading, [by |-> t, list |-> Projects])
  /\ UNCHANGED <<web, disk, cache, late, net, page, started>>

Assign(t) ==
  /\ At(t, "assign") \/ At(t, "reassign")
  /\ task' = [task EXCEPT ![t].pc = IF @ = "assign" THEN "push" ELSE "repush"]
  /\ LET i == CHOOSE j \in DOMAIN reading : reading[j].by = t
     IN  /\ cache' = reading[i].list
         /\ late' = (late \cup {reading[j].by : j \in 1..(i - 1)}) \ {t}
         /\ crossed' = (t \in late)
         /\ reading' = RemoveAt(reading, i)
  /\ UNCHANGED <<web, disk, wire, answer, page, started>>

PushEnd(t) ==
  /\ At(t, "push") /\ t # "request"
  /\ Push /\ task' = [task EXCEPT ![t] = Idle]
  /\ UNCHANGED <<web, disk, cache, reading, late, answer, crossed, page, started>>

PushGenerating ==
  /\ At("generation", "repush")
  /\ Push /\ Go("generation", "collect")
  /\ UNCHANGED <<web, disk, cache, reading, late, answer, crossed, page, started>>

-----------------------------------------------------------------------------
(***************************************************************************)
(* The job that analyses the posting again.                                *)
(***************************************************************************)
AnalysisStarts ==
  /\ At("analysis", "start")
  /\ IF disk = Gone THEN task' = Ending("analysis")
     ELSE task' = [task EXCEPT !["analysis"] = [pc |-> "fetch", copy |-> disk]]
  /\ UNCHANGED <<web, disk, cache, reading, late, net, page, started>>

\* A text needs no fetch and does not fail.
AnalysisEnds ==
  /\ At("analysis", "fetch")
  /\ LET r == task["analysis"].copy
     IN  \/ \E e \in Extracted(r) : EndWith("analysis", Analysed(r, e))
         \/ r.text = <<>> /\ EndWith("analysis", Status(r, "reviewNeeded"))
  /\ UNCHANGED <<web, cache, reading, late, net, page, started>>

(***************************************************************************)
(* The job that generates the insights.                                    *)
(***************************************************************************)
GenerationStarts ==
  /\ At("generation", "start")
  /\ IF disk = Gone THEN task' = Ending("generation") /\ UNCHANGED disk
     ELSE IF ~disk.asks THEN EndWith("generation", Status(disk, "error"))
     ELSE /\ task' = [task EXCEPT !["generation"] =
                 [pc |-> IF disk.text = <<>> THEN "fetch" ELSE "gate", copy |-> disk]]
          /\ UNCHANGED disk
  /\ UNCHANGED <<web, cache, reading, late, net, page, started>>

GenerationFetches ==
  /\ At("generation", "fetch")
  /\ LET r == task["generation"].copy
     IN  \/ \E e \in FromWeb(Seeds(r)) :
              LET done == Completed(r, e)
              IN  /\ Write(done)
                  /\ task' = [task EXCEPT !["generation"] = [pc |-> "gate", copy |-> done]]
         \/ EndWith("generation", Status(r, "reviewNeeded"))
  /\ UNCHANGED <<web, cache, reading, late, net, page, started>>

\* Guesses are not worth the providers' time; else the page is told at once.
GenerationGate ==
  /\ At("generation", "gate")
  /\ LET r == task["generation"].copy
     IN  \/ r.low /\ EndWith("generation", Status(r, "reviewNeeded"))
         \/ /\ ~r.low /\ Write(Status(r, "generating"))
            /\ task' = [task EXCEPT !["generation"] =
                          [pc |-> "reread", copy |-> Status(r, "generating")]]
  /\ UNCHANGED <<web, cache, reading, late, net, page, started>>

\* The company is looked up: several may have the name, which the user settles,
\* unless the user has chosen to do without.
GenerationCollects ==
  /\ At("generation", "collect")
  /\ LET r == task["generation"].copy
         met == [r EXCEPT !.corp = TRUE, !.candidates = FALSE]
     IN  \/ /\ ~r.skip /\ ~r.corp
            /\ EndWith("generation", [Status(r, "reviewNeeded") EXCEPT !.candidates = TRUE])
         \/ /\ ~r.skip /\ Write(met)
            /\ task' = [task EXCEPT !["generation"] = [pc |-> "ask", copy |-> met]]
         \/ Go("generation", "ask") /\ UNCHANGED disk
  /\ UNCHANGED <<web, cache, reading, late, net, page, started>>

\* The providers' answers, or an error in either phase.
GenerationEnds ==
  /\ At("generation", "ask")
  /\ LET r == task["generation"].copy
     IN  \/ EndWith("generation", Status(r, "error"))
         \/ EndWith("generation", [Status(r, "ready") EXCEPT !.made = TRUE])
  /\ UNCHANGED <<web, cache, reading, late, net, page, started>>

-----------------------------------------------------------------------------
(***************************************************************************)
(* The page.  What a snapshot or an answer does: the create form is shown  *)
(* while there is no project, and the lock of the generation button is     *)
(* released when the status has been "generating" and is no longer.        *)
(***************************************************************************)
Seen(d, r) ==
  IF r = Gone THEN Fresh
  ELSE IF ~d.locked THEN [d EXCEPT !.saw = FALSE]
  ELSE IF r.status = "generating" THEN [d EXCEPT !.saw = TRUE]
  ELSE IF d.saw THEN [d EXCEPT !.locked = FALSE, !.saw = FALSE] ELSE d

Show(r) ==
  /\ shown' = r
  /\ mode' = IF r = Gone THEN "create" ELSE mode
  /\ desk' = IF mode = "create" THEN Fresh ELSE Seen(desk, r)

Deliver ==
  /\ wire # <<>>
  /\ Show(Head(wire)) /\ wire' = Tail(wire)
  /\ answer' = IF answer = NoAnswer THEN NoAnswer
               ELSE [answer EXCEPT !.before = IF @ = 0 THEN 0 ELSE @ - 1,
                                   !.passed = @ \/ answer.before = 0]
  /\ UNCHANGED <<web, runner, crossed, form, started>>

\* The create form (CreateProjectWorkspace); a user who has sent it waits (bound).
Creating == mode = "create" /\ ~form.sent
AnalyzePosting ==
  /\ Creating /\ form.status # "pending" /\ ~form.asked
  /\ form' = [form EXCEPT !.status = "pending", !.asked = TRUE]
  /\ UNCHANGED <<web, runner, net, shown, desk, mode, started>>

\* analyzePosting of the runner, which keeps nothing.
Analyses == FromWeb(NoSeeds)
PostingAnalyzed ==
  /\ form.asked
  /\ \E e \in Analyses :
       form' = [form EXCEPT !.asked = FALSE, !.status = "ready",
                  !.company = e.company.value, !.role = e.role.value,
                  !.result = e]
  /\ UNCHANGED <<web, runner, net, shown, desk, mode, started>>

PostingFailed ==
  /\ form.asked
  /\ form' = [form EXCEPT !.asked = FALSE, !.status = "failed", !.result = NoResult]
  /\ UNCHANGED <<web, runner, net, shown, desk, mode, started>>

\* Typing in the field of the URL, and in those of the names.
EditUrl ==
  /\ Creating /\ form.status # "idle"
  /\ form' = [form EXCEPT !.status = "idle", !.result = NoResult]
  /\ UNCHANGED <<web, runner, net, shown, desk, mode, started>>

EditNames ==
  /\ Creating /\ form.company # OwnCompany /\ form.status = "failed"
  /\ form' = [form EXCEPT !.company = OwnCompany, !.role = OwnRole]
  /\ UNCHANGED <<web, runner, net, shown, desk, mode, started>>

\* One project, one request of the page at a time (bounds).
Create ==
  /\ Creating /\ form.status \in {"ready", "failed"} /\ web \in Opened
  /\ disk = Gone /\ \A t \in Tasks : task[t].pc = "idle"
  /\ MayStart("request")
  /\ form' = [form EXCEPT !.sent = TRUE]
  /\ \E asks \in BOOLEAN : Start("request", Asked("create", Blank(form, asks), "state"))
  /\ UNCHANGED <<web, disk, cache, reading, late, net, shown, desk, mode>>

\* The end of a request; what the page does then.
RequestEnds ==
  /\ At("request", "push")
  /\ Push
  /\ LET q == task["request"]
     IN  CASE q.next = "state" -> Go("request", "state") /\ UNCHANGED desk
           [] q.next = "generate" ->
                /\ task' = [task EXCEPT !["request"] = Idle,
                              !["generation"] = IF @.pc = "idle" THEN Kicked ELSE @]
                /\ desk' = [desk EXCEPT !.locked = TRUE, !.loading = TRUE]
           [] q.next = "saved" -> /\ task' = [task EXCEPT !["request"] = Idle]
                                  /\ desk' = [desk EXCEPT !.editing = FALSE]
           [] q.next = "none" -> task' = [task EXCEPT !["request"] = Idle] /\ UNCHANGED desk
  /\ UNCHANGED <<web, disk, cache, reading, late, answer, crossed, shown, form, mode, started>>

\* After creating, the page asks for the state itself (refreshProviderState).
GetState ==
  /\ At("request", "state")
  /\ task' = [task EXCEPT !["request"] = Idle]
  /\ answer' = [there |-> TRUE, list |-> cache, before |-> Len(wire), passed |-> FALSE]
  /\ UNCHANGED <<web, disk, cache, reading, late, wire, crossed, page, started>>

AnswerArrives ==
  /\ answer # NoAnswer
  /\ answer' = NoAnswer
  /\ crossed' = (crossed \/ answer.passed)
  /\ shown' = answer.list /\ desk' = Fresh
  /\ form' = Empty
  /\ mode' = IF answer.list = Gone THEN "create" ELSE "project"
  /\ UNCHANGED <<web, runner, wire, started>>

\* The workspace of a project (ProjectWorkspace): it is mounted anew when the user
\* leaves it for the form and comes back.
Working == mode = "project" /\ shown # Gone
NewApplication ==
  /\ Working /\ mode' = "create" /\ desk' = Fresh
  /\ UNCHANGED <<web, runner, net, shown, form, started>>
OpenProject ==
  /\ mode = "create" /\ shown # Gone /\ ~form.sent
  /\ mode' = "project" /\ form' = Empty
  /\ UNCHANGED <<web, runner, net, shown, desk, started>>

StartEdit ==
  /\ Working /\ ~desk.editing
  /\ desk' = [desk EXCEPT !.editing = TRUE, !.company = shown.company, !.role = shown.role]
  /\ UNCHANGED <<web, runner, net, shown, form, mode, started>>
TypeNames ==
  /\ Working /\ desk.editing
  /\ desk' = [desk EXCEPT !.company = OwnCompany, !.role = OwnRole]
  /\ UNCHANGED <<web, runner, net, shown, form, mode, started>>

\* handleSaveInfo: a name that was changed is sure; with both there, the low
\* confidence is settled.  An empty role is not sent.
InfoPatch ==
  LET changed == desk.company # shown.company \/ desk.role # shown.role
      low == shown.low /\ (desk.company = NoText \/ desk.role = NoText)
      role == IF desk.role = NoText THEN <<>> ELSE [role |-> desk.role]
      reasons == IF changed THEN [low |-> low] ELSE <<>>
  IN  [company |-> desk.company] @@ role @@ reasons

SaveInfo ==
  /\ Working /\ desk.editing /\ desk.company # NoText /\ MayStart("request")
  /\ Start("request", Asked("save", InfoPatch, "saved"))
  /\ UNCHANGED <<web, disk, cache, reading, late, net, page>>

Delete ==
  /\ Working /\ MayStart("request")
  /\ Start("request", Asked("delete", Gone, "none"))
  /\ UNCHANGED <<web, disk, cache, reading, late, net, page>>

AnalyzeInsights ==
  /\ Working /\ MayStart("analysis")
  /\ Start("analysis", Kicked)
  /\ UNCHANGED <<web, disk, cache, reading, late, net, page>>

\* The buttons are closed while a generation is under way, and for guesses; a
\* company that is not settled is asked for first.
MayGenerate == ~desk.locked /\ shown.status # "generating" /\ ~shown.low
GenerateInsights ==
  /\ Working /\ MayGenerate
  /\ \/ /\ shown.candidates
        /\ desk' = [desk EXCEPT !.choosing = TRUE]
        /\ UNCHANGED <<task, started>>
     \/ /\ ~shown.candidates /\ MayStart("generation")
        /\ desk' = [desk EXCEPT !.locked = TRUE, !.loading = TRUE]
        /\ Start("generation", Kicked)
  /\ UNCHANGED <<web, disk, cache, reading, late, net, shown, form, mode>>

ChooseCompany ==
  /\ Working /\ desk.choosing /\ MayStart("request")
  /\ desk' = [desk EXCEPT !.choosing = FALSE]
  /\ \E patch \in {[corp |-> TRUE], [candidates |-> FALSE, skip |-> TRUE]} :
       Start("request", Asked("save", patch, "generate"))
  /\ UNCHANGED <<web, disk, cache, reading, late, net, shown, form, mode>>

\* The request of a generation is answered with the workspace as it is, or fails.
WorkspaceArrives ==
  /\ desk.loading /\ ~At("generation", "start")
  /\ desk' = [desk EXCEPT !.loading = FALSE, !.locked = @ /\ disk # Gone]
  /\ UNCHANGED <<web, runner, net, shown, form, mode, started>>

-----------------------------------------------------------------------------
Init ==
  /\ web \in Pages
  /\ disk = Gone /\ cache = Gone /\ shown = Gone
  /\ task = [t \in Tasks |-> Idle]
  /\ reading = <<>> /\ late = {} /\ crossed = FALSE
  /\ wire = <<>> /\ answer = NoAnswer
  /\ form = Empty /\ desk = Fresh /\ mode = "create"
  /\ started = 0

Runner ==
  \/ Busy \/ Work \/ RequestEnds \/ GetState
  \/ \E t \in Tasks : Read(t) \/ Assign(t) \/ PushEnd(t)
  \/ AnalysisStarts \/ AnalysisEnds
  \/ GenerationStarts \/ GenerationFetches \/ GenerationGate \/ PushGenerating
  \/ GenerationCollects \/ GenerationEnds

Page ==
  \/ Deliver \/ AnswerArrives
  \/ AnalyzePosting \/ PostingAnalyzed \/ PostingFailed \/ EditUrl \/ EditNames \/ Create
  \/ NewApplication \/ OpenProject
  \/ StartEdit \/ TypeNames \/ SaveInfo \/ Delete
  \/ AnalyzeInsights \/ GenerateInsights \/ ChooseCompany \/ WorkspaceArrives

Next == Runner \/ Page
Spec == Init /\ [][Next]_vars

-----------------------------------------------------------------------------
(***************************************************************************)
(* When nothing is under way any more the page shows the project as it is  *)
(* on the disk: whatever the order of requests, jobs and snapshots, each   *)
(* of them ends with a refresh and a push, the later with the later state. *)
(* Two things can go wrong and are named: a refresh that read the disk     *)
(* before another and assigned its list after it, and an answer to         *)
(* get_state that comes after a newer snapshot.                            *)
(***************************************************************************)
PageCatchesUp == Quiet /\ ~crossed => shown = disk

(***************************************************************************)
(* A name the form calls factual has support in the posting: it is given   *)
(* as data, or it is what one place of the page says and another place     *)
(* agrees with; the title of a site that lists other companies' postings   *)
(* is no such place.  (fieldSources of the analysis, the tiers of          *)
(* jobPosting.ts.)                                                         *)
(***************************************************************************)
Places ==
  {<<"host", web.host>>, <<"site", web.site>>,
   <<"footer", FooterCompany(web.lines)>>, <<"body", BodyCompany(web.lines)>>}
  \cup {<<"title", t>> : t \in IF web.listed THEN {} ELSE Range(web.title)}
  \cup {<<"title", web.embedded.title>>}
Supported(name) ==
  \E a, b \in Places : a[1] # b[1] /\ a[2] = name /\ Agree(name, b[2])
FactsHaveSupport ==
  form.result # NoResult =>
    /\ form.result.company.tier = "factual" =>
         \/ form.result.company.value \in {JsonLd(web).company, web.embedded.company}
         \/ Supported(form.result.company.value)
    /\ form.result.role.tier = "factual" =>
         \/ form.result.role.value = RoleOfTitle(JsonLd(web))
         \/ Overlap(form.result.role.value, web.embedded.title, 2)
=============================================================================
