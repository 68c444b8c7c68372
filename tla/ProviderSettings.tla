-------------------------- MODULE ProviderSettings --------------------------
(***************************************************************************)
(* What the runner knows of a provider, and what the page shows of it: the *)
(* CLI on the machine, its login and its Notion connection, the settings   *)
(* and the API key, the saved status, the caches of the registry           *)
(* (ProviderRegistry), the copy in the sidebar state and the page.         *)
(*                                                                         *)
(* A request of the page is a handler of the runner: a sequence of steps,  *)
(* each the code between two awaits, written as the sequence of their      *)
(* names that is left to do.  The steps of two handlers interleave.  One   *)
(* provider; another one appears as a handler that writes the same status  *)
(* file.  Snapshots and answers reach the page at once: that they overtake *)
(* each other is the subject of ProjectPage.                               *)
(***************************************************************************)
EXTENDS Naturals, Sequences

CONSTANTS
  Machines,    \* what may be there at the start: [kind, cli, mode, key]
  MaxStarted,  \* bound: requests the user makes
  MaxPolls     \* how often the page asks whether a login is done (24 in the code)

Requests == {1, 2}   \* bound: requests at a time
Unknown == "unknown"
NoView == [status |-> Unknown]
Nobody == [op |-> "nobody", late |-> FALSE, given |-> FALSE]

VARIABLES
  kind,     \* "codex", "claude" or "gemini"
  cli,      \* [installed, login, notion]: the CLI and what it is connected to
  signing,  \* a login waits for the user in the browser
  mode, key, token,   \* the settings: "cli" or "apiKey"; is a key, a Notion token saved
  file,     \* the saved status of the provider
  reg,      \* runtimeStateCache: a view, or NoView
  known,    \* notionStatusCache: a Notion state, or Unknown
  store,    \* the view in the sidebar state
  page,     \* the view the page shows
  ops,      \* the handlers in flight
  started,  \* requests made so far
  last      \* history: [op, late, given] of the handler that ended last if it ran alone

vars == <<kind, cli, signing, mode, key, token, file, reg, known, store, page, ops,
          started, last>>
settings == <<mode, key, token>>
caches == <<reg, known, store, page>>

-----------------------------------------------------------------------------
View(m, k, t, installed, status, notion) ==
  [mode |-> m, key |-> k, token |-> t, installed |-> installed,
   status |-> IF m = "apiKey" /\ ~k THEN "missing" ELSE status,
   notion |-> IF installed THEN notion ELSE Unknown]

\* What the CLI's list of MCP servers is taken to say.  Codex lists a server without
\* its login: configured counts as connected.
NotionSeen ==
  IF ~cli.installed THEN "absent"
  ELSE IF kind = "codex" /\ cli.notion = "added" THEN "joined" ELSE cli.notion

\* testProvider followed by refreshProvider, refreshRuntimeState alone.
Testing == <<"detect", "credential", "ask", "save">>
Refresh == <<"load", "look", "count", "keep">>
Again == <<"load", "look", "count", "hold">>

Handler(op) ==
  CASE op = "test"       -> Testing \o <<"install">> \o Refresh \o <<"answer">>
    [] op = "config"     -> <<"set">> \o Refresh \o <<"answer">>
    [] op = "key"        -> <<"saveKey">> \o Refresh \o <<"answer">>
    [] op = "noKey"      -> <<"clearKey">> \o Refresh \o <<"answer">>
    [] op = "auth"       -> <<"probe", "sign">> \o Testing \o Refresh \o <<"answer">>
    [] op = "logout"     -> <<"signOut">> \o Testing \o Refresh \o <<"answer">>
    [] op = "check"      -> <<"list">> \o Refresh \o <<"answer">>
    [] op = "connect"    -> <<"list", "connect", "consent", "list">> \o Again
                            \o <<"list">> \o Refresh \o <<"answer">>
    [] op = "disconnect" -> <<"list", "remove", "list">> \o Again \o Refresh \o <<"answer">>
    [] op = "other"      -> <<"borrow", "repay">>
\* The handlers the page starts by itself go on from a test: "auth".
Asked == {"test", "config", "key", "noKey", "logout", "check", "connect", "disconnect", "other"}
\* Handlers under runBusy, which publishes the state before and, at once, after.
Busy == {"test", "config", "key", "noKey", "check", "connect", "disconnect"}
NotionOps == {"check", "connect", "disconnect"}

Idle == [op |-> "idle", todo |-> <<>>]
\* A handler: what it has read so far (mode .. seen), the test's answer, whether its
\* status came too late or never, whether the page gave up, failed, ran alone, polls.
Started(op, todo, m, t, alone, polls) ==
  [op |-> op, todo |-> todo, mode |-> m, key |-> FALSE, token |-> t, installed |-> FALSE,
   status |-> "untested", seen |-> Unknown, answer |-> "none", late |-> FALSE,
   given |-> FALSE, failed |-> FALSE, alone |-> alone, polls |-> polls]

At(r, step) == ops[r].todo # <<>> /\ Head(ops[r].todo) = step
\* The handler has done its step, read these things and has `rest` left to do.
Then(r, o, rest) == ops' = [ops EXCEPT ![r] = [o EXCEPT !.todo = rest]]
Done(r, o) == Then(r, o, Tail(ops[r].todo))

-----------------------------------------------------------------------------
Init ==
  /\ \E m \in Machines : kind = m.kind /\ cli = m.cli /\ mode = m.mode /\ key = m.key
  /\ token = FALSE
  /\ signing = FALSE /\ file = "untested"
  /\ known = IF cli.installed THEN NotionSeen ELSE Unknown
  /\ store = View(mode, key, token, cli.installed, file, known)
  /\ reg = store /\ page = store
  /\ ops = [r \in Requests |-> Idle]
  /\ started = 0 /\ last = Nobody

\* The user asks for something; nothing keeps two requests from overlapping (only some
\* buttons are disabled, and only until a request for another provider).  Bound: only
\* the second request overlaps another.
MayStart(r) ==
  /\ started < MaxStarted /\ ops[r] = Idle
  /\ started = 1 \/ \A q \in Requests : ops[q] = Idle
  /\ r = 2 <=> ops[1] # Idle
Starts(r, op, m, t) ==
  /\ started' = started + 1
  /\ LET other == ops[3 - r]
         todo == (IF t THEN <<"token">> ELSE <<>>) \o Handler(op)
     IN  ops' = [ops EXCEPT ![r] = Started(op, todo, m, t, other = Idle, 0),
                            ![3 - r] = IF other = Idle THEN Idle
                                       ELSE [other EXCEPT !.alone = FALSE, !.late = FALSE]]
  /\ page' = IF op \in Busy THEN store ELSE page
  /\ UNCHANGED <<kind, cli, signing, settings, file, reg, known, store, last>>

\* A request to change the mode names one; a connect may bring a token.
Start(r) ==
  \E op \in Asked :
    \/ Starts(r, op, mode, FALSE)
    \/ op = "config" /\ \E m \in {"cli", "apiKey"} \ {mode} : Starts(r, op, m, FALSE)
    \/ op = "connect" /\ kind = "claude" /\ Starts(r, op, mode, TRUE)

-----------------------------------------------------------------------------
(***************************************************************************)
(* testProvider.                                                           *)
(***************************************************************************)
Detect(r) ==
  /\ At(r, "detect")
  /\ Done(r, [ops[r] EXCEPT !.mode = mode, !.installed = cli.installed])
  /\ UNCHANGED <<kind, cli, signing, settings, file, caches, started, last>>

Credential(r) ==
  /\ At(r, "credential")
  /\ LET o == ops[r]
         status == IF ~o.installed THEN "unhealthy"
                   ELSE IF o.mode = "cli" THEN "asking"
                   ELSE IF key THEN "healthy" ELSE "missing"
         rest == Tail(o.todo)
     IN  Then(r, [o EXCEPT !.key = key, !.token = token, !.status = status, !.late = FALSE],
              IF status = "asking" THEN rest ELSE Tail(rest))
  /\ UNCHANGED <<kind, cli, signing, settings, file, caches, started, last>>

\* The CLI is asked whether it is logged in, or does not say so in ten seconds.
Ask(r) ==
  /\ At(r, "ask")
  /\ \E inTime \in BOOLEAN :
       Done(r, [ops[r] EXCEPT !.late = ops[r].alone /\ ~inTime,
                  !.status = IF inTime /\ cli.login THEN "healthy" ELSE "unhealthy"])
  /\ UNCHANGED <<kind, cli, signing, settings, file, caches, started, last>>

\* saveProviderStatus; only a status that was looked for is cached.
Save(r) ==
  /\ At(r, "save")
  /\ LET o == ops[r]
         view == [View(o.mode, o.key, o.token, o.installed, o.status, known)
                    EXCEPT !.status = o.status]
     IN  /\ file' = o.status
         /\ reg' = IF o.installed /\ o.status # "missing" THEN view ELSE reg
         /\ Done(r, o)
  /\ UNCHANGED <<kind, cli, signing, settings, known, store, page, started, last>>

\* ensureProviderCli: what the installer leaves.  Claude's script may end well without
\* the command; npm's package, for which npm itself may have to be downloaded, may not.
ScriptEnds(ok, works) == works => ok
PackageEnds(ok, works) == works = ok
Installed(ok, works) ==
  /\ IF kind = "claude" THEN ScriptEnds(ok, works) ELSE PackageEnds(ok, works)
  /\ cli' = [cli EXCEPT !.installed = @ \/ works]

\* callProviderTest of a provider that is not installed.
Install(r) ==
  /\ At(r, "install")
  /\ LET o == ops[r]
         rest == Tail(o.todo)
     IN  \/ o.installed /\ Done(r, o) /\ UNCHANGED <<cli, page>>
         \/ /\ ~o.installed
            /\ \E ok, works \in BOOLEAN :
                 /\ Installed(ok, works)
                 /\ Then(r, o, IF ok THEN Testing \o rest
                               ELSE Refresh \o Again \o <<"answer">>)
            /\ page' = store
  /\ UNCHANGED <<kind, signing, settings, file, reg, known, store, started, last>>

-----------------------------------------------------------------------------
(***************************************************************************)
(* refreshRuntimeState: buildRuntimeState with the saved status, then the  *)
(* cache; refreshProvider also replaces the entry of the sidebar state.    *)
(***************************************************************************)
Load(r) ==
  /\ At(r, "load")
  /\ Done(r, [ops[r] EXCEPT !.status = file])
  /\ UNCHANGED <<kind, cli, signing, settings, file, caches, started, last>>

Look(r) ==
  /\ At(r, "look")
  /\ Done(r, [ops[r] EXCEPT !.mode = mode, !.installed = cli.installed])
  /\ UNCHANGED <<kind, cli, signing, settings, file, caches, started, last>>

Count(r) ==
  /\ At(r, "count")
  /\ Done(r, [ops[r] EXCEPT !.key = key, !.token = token])
  /\ UNCHANGED <<kind, cli, signing, settings, file, caches, started, last>>

\* What callProviderTest tells the page.
Told(view) ==
  CASE view.status = "healthy" -> "healthy"
    [] view.status # "healthy" /\ view.installed /\ view.mode = "cli" -> "sign"
    [] OTHER -> "none"

\* Notion is asked for when nothing is known of it.
Built(r, step) ==
  LET o == ops[r]
  IN  /\ At(r, step)
      /\ known' = IF o.installed /\ known = Unknown THEN NotionSeen ELSE known
      /\ reg' = View(o.mode, o.key, o.token, o.installed, o.status, known')
      /\ Done(r, [o EXCEPT !.mode = "cli", !.key = FALSE, !.token = FALSE,
                           !.status = "untested", !.answer = Told(reg')])
      /\ UNCHANGED <<kind, cli, signing, settings, file, started, last>>

\* What is answered to a test is the state just cached.
Keep(r) ==
  /\ Built(r, "keep")
  /\ store' = reg'
  /\ page' = IF ops[r].op \in Busy THEN store' ELSE page
Hold(r) == Built(r, "hold") /\ UNCHANGED <<store, page>>

-----
(***************************************************************************)
(* Settings and keys; the cached state is dropped with each change.        *)
(***************************************************************************)
Set(r) ==
  /\ At(r, "set")
  /\ mode' = ops[r].mode
  /\ reg' = NoView
  /\ Done(r, ops[r])
  /\ UNCHANGED <<kind, cli, signing, key, token, file, known, store, page, started, last>>

SetKey(r, step, value, rest) ==
  /\ At(r, step)
  /\ key' = value
  /\ reg' = NoView
  /\ Then(r, ops[r], rest)
  /\ UNCHANGED <<kind, cli, signing, mode, token, file, known, store, page, started, last>>

SaveKey(r) == SetKey(r, "saveKey", TRUE, Tail(ops[r].todo))
\* The sidebar state is not refreshed.
ClearKey_Unrefreshed(r) == SetKey(r, "clearKey", FALSE, <<"answer">>)
ClearKey(r) == SetKey(r, "clearKey", FALSE, Tail(ops[r].todo))

\* saveProviderStatus of another provider reads the file, and writes all of it.
Borrow(r) ==
  /\ At(r, "borrow")
  /\ Done(r, [ops[r] EXCEPT !.status = file])
  /\ UNCHANGED <<kind, cli, signing, settings, file, caches, started, last>>
Repay(r) ==
  /\ At(r, "repay")
  /\ file' = ops[r].status
  /\ ops' = [ops EXCEPT ![r] = Idle]
  /\ last' = Nobody
  /\ UNCHANGED <<kind, cli, signing, settings, caches, started>>

-----------------------------------------------------------------------------
(***************************************************************************)
(* The login of the CLI.                                                   *)
(***************************************************************************)
\* startProviderCliAuth installs a missing CLI; when that fails the page is told to
\* wait.
Probe(r) ==
  /\ At(r, "probe")
  /\ \/ cli.installed /\ Done(r, ops[r]) /\ UNCHANGED <<cli, page>>
     \/ /\ ~cli.installed
        /\ \E ok, works \in BOOLEAN :
             /\ Installed(ok, works)
             /\ IF ok THEN Done(r, ops[r])
                ELSE Then(r, [ops[r] EXCEPT !.answer = "wait", !.failed = TRUE], <<"answer">>)
        /\ page' = store
  /\ UNCHANGED <<kind, signing, settings, file, reg, known, store, started, last>>

\* startAuth.  The page goes on by itself from a login that is not done.
Signed(r, done) == Done(r, [ops[r] EXCEPT !.seen = IF done THEN "done" ELSE "wait"])

\* Codex waits for its login, or kills it.
CodexSigns(r) ==
  /\ kind = "codex"
  /\ \E ok \in BOOLEAN : cli' = [cli EXCEPT !.login = @ \/ ok] /\ Signed(r, ok)
  /\ UNCHANGED <<signing, last>>

\* Gemini's is started and left alone, unless it is done already.
GeminiSigns(r) ==
  /\ kind = "gemini"
  /\ \E ok \in {b \in BOOLEAN : cli.login => b} :
       /\ cli' = [cli EXCEPT !.login = ok]
       /\ signing' = ~ok
       /\ Signed(r, ok)
  /\ UNCHANGED last

\* Claude's shows its address, or none in time; or it ends, and nobody is answered.
ClaudeSigns(r) ==
  /\ kind = "claude"
  /\ \/ signing' = TRUE /\ Signed(r, FALSE) /\ UNCHANGED last
     \/ signing' = FALSE /\ ops' = [ops EXCEPT ![r] = Idle] /\ last' = Nobody
  /\ UNCHANGED cli

Sign(r) ==
  /\ At(r, "sign")
  /\ CodexSigns(r) \/ GeminiSigns(r) \/ ClaudeSigns(r)
  /\ UNCHANGED <<kind, settings, file, caches, started>>

\* The user is done in the browser.  A status asked for before is out of date.
Login ==
  /\ signing
  /\ signing' = FALSE
  /\ cli' = [cli EXCEPT !.login = TRUE]
  /\ ops' = [r \in Requests |-> IF ops[r] = Idle THEN Idle ELSE [ops[r] EXCEPT !.late = ops[r].alone]]
  /\ last' = Nobody
  /\ UNCHANGED <<kind, settings, file, caches, started>>

\* logout: Gemini's files are deleted; the others' command may fail.  Claude's ends a
\* login that waits.
FilesDeleted == kind = "gemini" /\ cli' = [cli EXCEPT !.login = FALSE] /\ UNCHANGED signing
CodexSignsOut(ok) ==
  kind = "codex" /\ cli' = [cli EXCEPT !.login = @ /\ ~ok] /\ UNCHANGED signing
ClaudeSignsOut(ok) ==
  kind = "claude" /\ cli' = [cli EXCEPT !.login = @ /\ ~ok] /\ signing' = FALSE
SignOut(r) ==
  /\ At(r, "signOut")
  /\ FilesDeleted \/ \E ok \in BOOLEAN : CodexSignsOut(ok) \/ ClaudeSignsOut(ok)
  /\ Done(r, ops[r])
  /\ UNCHANGED <<kind, settings, file, caches, started, last>>

-----------------------------------------------------------------------------
(***************************************************************************)
(* Notion.                                                                 *)
(***************************************************************************)
\* storeNotionStatus.
Learn(notion) ==
  /\ known' = notion
  /\ reg' = IF reg = NoView THEN NoView ELSE [reg EXCEPT !.notion = notion]

\* checkNotionMcp.
List(r) ==
  /\ At(r, "list")
  /\ Learn(NotionSeen)
  /\ Done(r, [ops[r] EXCEPT !.seen = NotionSeen])
  /\ UNCHANGED <<kind, cli, signing, settings, file, store, page, started, last>>

\* saveNotionToken, when the page sends one.
Token(r) ==
  /\ At(r, "token")
  /\ token' = TRUE
  /\ reg' = NoView
  /\ Done(r, ops[r])
  /\ UNCHANGED <<kind, cli, signing, mode, key, file, known, store, page, started, last>>

\* An exception: runBusy publishes the state as it was, the page is told of a failure.
Fails(r) ==
  /\ Then(r, [ops[r] EXCEPT !.failed = TRUE], <<"answer">>)
  /\ page' = store

\* A plan that the CLI carries out, or breaks off; what it registers.
Carry(r, notion, rest) ==
  /\ UNCHANGED <<reg, known>>
  /\ \/ /\ cli.installed
        /\ cli' = [cli EXCEPT !.notion = notion]
        /\ Then(r, ops[r], rest)
        /\ UNCHANGED page
     \/ /\ cli' \in {cli, [cli EXCEPT !.notion = "absent"]}
        /\ Fails(r)

\* connectNotionMcp: the plan for what was seen.  Codex is logged in by a process of its
\* own; Claude needs a token; a Gemini that is connected needs nothing, and only its
\* consent is waited for.
ConnectCodex(r, rest) ==
  /\ kind = "codex"
  /\ Carry(r, IF ops[r].seen = "absent" THEN "added" ELSE cli.notion, Tail(rest))
ConnectClaude(r, rest) ==
  /\ kind = "claude"
  /\ IF token THEN Carry(r, "joined", Tail(rest))
     ELSE Learn("absent") /\ Then(r, ops[r], Tail(Tail(rest))) /\ UNCHANGED <<cli, page>>
ConnectGemini(r, rest) ==
  /\ kind = "gemini"
  /\ IF ops[r].seen # "joined" THEN Carry(r, "added", rest)
     ELSE Then(r, ops[r], Tail(rest)) /\ UNCHANGED <<cli, reg, known, page>>
Connect(r) ==
  /\ At(r, "connect")
  /\ LET rest == Tail(ops[r].todo)
     IN  ConnectCodex(r, rest) \/ ConnectClaude(r, rest) \/ ConnectGemini(r, rest)
  /\ UNCHANGED <<kind, signing, settings, file, store, started, last>>

\* performGeminiNotionOAuth: the user consents and the token is saved; or no callback
\* comes in time, or it tells of an error.
Consented(r) == cli' = [cli EXCEPT !.notion = "joined"] /\ Done(r, ops[r]) /\ UNCHANGED page
Refused(r) == Fails(r) /\ UNCHANGED cli
Consent(r) ==
  /\ At(r, "consent")
  /\ Consented(r) \/ Refused(r)
  /\ UNCHANGED <<kind, signing, settings, file, reg, known, store, started, last>>

\* disconnectNotionMcp: what is configured is removed; a saved token stays.
Remove(r) ==
  /\ At(r, "remove")
  /\ IF ops[r].seen = "absent" THEN Done(r, ops[r]) /\ UNCHANGED <<cli, reg, known, page>>
     ELSE Carry(r, "absent", Tail(ops[r].todo))
  /\ UNCHANGED <<kind, signing, settings, file, store, started, last>>

-----------------------------------------------------------------------------
(***************************************************************************)
(* The page (onTest, onLogout, onCheckNotion .. in App.tsx).               *)
(***************************************************************************)
Reads == {"test", "logout"} \union NotionOps   \* it asks for the state afterwards

Ended(r) ==
  LET o == ops[r]
  IN  /\ ops' = [ops EXCEPT ![r] = Idle]
      /\ last' = IF o.alone /\ ~o.failed
                 THEN [op |-> o.op, late |-> o.late, given |-> o.given] ELSE Nobody
GoesOn(r, op, todo, polls) ==
  /\ ops' = [ops EXCEPT ![r] = Started(op, todo, "cli", FALSE, ops[r].alone, polls)]
  /\ UNCHANGED last
Polling == <<"pause">> \o Handler("test")

\* The answer of the handler.  A test that finds no login starts one; a login that is
\* not done is asked for every five seconds.
Answer(r) ==
  /\ At(r, "answer")
  /\ LET o == ops[r]
         polled == o.op = "test" /\ o.polls > 0
     IN  IF o.given THEN Ended(r) /\ UNCHANGED page
         ELSE CASE o.op = "auth" ->
                     IF o.seen = "done" THEN page' = store /\ Ended(r)
                     ELSE UNCHANGED page /\ GoesOn(r, "test", Polling, 1)
                [] polled /\ o.answer # "healthy" /\ o.polls < MaxPolls ->
                     UNCHANGED page /\ GoesOn(r, "test", Polling, o.polls + 1)
                [] o.op = "test" /\ ~polled /\ o.answer = "sign" ->
                     page' = store /\ GoesOn(r, "auth", Handler("auth"), 0)
                [] OTHER ->
                     /\ page' = IF o.op \in Reads /\ ~(polled /\ o.answer # "healthy")
                                THEN store ELSE page
                     /\ Ended(r)
  /\ UNCHANGED <<kind, cli, signing, settings, file, reg, known, store, started>>

\* Five seconds later the next test begins.
Pause(r) ==
  /\ At(r, "pause")
  /\ page' = store
  /\ Done(r, ops[r])
  /\ UNCHANGED <<kind, cli, signing, settings, file, reg, known, store, started, last>>

\* The request times out: the page gives up, the handler does not know.
Long == {"install", "sign", "consent", "answer"}   \* bounds: where it may, and
                                                   \* only while nothing else runs
GiveUp(r) ==
  /\ \E step \in Long : At(r, step)
  /\ ~ops[r].given /\ ops[r].alone
  /\ ops' = [ops EXCEPT ![r].given = TRUE]
  /\ page' = IF ops[r].op \in Reads /\ ops[r].polls = 0 THEN store ELSE page
  /\ UNCHANGED <<kind, cli, signing, settings, file, reg, known, store, started, last>>

Next ==
  \/ \E r \in Requests : MayStart(r) /\ Start(r)
  \/ \E r \in Requests :
       \/ Detect(r) \/ Credential(r) \/ Ask(r) \/ Save(r) \/ Install(r)
       \/ Load(r) \/ Look(r) \/ Count(r) \/ Keep(r) \/ Hold(r)
       \/ Set(r) \/ SaveKey(r) \/ ClearKey(r) \/ Borrow(r) \/ Repay(r)
       \/ Probe(r) \/ Sign(r) \/ SignOut(r)
       \/ List(r) \/ Token(r) \/ Connect(r) \/ Consent(r) \/ Remove(r)
       \/ Answer(r) \/ Pause(r) \/ GiveUp(r)
  \/ Login

Spec == Init /\ [][Next]_vars

-----------------------------------------------------------------------------
\* The status that is true of the machine and the settings.
TrueStatus ==
  IF mode = "apiKey" /\ ~key THEN "missing"
  ELSE IF cli.installed /\ (mode = "apiKey" \/ cli.login) THEN "healthy"
  ELSE "unhealthy"

\* Handlers that overlap leave the page and the caches with what neither of them would
\* have shown; the last word puts it right: after a request that ran alone and did not
\* fail, the sidebar state shows the present settings, key and installation and the
\* saved status, a test, a login or a logout leaves the true status (unless the CLI's
\* answer timed out or the login came later), a request about Notion the true
\* connection, and the page shows the same - unless it gave up on a handler that does
\* not publish.  About the registry's caches and saved statuses (providers.ts), the
\* handlers (providersHandlers.ts, providerCliHandlers.ts) and the flows of the page.
LastWordIsTrue ==
  (\A r \in Requests : ops[r] = Idle) /\ last # Nobody =>
    /\ store = View(mode, key, token, cli.installed, file, store.notion)
    /\ last.op \in {"test", "auth", "logout"} /\ ~last.late => store.status = TrueStatus
    /\ last.op \in NotionOps /\ cli.installed => store.notion = NotionSeen
    /\ ~(last.given /\ last.op \in {"auth", "logout"}) => page = store
=============================================================================
