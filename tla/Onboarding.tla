----------------------------- MODULE Onboarding -----------------------------
(***************************************************************************)
(* From the sign-in to the open page: the sessions of the backend, the     *)
(* bootstrap of the page and the gates it shows instead of the             *)
(* application, the dialog that connects a runner, and whom the backend    *)
(* tells what the runner says.                                             *)
(*                                                                         *)
(* One tab, one runner.  The runner registers a claim when it starts; the  *)
(* dialog approves it, and then asks for the state until the runner        *)
(* answers.  The guide of the dialog does so again every three seconds,    *)
(* whether or not the last approval has been answered.  The users of a     *)
(* runner's socket are read once, when it signs in.                        *)
(*                                                                         *)
(* Approvals are one step here, and a token is never lost: DevicePairing   *)
(* tells of their awaits, and RunnerLink and BrowserFeed of the sockets.   *)
(***************************************************************************)
EXTENDS Naturals, FiniteSets

CONSTANTS
  Users,      \* accounts; one that is deleted does not come back
  NoUser,
  Claims,     \* claims of the runner's starts
  NoClaim,
  Tries,      \* connecting attempts of the dialog under way at the same time
  MaxPolls,   \* questions for the state before an attempt ends
  Production, \* whether the backend runs in production
  MaxFaults   \* failures, and what other tabs and the clock do to the session

VARIABLES
  session,     \* the user of the browser's cookie, while the session is good
  deleted,     \* accounts that were deleted
  members,     \* users of the runner's device (device_users)
  claim,       \* c -> its status, whether it names the device, and its approver
  audience,    \* the users the backend passes the runner's events to
  runner,      \* [at, token, mine, read]
  owner,       \* history: the user whose approval gave the runner its token
  gate,        \* what the page shows
  boot,        \* the bootstrap of the last attempt: "none", "asked" or its answer
  dialog,      \* [phase, step, offered] of the connect dialog
  try,         \* t -> a connecting attempt
  socket,      \* the page's socket: [at, user]
  faults

account == <<session, deleted>>
device == <<members, claim, audience, runner, owner>>
page == <<gate, boot, dialog, try, socket>>
vars == <<account, device, page, faults>>

-----------------------------------------------------------------------------
Fails == faults < MaxFaults /\ faults' = faults + 1
Goes == UNCHANGED faults

NewDialog == [phase |-> "consent", step |-> 1, offered |-> {}]
Guide(step) == [phase |-> "guide", step |-> step, offered |-> {}]
NoTry == [at |-> "free", from |-> "dialog", shown |-> FALSE, claim |-> NoClaim,
          answer |-> "none", offered |-> {}, polls |-> 0]
Unclaimed == [status |-> "none", known |-> FALSE, by |-> NoUser]
NoSocket == [at |-> "off", user |-> NoUser]

Init ==
  /\ session = NoUser /\ deleted = {}
  /\ members = {} /\ audience = {} /\ owner = NoUser
  /\ claim = [c \in Claims |-> Unclaimed]
  /\ runner = [at |-> "down", token |-> FALSE, mine |-> NoClaim, read |-> {}]
  /\ gate = "auth_required" /\ boot = "none"
  /\ dialog = NewDialog
  /\ try = [t \in Tries |-> NoTry]
  /\ socket = NoSocket
  /\ faults = 0

-----------------------------------------------------------------------------
(***************************************************************************)
(* Bootstrap.                                                              *)
(***************************************************************************)
\* The effect of App runs anew: the gates are gone, and the dialog with them, but
\* not its attempts.
Attempt(tries) ==
  /\ gate' = "pending" /\ boot' = "asked"
  /\ dialog' = NewDialog
  /\ try' = [t \in Tries |-> [tries[t] EXCEPT !.shown = FALSE]]

\* The browser loads the page.
Load == Attempt([t \in Tries |-> NoTry]) /\ socket' = NoSocket

\* POST /api/rpc with get_state.
Served ==
  CASE session = NoUser -> "auth_required"
    [] session \notin members \/ runner.at # "on" -> "device_offline"
    [] OTHER -> "ok"

ServeBoot ==
  /\ boot = "asked"
  /\ \/ boot' = Served /\ Goes
     \/ boot' \in {"network_error", "unknown"} /\ Fails
  /\ UNCHANGED <<account, device, gate, dialog, try, socket>>

Booted ==
  /\ boot \notin {"none", "asked"}
  /\ boot' = "none"
  /\ gate' = IF boot = "ok" THEN "open" ELSE boot
  /\ socket' = IF boot = "ok" /\ socket.at = "off"
               THEN [at |-> "trying", user |-> NoUser] ELSE socket
  /\ UNCHANGED <<account, device, dialog, try, faults>>

Retry ==
  /\ gate \in {"network_error", "unknown"}
  /\ Attempt(try)
  /\ UNCHANGED <<account, device, socket, faults>>

\* The page's socket, with its probe; SocketHub has the retries between.
Closed ==
  /\ gate' = "auth_required"
  /\ dialog' = NewDialog
  /\ try' = [t \in Tries |-> [try[t] EXCEPT !.shown = FALSE]]

Connects ==
  /\ socket.at = "trying"
  /\ IF session = NoUser
     THEN socket' = NoSocket /\ Closed
     ELSE socket' = [at |-> "open", user |-> session] /\ UNCHANGED <<gate, dialog, try>>
  /\ UNCHANGED <<account, device, boot, faults>>

Disconnects ==
  /\ socket.at = "open"
  /\ Fails
  /\ socket' = [at |-> "trying", user |-> NoUser]
  /\ UNCHANGED <<account, device, gate, boot, dialog, try>>

-----------------------------------------------------------------------------
(***************************************************************************)
(* Sessions.                                                               *)
(***************************************************************************)
SignIn(u) ==
  /\ gate = "auth_required" /\ u \notin deleted
  /\ session' = u
  /\ Load
  /\ UNCHANGED <<deleted, device, faults>>

\* The page is loaded anew, whether the request was answered or not.
Logout ==
  /\ gate # "auth_required" /\ session # NoUser
  /\ \/ session' = NoUser /\ Goes
     \/ session' = session /\ Fails
  /\ Load
  /\ UNCHANGED <<deleted, device>>

\* What refers to the user goes with the account.
DeleteAccount ==
  /\ gate # "auth_required" /\ session # NoUser
  /\ deleted' = deleted \cup {session}
  /\ members' = members \ {session}
  /\ session' = NoUser
  /\ Load
  /\ UNCHANGED <<claim, audience, runner, owner, faults>>

\* The session expires, or another tab signs out, or in as somebody else.
Elsewhere ==
  /\ session # NoUser
  /\ session' \in (Users \ deleted) \cup {NoUser} /\ session' # session
  /\ Fails
  /\ UNCHANGED <<deleted, device, page>>

-----------------------------------------------------------------------------
(***************************************************************************)
(* The dialog.                                                             *)
(***************************************************************************)
AtGuide == gate = "device_offline" /\ dialog.phase = "guide" /\ dialog.step = 3

Ask(t, from, c) ==
  /\ try[t].at = "free"
  /\ try' = [try EXCEPT ![t] = [NoTry EXCEPT !.at = "asking", !.from = from,
                                             !.shown = TRUE, !.claim = c]]
  /\ UNCHANGED <<account, device, gate, boot, socket, faults>>

\* handleConnect: after the consent, or with the claim chosen.
Connect(t, c) ==
  /\ gate = "device_offline"
  /\ \/ dialog.phase = "consent" /\ c = NoClaim
     \/ dialog.phase = "choose" /\ c \in dialog.offered
  /\ dialog' = [NewDialog EXCEPT !.phase = "connecting"]
  /\ Ask(t, "dialog", c)

Tick(t) == AtGuide /\ Ask(t, "guide", NoClaim) /\ UNCHANGED dialog

Step ==
  /\ gate = "device_offline"
  /\ \/ dialog.phase = "guide" /\ dialog.step < 3 /\ dialog' = Guide(dialog.step + 1)
     \/ dialog.phase = "guide" /\ dialog' = IF dialog.step = 1 THEN NewDialog
                                            ELSE Guide(dialog.step - 1)
     \/ dialog.phase = "error" /\ dialog' = NewDialog
  /\ UNCHANGED <<account, device, gate, boot, try, socket, faults>>

\* What the dialog shows after the answer.
After(answer, offered) ==
  CASE answer = "failed" -> [NewDialog EXCEPT !.phase = "error"]
    [] answer = "no_claim" -> Guide(1)
    [] answer = "multiple_claims" -> [NewDialog EXCEPT !.phase = "choose", !.offered = offered]
    [] OTHER -> dialog
Shows(t, next) == dialog' = IF try[t].from = "dialog" /\ try[t].shown THEN next ELSE dialog

\* Mutant of Good: the guide knows new devices only.
Good_New(t) ==
  \/ try[t].answer = "approved"
  \/ try[t].answer = "authorized" /\ try[t].from = "dialog"
Good(t) == try[t].answer \in {"approved", "authorized"}

Hear(t) ==
  /\ try[t].at = "answered"
  /\ try' = [try EXCEPT ![t] = IF Good(t) THEN [@ EXCEPT !.at = "waiting"] ELSE NoTry]
  /\ Shows(t, After(try[t].answer, try[t].offered))
  /\ UNCHANGED <<account, device, gate, boot, socket, faults>>

\* RunnerClient.bootstrap in the loop after an approval.
Poll(t) ==
  /\ try[t].at = "waiting" /\ try[t].polls < MaxPolls
  /\ \/ Served = "ok" /\ Goes /\ Attempt([try EXCEPT ![t] = NoTry])
     \/ /\ (Served # "ok" /\ Goes) \/ (Served = "ok" /\ Fails)
        /\ try' = [try EXCEPT ![t].polls = @ + 1]
        /\ UNCHANGED <<gate, boot, dialog>>
  /\ UNCHANGED <<account, device, socket>>

Deadline(t) ==
  /\ try[t].at = "waiting" /\ try[t].polls = MaxPolls
  /\ try' = [try EXCEPT ![t] = NoTry]
  /\ Shows(t, [NewDialog EXCEPT !.phase = "error"])
  /\ UNCHANGED <<account, device, gate, boot, socket, faults>>

-----------------------------------------------------------------------------
(***************************************************************************)
(* The backend approves.                                                   *)
(***************************************************************************)
Pending(c) == claim[c].status \in {"pending", "old"}
Matching == {c \in Claims : claim[c].status = "pending"}

Answered(t, answer, offered) ==
  try' = [try EXCEPT ![t] = [@ EXCEPT !.at = "answered", !.answer = answer,
                                      !.offered = offered]]

Says(t, answer, offered) == Answered(t, answer, offered) /\ UNCHANGED <<members, claim>>

\* approveEntry: a claim that names the device is an authorization for it, another
\* one gets a device of its own.
ApproveEntry(t, c) ==
  LET result == IF claim[c].known THEN "authorized" ELSE "approved"
  IN  /\ claim' = [claim EXCEPT ![c] = [@ EXCEPT !.status = result, !.by = session]]
      /\ members' = IF claim[c].known THEN members \cup {session} ELSE members
      /\ Answered(t, result, {})

\* No claim: a runner that is connected will do, though not in production.
Fallback(t) ==
  IF ~Production /\ runner.at = "on"
  THEN /\ members' = members \cup {session}
       /\ Answered(t, "authorized", {})
       /\ UNCHANGED claim
  ELSE Says(t, "no_claim", {})

Approve(t) ==
  /\ try[t].at = "asking"
  /\ \/ session = NoUser /\ Goes /\ Says(t, "failed", {})
     \/ session # NoUser /\ Fails /\ Says(t, "failed", {})
     \/ /\ session # NoUser /\ Goes
        /\ LET c == try[t].claim IN
           IF c # NoClaim
           THEN IF Pending(c) THEN ApproveEntry(t, c) ELSE Says(t, "no_claim", {})
           ELSE IF Matching = {} THEN Fallback(t)
           ELSE IF Cardinality(Matching) > 1 THEN Says(t, "multiple_claims", Matching)
           ELSE \E d \in Matching : ApproveEntry(t, d)
  /\ UNCHANGED <<account, audience, runner, owner, gate, boot, dialog, socket>>

\* Two minutes after its registration a claim is no longer looked for; after ten
\* it is gone.
Age(c) ==
  /\ claim[c].status = "pending"
  /\ claim' = [claim EXCEPT ![c].status = "old"]
  /\ UNCHANGED <<account, members, audience, runner, owner, page, faults>>

Expire(c) ==
  /\ claim[c].status \in {"old", "approved", "authorized"}
  /\ claim' = [claim EXCEPT ![c] = Unclaimed]
  /\ UNCHANGED <<account, members, audience, runner, owner, page, faults>>

-----------------------------------------------------------------------------
(***************************************************************************)
(* The runner.                                                             *)
(***************************************************************************)
Unused(c) ==
  /\ claim[c].status = "none" /\ c \notin dialog.offered
  /\ \A t \in Tries : c # try[t].claim /\ c \notin try[t].offered

Start(c) ==
  /\ runner.at = "down" /\ Unused(c)
  /\ claim' = [claim EXCEPT ![c] = [status |-> "pending", known |-> runner.token,
                                    by |-> NoUser]]
  /\ runner' = [runner EXCEPT !.at = "up", !.mine = c]
  /\ UNCHANGED <<account, members, audience, owner, page, faults>>

Down == [runner EXCEPT !.at = "down", !.mine = NoClaim, !.read = {}]

\* Mutant of Take: the device is stored without its user.
Take_Alone ==
  LET c == runner.mine IN
  /\ c # NoClaim /\ claim[c].status \in {"approved", "authorized"}
  /\ claim' = [claim EXCEPT ![c] = Unclaimed]
  /\ runner' = [runner EXCEPT !.mine = NoClaim, !.token = TRUE]
  /\ IF claim[c].status = "approved"
     THEN members' = {} /\ owner' = claim[c].by
     ELSE UNCHANGED <<members, owner>>
  /\ UNCHANGED <<account, audience, page, faults>>

\* The runner's poll consumes the result: a first approval gives it the token of a
\* device, whose only user is the one who approved.
Take ==
  LET c == runner.mine IN
  /\ c # NoClaim /\ claim[c].status \in {"approved", "authorized"}
  /\ claim' = [claim EXCEPT ![c] = Unclaimed]
  /\ runner' = [runner EXCEPT !.mine = NoClaim, !.token = TRUE]
  /\ IF claim[c].status = "approved"
     THEN members' = {claim[c].by} \ deleted /\ owner' = claim[c].by
     ELSE UNCHANGED <<members, owner>>
  /\ UNCHANGED <<account, audience, page, faults>>

\* The claim has expired: a runner without a token ends.
NothingToTake ==
  /\ runner.mine # NoClaim /\ claim[runner.mine].status = "none"
  /\ runner' = IF runner.token THEN [runner EXCEPT !.mine = NoClaim] ELSE Down
  /\ UNCHANGED <<account, members, claim, audience, owner, page, faults>>

\* The runner signs in: the users of the device are read, and then its socket
\* takes the place of the last one.
Authenticate ==
  /\ runner.at = "up" /\ runner.token
  /\ runner' = [runner EXCEPT !.at = "named", !.read = members]
  /\ UNCHANGED <<account, members, claim, audience, owner, page, faults>>

Attach ==
  /\ runner.at = "named"
  /\ runner' = [runner EXCEPT !.at = "on", !.read = {}]
  /\ audience' = runner.read
  /\ UNCHANGED <<account, members, claim, owner, page, faults>>

LinkLost ==
  /\ runner.at \in {"named", "on"} /\ Fails
  /\ runner' = [runner EXCEPT !.at = "up", !.read = {}]
  /\ audience' = {}
  /\ UNCHANGED <<account, members, claim, owner, page>>

Crash ==
  /\ runner.at # "down" /\ Fails
  /\ runner' = Down
  /\ audience' = {}
  /\ UNCHANGED <<account, members, claim, owner, page>>

-----------------------------------------------------------------------------
PageActs ==
  \/ ServeBoot \/ Booted \/ Retry \/ Connects \/ Disconnects \/ Logout
  \/ DeleteAccount \/ Elsewhere \/ Step
  \/ \E u \in Users : SignIn(u)
  \/ \E t \in Tries, c \in Claims \cup {NoClaim} : Connect(t, c)
  \/ \E t \in Tries : Tick(t) \/ Hear(t) \/ Poll(t) \/ Deadline(t)

BackendActs == \/ \E t \in Tries : Approve(t)
               \/ \E c \in Claims : Age(c) \/ Expire(c)

RunnerActs == \/ Take \/ NothingToTake \/ Authenticate \/ Attach \/ LinkLost \/ Crash
              \/ \E c \in Claims : Start(c)

Next == PageActs \/ BackendActs \/ RunnerActs

\* Timers fire, requests are answered, time passes; nobody has to sign in, to press a
\* button or to start a runner.
Fairness ==
  /\ WF_vars(ServeBoot) /\ WF_vars(Booted)
  /\ WF_vars(\E t \in Tries : Tick(t))
  /\ \A t \in Tries : WF_vars(Approve(t)) /\ WF_vars(Hear(t)) /\ WF_vars(Poll(t))
                        /\ WF_vars(Deadline(t))
  /\ \A c \in Claims : WF_vars(Age(c))

Spec == Init /\ [][Next]_vars /\ Fairness

-----------------------------------------------------------------------------
(***************************************************************************)
(* Properties.                                                             *)
(***************************************************************************)
(* The user who paired the runner hears it: whenever the page is open with  *)
(* its socket, and the runner's socket is there, the backend passes the     *)
(* runner's events on to the page, after any number of restarts, sign-ins   *)
(* and users who joined.  One who joined while the runner was connected     *)
(* does not, until it connects again.  (approveEntry, findByTokenHash,      *)
(* deviceHub.attach)                                                        *)
PairedUserHears ==
  (gate = "open" /\ socket.at = "open" /\ socket.user = owner /\ runner.at = "on")
    => owner \in audience \cup deleted

(* A page that waits at the end of the guide finds a runner that is         *)
(* connected: however approvals and the questions after them overlap, are   *)
(* refused or fail, several claims are pending or their runner is gone, it  *)
(* does not wait for ever.  Outside production only: there a runner that    *)
(* has no claim pending is not looked for.  (RunnerInstallGuide and         *)
(* /api/device-claim/approve)                                               *)
GuideFindsRunner ==
  LET waits == ~Production /\ AtGuide /\ session # NoUser /\ runner.at = "on"
  IN  waits ~> ~waits
=============================================================================
