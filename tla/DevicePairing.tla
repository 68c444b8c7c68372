---------------------------- MODULE DevicePairing ----------------------------
(***************************************************************************)
(* How a runner gets its device token: the claims of the backend           *)
(* (packages/backend/src/routes/pairing.ts), the runner's polling client   *)
(* (packages/runner/src/hosted/pairingClient.ts) and its start-up          *)
(* (connectToBackend in packages/runner/src/index.ts).                     *)
(*                                                                         *)
(* One runner, restarted at will.  A start registers a claim, which a user *)
(* approves in the browser; the runner polls for the result.  A poll is an *)
(* HTTP request served by a loop of its own, which goes on when the runner *)
(* has given the request up.                                               *)
(*                                                                         *)
(* A token is named after its device.  Left out: who the users are         *)
(* (device_users only grows and nothing here is decided by it), the choice *)
(* between several pending claims (any may be approved), the limit of      *)
(* claims per minute (one of the ways to be refused), and the fallback of  *)
(* development servers without a claim.                                    *)
(***************************************************************************)
EXTENDS Naturals

CONSTANTS
    Claims,         \* claim ids; each registration draws a new one
    Devices,        \* device ids; each first approval draws a new one
    Approvals,      \* approve requests of browsers
    Polls,          \* polls being served at the same time
    NoDevice, NoClaim, NoPoll,
    MaxErrors,      \* network errors in a row that end the polling
    Faults          \* whether the network, the database and the process may fail

ASSUME NothingAssumption ==
    NoDevice \notin Devices /\ NoClaim \notin Claims /\ NoPoll \notin Polls
ASSUME LimitsAssumption == MaxErrors \in Nat \ {0} /\ Faults \in BOOLEAN

VARIABLES
    \* the backend
    rows,           \* devices in the database
    revoked,        \* those with revoked_at
    claim,          \* c -> the claim in redis: its status and device
    approval,       \* a -> where an approve request is
    poll,           \* p -> where the loop that serves a poll is
    \* the runner
    disk,           \* the token and the id in secrets.enc
    cache,          \* those two in what the runner's own store keeps of the file
    mem,            \* deviceToken and deviceId of the process
    phase,          \* where connectToBackend is
    mine,           \* the claim pollClaim asks for, while it runs
    asked,          \* the poll it awaits
    errors          \* networkErrors

backVars   == <<rows, revoked, claim, approval, poll>>
runnerVars == <<disk, cache, mem, phase, mine, asked, errors>>
vars       == <<backVars, runnerVars>>

Device == Devices \cup {NoDevice}
Keys   == [token : Device, id : Device]

\* What redis holds of a claim: "none" before it is registered, "gone" once it
\* is consumed or has expired.
Entries == [status : {"none", "pending", "approved", "authorized", "gone"},
            device : Device]

\* What a poll is answered.
Answers == [status : {"pending", "expired", "approved", "authorized"},
            device : Device]
Unanswered == [status |-> "pending", device |-> NoDevice]

\* An approve request: what it read, and what it will write.
Requests == [at : {"unused", "read", "stored", "over"},
             claim : Claims \cup {NoClaim}, device : Device,
             result : {"approved", "authorized"}]

\* The loop of a poll, and the answer it has.
Loops == [at : {"free", "reading", "deleting", "answering"},
          claim : Claims \cup {NoClaim}, got : Answers]

TypeOK ==
    /\ rows     \in SUBSET Devices
    /\ revoked  \in SUBSET Devices
    /\ claim    \in [Claims -> Entries]
    /\ approval \in [Approvals -> Requests]
    /\ poll     \in [Polls -> Loops]
    /\ disk     \in Keys
    /\ cache    \in Keys
    /\ mem      \in Keys
    /\ phase    \in {"down", "resolving", "registering", "pairing", "saving",
                     "linked"}
    /\ mine     \in Claims \cup {NoClaim}
    /\ asked    \in Polls \cup {NoPoll}
    /\ errors   \in 0..MaxErrors - 1

NoKeys == [token |-> NoDevice, id |-> NoDevice]
Free   == [at |-> "free", claim |-> NoClaim, got |-> Unanswered]

Init ==
    /\ rows = {} /\ revoked = {}
    /\ claim    = [c \in Claims |-> [status |-> "none", device |-> NoDevice]]
    /\ approval = [a \in Approvals |-> [at |-> "unused", claim |-> NoClaim,
                                        device |-> NoDevice, result |-> "approved"]]
    /\ poll     = [p \in Polls |-> Free]
    /\ disk = NoKeys /\ cache = NoKeys /\ mem = NoKeys
    /\ phase = "down" /\ mine = NoClaim /\ asked = NoPoll
    /\ errors = 0

-----------------------------------------------------------------------------
(* The start of the runner. *)

\* The process ends, by a crash or because connectToBackend threw.
Exit ==
    /\ phase' = "down"
    /\ mem' = NoKeys /\ cache' = NoKeys /\ mine' = NoClaim /\ asked' = NoPoll
    /\ errors' = 0

\* pollClaim returned or threw; the process goes on.
StopPolling == mine' = NoClaim /\ asked' = NoPoll /\ errors' = 0

Crash ==
    /\ Faults
    /\ phase # "down"
    /\ Exit
    /\ UNCHANGED <<backVars, disk>>

\* createRunnerContext opens its store, which reads the file once.  Both keys are
\* loaded; an id that is missing is asked for.
Boot ==
    /\ phase = "down"
    /\ mem' = disk /\ cache' = disk
    /\ phase' = IF disk.token # NoDevice /\ disk.id = NoDevice
                THEN "resolving" ELSE "registering"
    /\ UNCHANGED <<backVars, disk, mine, asked, errors>>

\* The device is looked up by its token; a revoked one is not found, and the
\* request may fail.
Known == mem.token \in rows \ revoked
Unresolved == Faults \/ ~Known

\* An error of resolveDeviceId is logged and the start goes on.
Resolve ==
    /\ phase = "resolving"
    /\ phase' = "registering"
    /\ \/ /\ Known
          /\ mem'  = [mem EXCEPT !.id = mem.token]
          /\ disk' = [disk EXCEPT !.id = mem.token]
       \/ Unresolved /\ UNCHANGED <<mem, disk>>
    /\ UNCHANGED <<backVars, cache, mine, asked, errors>>

\* The claim carries the device id, if there is one.  Without a token the start
\* waits for the result, otherwise it goes on and polls in the background.
Register(c) ==
    /\ phase = "registering"
    /\ claim[c].status = "none"
    /\ claim' = [claim EXCEPT ![c] = [status |-> "pending", device |-> mem.id]]
    /\ mine' = c
    /\ phase' = IF mem.token = NoDevice THEN "pairing" ELSE "linked"
    /\ UNCHANGED <<rows, revoked, approval, poll, disk, cache, mem, asked, errors>>

\* registerClaim fails for the runner; the claim may exist all the same.
MayHaveClaimed ==
    \/ UNCHANGED claim
    \/ \E c \in Claims :
          /\ claim[c].status = "none"
          /\ claim' = [claim EXCEPT ![c] = [status |-> "pending", device |-> mem.id]]

RegisterFails ==
    /\ Faults
    /\ phase = "registering"
    /\ MayHaveClaimed
    /\ IF mem.token = NoDevice
       THEN Exit
       ELSE phase' = "linked" /\ UNCHANGED <<cache, mem, mine, asked, errors>>
    /\ UNCHANGED <<rows, revoked, approval, poll, disk>>

-----------------------------------------------------------------------------
(* The runner polls: in the foreground while it pairs, else in the background. *)

Ask(p) ==
    /\ mine # NoClaim /\ asked = NoPoll
    /\ poll[p].at = "free"
    /\ poll' = [poll EXCEPT ![p] = [at |-> "reading", claim |-> mine,
                                    got |-> Unanswered]]
    /\ asked' = p
    /\ UNCHANGED <<rows, revoked, claim, approval, disk, cache, mem, phase,
                   mine, errors>>

\* pollClaim throws: the start fails, or nothing if it polls in the background.
GiveUp ==
    IF phase = "pairing" THEN Exit
                         ELSE StopPolling /\ UNCHANGED <<phase, cache, mem>>

\* Ten minutes are over.
Deadline ==
    /\ mine # NoClaim /\ asked = NoPoll
    /\ GiveUp
    /\ UNCHANGED <<backVars, disk>>

\* The backend goes on serving the poll, or it has not: the request never came,
\* or redis failed.
GoesOnOrNot ==
    \/ UNCHANGED poll
    \/ poll[asked].at # "answering" /\ poll' = [poll EXCEPT ![asked] = Free]

\* The request fails for the runner.
FetchFails ==
    /\ Faults
    /\ asked # NoPoll
    /\ IF errors + 1 >= MaxErrors
       THEN GiveUp
       ELSE /\ errors' = errors + 1 /\ asked' = NoPoll
            /\ UNCHANGED <<phase, cache, mem, mine>>
    /\ GoesOnOrNot
    /\ UNCHANGED <<rows, revoked, claim, approval, disk>>

\* The answer is an error status, of the backend or of a proxy.
ErrorStatus ==
    /\ Faults
    /\ asked # NoPoll
    /\ GiveUp
    /\ GoesOnOrNot
    /\ UNCHANGED <<rows, revoked, claim, approval, disk>>

\* Mutants of TakeResult: an answer in the background is taken as it is; the
\* token of an approval is saved although there is one.
TakeResult_AnyId(got) ==
    IF phase = "pairing"
    THEN IF got.status = "approved"
         THEN /\ disk' = [disk EXCEPT !.token = got.device]
              /\ mem'  = [mem EXCEPT !.token = got.device]
              /\ phase' = "saving"
              /\ StopPolling /\ UNCHANGED cache
         ELSE Exit /\ UNCHANGED disk
    ELSE /\ StopPolling
         /\ disk' = IF got.device # NoDevice
                    THEN [disk EXCEPT !.id = got.device] ELSE disk
         /\ UNCHANGED <<phase, cache, mem>>

TakeResult_AnyToken(got) ==
    IF got.status = "approved"
    THEN /\ disk' = [disk EXCEPT !.token = got.device]
         /\ mem'  = [mem EXCEPT !.token = got.device]
         /\ phase' = "saving"
         /\ StopPolling /\ UNCHANGED cache
    ELSE GiveUp /\ UNCHANGED disk

\* The result of pollClaim.  A runner that pairs wants a token and saves it; one
\* that has a token only takes an id, when it is authorized under another one.
TakeResult(got) ==
    IF phase = "pairing"
    THEN IF got.status = "approved"
         THEN /\ disk' = [disk EXCEPT !.token = got.device]
              /\ mem'  = [mem EXCEPT !.token = got.device]
              /\ phase' = "saving"
              /\ StopPolling /\ UNCHANGED cache
         ELSE Exit /\ UNCHANGED disk
    ELSE /\ StopPolling
         /\ disk' = IF got.status = "authorized" /\ got.device # mem.id
                    THEN [disk EXCEPT !.id = got.device] ELSE disk
         /\ UNCHANGED <<phase, cache, mem>>

\* The answer of the poll it awaits; one whose body breaks off says nothing.
Answered(p) ==
    /\ asked = p
    /\ poll[p].at = "answering"
    /\ poll' = [poll EXCEPT ![p] = Free]
    /\ LET got == poll[p].got IN
       \/ /\ got.status = "pending" \/ Faults
          /\ asked' = NoPoll /\ errors' = 0
          /\ UNCHANGED <<disk, cache, mem, phase, mine>>
       \/ /\ got.status = "expired"
          /\ GiveUp
          /\ UNCHANGED disk
       \/ /\ got.status \in {"approved", "authorized"}
          /\ TakeResult(got)
    /\ UNCHANGED <<rows, revoked, claim, approval>>

\* The token is saved, now the id.
SaveId ==
    /\ phase = "saving"
    /\ disk' = [disk EXCEPT !.id = mem.token]
    /\ mem'  = [mem EXCEPT !.id = mem.token]
    /\ phase' = "linked"
    /\ UNCHANGED <<backVars, cache, mine, asked, errors>>

\* The user saves or clears the API key of a provider: the runner's own store
\* writes the file from what it has read at the start.
SaveApiKey ==
    /\ phase = "linked"
    /\ disk' = cache
    /\ UNCHANGED <<backVars, cache, mem, phase, mine, asked, errors>>

-----------------------------------------------------------------------------
(* The backend. *)

Answer(p, status, device) ==
    poll' = [poll EXCEPT ![p] = [@ EXCEPT
               !.at = "answering", !.got = [status |-> status, device |-> device]]]

\* One turn of the loop of a poll: a claim that is gone ends it, a result is
\* consumed, and a pending claim is looked at again until the time is over.
ReadClaim(p) ==
    LET entry == claim[poll[p].claim] IN
    /\ poll[p].at = "reading"
    /\ \/ entry.status = "gone" /\ Answer(p, "expired", NoDevice)
       \/ entry.status = "pending" /\ Answer(p, "pending", NoDevice)
       \/ /\ entry.status \in {"approved", "authorized"}
          /\ poll' = [poll EXCEPT ![p] = [@ EXCEPT !.at = "deleting", !.got = entry]]
    /\ UNCHANGED <<rows, revoked, claim, approval, runnerVars>>

Gone(c) == claim' = [claim EXCEPT ![c] = [status |-> "gone", device |-> NoDevice]]

\* The result is consumed: the key goes, then the answer is sent.
Consume(p) ==
    /\ poll[p].at = "deleting"
    /\ Gone(poll[p].claim)
    /\ poll' = [poll EXCEPT ![p].at = "answering"]
    /\ UNCHANGED <<rows, revoked, approval, runnerVars>>

\* Nobody awaits the answer any more, or the error of redis that ends the loop.
Dropped(p) ==
    /\ asked # p
    /\ poll[p].at = "answering" \/ (Faults /\ poll[p].at # "free")
    /\ poll' = [poll EXCEPT ![p] = Free]
    /\ UNCHANGED <<rows, revoked, claim, approval, runnerVars>>

\* The TTL of the key is over.
Expire(c) ==
    /\ claim[c].status \in {"pending", "approved", "authorized"}
    /\ Gone(c)
    /\ UNCHANGED <<rows, revoked, approval, poll, runnerVars>>

\* Approve, up to the entry it finds: a pending one.
Approve(a, c) ==
    /\ approval[a].at = "unused"
    /\ claim[c].status = "pending"
    /\ approval' = [approval EXCEPT ![a] =
                      [at |-> "read", claim |-> c, device |-> claim[c].device,
                       result |-> IF claim[c].device = NoDevice
                                  THEN "approved" ELSE "authorized"]]
    /\ UNCHANGED <<rows, revoked, claim, poll, runnerVars>>

\* A claim without a device gets a new one, with a token.
Insert(a) ==
    /\ approval[a].at = "read" /\ approval[a].result = "approved"
    /\ \E d \in Devices \ rows :
          /\ rows' = rows \cup {d}
          /\ approval' = [approval EXCEPT ![a] = [@ EXCEPT !.at = "stored", !.device = d]]
    /\ UNCHANGED <<revoked, claim, poll, runnerVars>>

\* A claim with a device is an authorization for it, unless it is revoked.
Authorize(a) ==
    /\ approval[a].at = "read" /\ approval[a].result = "authorized"
    /\ approval' = [approval EXCEPT ![a].at =
                      IF approval[a].device \in rows \ revoked
                      THEN "stored" ELSE "over"]
    /\ UNCHANGED <<rows, revoked, claim, poll, runnerVars>>

\* Mutant of StoreFails: the failure is logged, and the claim approved.
StoreFails_GoesOn(a) ==
    /\ Faults
    /\ approval[a].at = "read"
    /\ approval' = [approval EXCEPT
                      ![a].at = "stored",
                      ![a].device = IF @ = NoDevice
                                    THEN CHOOSE d \in Devices : TRUE ELSE @]
    /\ UNCHANGED <<rows, revoked, claim, poll, runnerVars>>

\* The database fails: the browser is told, the claim stays as it is.
StoreFails(a) ==
    /\ Faults
    /\ approval[a].at = "read"
    /\ approval' = [approval EXCEPT ![a].at = "over"]
    /\ UNCHANGED <<rows, revoked, claim, poll, runnerVars>>

\* The entry that was read is written back with the result, and a new TTL,
\* whatever became of the claim meanwhile.
WriteClaim(a) ==
    /\ approval[a].at = "stored"
    /\ claim' = [claim EXCEPT ![approval[a].claim] =
                   [status |-> approval[a].result, device |-> approval[a].device]]
    /\ approval' = [approval EXCEPT ![a].at = "over"]
    /\ UNCHANGED <<rows, revoked, poll, runnerVars>>

\* A user removes a device.
Revoke(d) ==
    /\ d \in rows \ revoked
    /\ revoked' = revoked \cup {d}
    /\ UNCHANGED <<rows, claim, approval, poll, runnerVars>>

-----------------------------------------------------------------------------
Runner ==
    \/ Boot \/ Resolve \/ RegisterFails \/ Deadline \/ FetchFails \/ ErrorStatus
    \/ SaveId \/ SaveApiKey \/ Crash
    \/ \E c \in Claims : Register(c)
    \/ \E p \in Polls  : Ask(p) \/ Answered(p)

Backend ==
    \/ \E p \in Polls     : ReadClaim(p) \/ Consume(p) \/ Dropped(p)
    \/ \E c \in Claims    : Expire(c)
    \/ \E d \in Devices   : Revoke(d)
    \/ \E a \in Approvals : \/ \E c \in Claims : Approve(a, c)
                            \/ Insert(a) \/ Authorize(a) \/ StoreFails(a)
                            \/ WriteClaim(a)

Next == Runner \/ Backend

Spec == Init /\ [][Next]_vars

-----------------------------------------------------------------------------
\* The tokens anybody has or is about to get.
InClaims  == {claim[c].device : c \in {x \in Claims : claim[x].status = "approved"}}
InAnswers == {poll[p].got.device : p \in {x \in Polls : poll[x].got.status = "approved"}}
Circulating == (InClaims \cup InAnswers \cup {disk.token, mem.token}) \ {NoDevice}

\* A token is in the database before anybody can see it, and an approval that
\* failed gives none away: the runner never saves a token the backend does not
\* know.
TokenIsGood == Circulating \subseteq rows

\* The id the runner keeps is that of its token, whichever approval it comes
\* from, after a crash between the two saves, a failed resolve, or an approval
\* of a claim that carried no id.
IdMatchesToken == disk.id # NoDevice => disk.id = disk.token

\* A token is never replaced by another one: no approval, however late or often
\* repeated, gives a paired runner a second device.
TokenNotReplaced ==
    [][disk.token # NoDevice => disk'.token \in {disk.token, NoDevice}]_vars
=============================================================================
