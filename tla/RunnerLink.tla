----------------------------- MODULE RunnerLink -----------------------------
(***************************************************************************)
(* The link between a runner and the backend: the outbound WebSocket       *)
(* client of the runner (packages/runner/src/hosted/outboundClient.ts),    *)
(* the socket the backend accepts (packages/backend/src/ws/runnerSocket.ts)*)
(* the hub that keeps it (ws/deviceHub.ts) and the RPCs browsers send over *)
(* it (routes/rpc.ts).                                                     *)
(*                                                                         *)
(* One device, one runner process.  Each call of connect() makes a socket  *)
(* of its own, numbered in order; each end of it closes by itself, so a    *)
(* link may be half open, and what was sent before a close may still       *)
(* arrive at the other end or be lost.  Frames of one socket stay in       *)
(* order.  Heartbeats are left out: a heartbeat that times out is one of   *)
(* the ways a socket closes on the runner's side.                          *)
(***************************************************************************)
EXTENDS Naturals, Sequences

CONSTANTS
    MaxConns,           \* bound: sockets the runner opens in a behaviour
    MaxEvents,          \* bound: events the runner pushes in a behaviour
    Reqs,               \* RPCs of browsers; each has an id of its own (a UUID)
    MaxAuthFailures,    \* reconnect.maxAuthFailures
    LookupFaults,       \* whether the look-up of a token may throw
    Nothing             \* the body of a frame without one

ASSUME BoundsAssumption ==
    /\ MaxConns \in Nat /\ MaxEvents \in Nat
    /\ MaxAuthFailures \in Nat \ {0}
    /\ LookupFaults \in BOOLEAN

Conns  == 1..MaxConns
Events == 1..MaxEvents

VARIABLES
    \* the runner
    attempt,    \* attemptCount: the number of the latest socket
    ws,         \* the current socket, 0 when undefined
    csock,      \* c -> readyState of the runner's end
    cauthed,    \* c -> auth_ok was received on it
    connected, closed, failures,
    handling,   \* <<c, q>>: the RPC q that came over c is being handled
    sent,       \* the number of the last event pushed
    \* the wire
    up, down,   \* c -> frames on their way to the backend, to the runner
    \* the backend
    ssock,      \* c -> readyState of the backend's end
    lookup,     \* c -> the search for the token's device
    sauthed,    \* c -> authed, and with it the hub's listeners
    entry,      \* devices.get(deviceId).ws, 0 without an entry
    pending,    \* q -> the socket whose entry holds it, 0 when none does
    answer,     \* q -> what its HTTP request is at, or was answered
    revoked,    \* the device's row: "no", or "yes", or "untold" until the hub
                \* is told
    published   \* history: the events given to redis

runnerVars == <<attempt, ws, csock, cauthed, connected, closed, failures,
                handling, sent>>
hubVars    == <<entry, pending, answer>>
backVars   == <<ssock, lookup, sauthed, hubVars, revoked, published>>
vars       == <<runnerVars, up, down, backVars>>

UpFrames   == [kind : {"auth"}, of : {Nothing}] \cup [kind : {"event"}, of : Events]
              \cup [kind : {"response"}, of : Reqs]
DownFrames == [kind : {"auth_ok", "auth_err", "shutdown"}, of : {Nothing}]
              \cup [kind : {"request"}, of : Reqs]

SocketStates == {"none", "connecting", "open", "closing", "closed"}

\* How a request may end; "lost" is a request the backend took down with it.
Settled == {"ok", "timeout", "device_offline", "runner_disconnected", "lost"}

TypeOK ==
    /\ attempt   \in 0..MaxConns
    /\ ws        \in 0..MaxConns
    /\ csock     \in [Conns -> SocketStates]
    /\ cauthed   \in [Conns -> BOOLEAN]
    /\ connected \in BOOLEAN
    /\ closed    \in BOOLEAN
    /\ failures  \in 0..MaxAuthFailures
    /\ handling  \in SUBSET (Conns \X Reqs)
    /\ sent      \in 0..MaxEvents
    /\ up        \in [Conns -> Seq(UpFrames)]
    /\ down      \in [Conns -> Seq(DownFrames)]
    /\ ssock     \in [Conns -> SocketStates \ {"connecting"}]
    /\ lookup    \in [Conns -> {"none", "pending", "found", "missing", "done"}]
    /\ sauthed   \in [Conns -> BOOLEAN]
    /\ entry     \in 0..MaxConns
    /\ pending   \in [Reqs -> 0..MaxConns]
    /\ answer    \in [Reqs -> {"unsent", "listed", "waiting"} \cup Settled]
    /\ revoked   \in {"no", "untold", "yes"}
    /\ published \in Seq(Events)

Init ==
    /\ attempt = 0 /\ ws = 0
    /\ csock     = [c \in Conns |-> "none"]
    /\ cauthed   = [c \in Conns |-> FALSE]
    /\ connected = FALSE /\ closed = FALSE /\ failures = 0
    /\ handling  = {}
    /\ sent      = 0
    /\ up        = [c \in Conns |-> <<>>]
    /\ down      = [c \in Conns |-> <<>>]
    /\ ssock     = [c \in Conns |-> "none"]
    /\ lookup    = [c \in Conns |-> "none"]
    /\ sauthed   = [c \in Conns |-> FALSE]
    /\ entry     = 0
    /\ pending   = [q \in Reqs |-> 0]
    /\ answer    = [q \in Reqs |-> "unsent"]
    /\ revoked   = "no"
    /\ published = <<>>

-----------------------------------------------------------------------------
(* Helpers. *)

Frame(kind, of) == [kind |-> kind, of |-> of]

\* A frame is sent only while the sender's end is open; afterwards the ws
\* library drops it without an error.
ToBackend(c, f) ==
    up' = IF csock[c] = "open" THEN [up EXCEPT ![c] = Append(@, f)] ELSE up
ToRunner(c, f) ==
    down' = IF ssock[c] = "open" THEN [down EXCEPT ![c] = Append(@, f)] ELSE down

Shut(state) == IF state \in {"open", "connecting"} THEN "closing" ELSE state

\* Mutant of RejectAll: the waiting RPCs are forgotten, their promises are not
\* rejected.
RejectNone(c) ==
    /\ UNCHANGED answer
    /\ pending' = [q \in Reqs |-> IF pending[q] = c THEN 0 ELSE pending[q]]

\* rejectAll: every RPC that waits on the entry of c fails at once.
RejectAll(c) ==
    /\ answer'  = [q \in Reqs |-> IF pending[q] = c THEN "runner_disconnected"
                                                    ELSE answer[q]]
    /\ pending' = [q \in Reqs |-> IF pending[q] = c THEN 0 ELSE pending[q]]

-----------------------------------------------------------------------------
(* The runner. *)

\* Mutant of Connect: it does not look whether there is a socket already.
Connect_BeforeClose ==
    /\ ~closed
    /\ attempt < MaxConns
    /\ attempt' = attempt + 1
    /\ ws'      = attempt + 1
    /\ csock'   = [csock EXCEPT ![attempt + 1] = "connecting"]
    /\ UNCHANGED <<cauthed, connected, closed, failures, handling, sent, up,
                   down, backVars>>

\* connect(): at the start, or when the timer set by a close fires.
Connect ==
    /\ ws = 0 /\ ~closed
    /\ attempt < MaxConns
    /\ attempt' = attempt + 1
    /\ ws'      = attempt + 1
    /\ csock'   = [csock EXCEPT ![attempt + 1] = "connecting"]
    /\ UNCHANGED <<cauthed, connected, closed, failures, handling, sent, up,
                   down, backVars>>

\* Both ends are open and the runner has sent its token.
Opened(c) ==
    /\ csock[c] = "connecting"
    /\ csock' = [csock EXCEPT ![c] = "open"]
    /\ ssock' = [ssock EXCEPT ![c] = "open"]
    /\ up'    = [up EXCEPT ![c] = Append(@, Frame("auth", Nothing))]
    /\ UNCHANGED <<attempt, ws, cauthed, connected, closed, failures, handling,
                   sent, down, lookup, sauthed, hubVars, revoked, published>>

\* A frame reaches the runner; the library delivers while it is closing, too.
Receive(c, kind) ==
    /\ csock[c] \in {"open", "closing"}
    /\ down[c] # <<>> /\ Head(down[c]).kind = kind
    /\ down' = [down EXCEPT ![c] = Tail(@)]

ReceiveAuthOk(c) ==
    /\ Receive(c, "auth_ok")
    /\ ~cauthed[c]
    /\ cauthed' = [cauthed EXCEPT ![c] = TRUE]
    /\ connected' = TRUE
    /\ failures' = 0
    /\ UNCHANGED <<attempt, ws, csock, closed, handling, sent, up, backVars>>

ReceiveAuthErr(c) ==
    /\ Receive(c, "auth_err")
    /\ ~cauthed[c]
    /\ failures' = failures + 1
    /\ csock'    = [csock EXCEPT ![c] = Shut(@)]
    /\ IF failures + 1 >= MaxAuthFailures
       THEN closed' = TRUE /\ connected' = FALSE
       ELSE UNCHANGED <<closed, connected>>
    /\ UNCHANGED <<attempt, ws, cauthed, handling, sent, up, backVars>>

ReceiveShutdown(c) ==
    /\ Receive(c, "shutdown")
    /\ cauthed[c]
    /\ closed' = TRUE /\ connected' = FALSE
    /\ csock'  = [csock EXCEPT ![c] = Shut(@)]
    /\ UNCHANGED <<attempt, ws, cauthed, failures, handling, sent, up, backVars>>

ReceiveRequest(c) ==
    /\ Receive(c, "request")
    /\ cauthed[c]
    /\ handling' = handling \cup {<<c, Head(down[c]).of>>}
    /\ UNCHANGED <<attempt, ws, csock, cauthed, connected, closed, failures, sent,
                   up, backVars>>

\* onRpc resolved or threw: its response goes to the socket it came from.
Respond(c, q) ==
    /\ <<c, q>> \in handling
    /\ handling' = handling \ {<<c, q>>}
    /\ ToBackend(c, Frame("response", q))
    /\ UNCHANGED <<attempt, ws, csock, cauthed, connected, closed, failures, sent,
                   down, backVars>>

\* sendEvent: dropped unless the current socket is open, authenticated or not.
SendEvent ==
    /\ sent < MaxEvents
    /\ sent' = sent + 1
    /\ IF ws # 0 THEN ToBackend(ws, Frame("event", sent + 1)) ELSE UNCHANGED up
    /\ UNCHANGED <<attempt, ws, csock, cauthed, connected, closed, failures,
                   handling, down, backVars>>

\* The runner's end closes, by agreement, by a heartbeat that timed out or
\* because the network failed.  What is on its way to it is lost.
RunnerEndCloses(c) ==
    /\ csock[c] \in {"connecting", "open", "closing"}
    /\ csock' = [csock EXCEPT ![c] = "closed"]
    /\ down'  = [down EXCEPT ![c] = <<>>]
    /\ connected' = FALSE
    /\ ws' = 0
    /\ UNCHANGED <<attempt, cauthed, closed, failures, handling, sent, up,
                   backVars>>

\* close(), on a signal.
Stop ==
    /\ ~closed
    /\ closed' = TRUE /\ connected' = FALSE
    /\ csock' = IF ws # 0 THEN [csock EXCEPT ![ws] = Shut(@)] ELSE csock
    /\ UNCHANGED <<attempt, ws, cauthed, failures, handling, sent, up, down,
                   backVars>>

-----------------------------------------------------------------------------
(* The backend's end of a socket. *)

Arrives(c, kind) ==
    /\ ssock[c] \in {"open", "closing"}
    /\ up[c] # <<>> /\ Head(up[c]).kind = kind
    /\ up' = [up EXCEPT ![c] = Tail(@)]

\* The first frame: the token is looked up, and nothing waits for the result.
AuthArrives(c) ==
    /\ Arrives(c, "auth")
    /\ lookup' = [lookup EXCEPT ![c] = "pending"]
    /\ UNCHANGED <<runnerVars, down, ssock, sauthed, hubVars, revoked, published>>

\* Any other frame before the result is not the expected one.
UnexpectedArrives(c) ==
    /\ ~sauthed[c]
    /\ Arrives(c, "event")
    /\ ToRunner(c, Frame("auth_err", Nothing))
    /\ ssock' = [ssock EXCEPT ![c] = Shut(@)]
    /\ UNCHANGED <<runnerVars, lookup, sauthed, hubVars, revoked, published>>

\* attach: an older entry is detached, and the socket's listeners are set,
\* whether the socket is still open or not.
Attach(c) ==
    /\ IF entry # 0 THEN RejectAll(entry) ELSE UNCHANGED <<answer, pending>>
    /\ entry'   = c
    /\ sauthed' = [sauthed EXCEPT ![c] = TRUE]

\* The database answers; the code hears of it later.
LookupReads(c) ==
    /\ lookup[c] = "pending"
    /\ lookup' = [lookup EXCEPT ![c] = IF revoked = "no" THEN "found" ELSE "missing"]
    /\ UNCHANGED <<runnerVars, up, down, ssock, sauthed, hubVars, revoked, published>>

LookupFinds(c) ==
    /\ lookup[c] = "found"
    /\ lookup' = [lookup EXCEPT ![c] = "done"]
    /\ Attach(c)
    /\ ToRunner(c, Frame("auth_ok", Nothing))
    /\ UNCHANGED <<runnerVars, up, ssock, revoked, published>>

LookupFails(c) ==
    /\ lookup[c] = "missing" \/ (LookupFaults /\ lookup[c] = "pending")
    /\ lookup' = [lookup EXCEPT ![c] = "done"]
    /\ ToRunner(c, Frame("auth_err", Nothing))
    /\ ssock' = [ssock EXCEPT ![c] = Shut(@)]
    /\ UNCHANGED <<runnerVars, up, sauthed, hubVars, revoked, published>>

\* An event is published for the users of its own entry, current or not.
EventArrives(c) ==
    /\ sauthed[c]
    /\ Arrives(c, "event")
    /\ published' = Append(published, Head(up[c]).of)
    /\ UNCHANGED <<runnerVars, down, ssock, lookup, sauthed, hubVars, revoked>>

\* A response settles the RPC if the entry of its socket still holds it.
ResponseArrives(c) ==
    LET q == Head(up[c]).of IN
    /\ sauthed[c]
    /\ Arrives(c, "response")
    /\ IF pending[q] = c
       THEN /\ answer'  = [answer EXCEPT ![q] = "ok"]
            /\ pending' = [pending EXCEPT ![q] = 0]
       ELSE UNCHANGED <<answer, pending>>
    /\ UNCHANGED <<runnerVars, down, ssock, lookup, sauthed, entry, revoked,
                   published>>

\* The backend's end closes; the hub hears of it if it was attached.
BackendEndCloses(c) ==
    /\ ssock[c] \in {"open", "closing"}
    /\ ssock' = [ssock EXCEPT ![c] = "closed"]
    /\ up'    = [up EXCEPT ![c] = <<>>]
    /\ IF entry = c THEN entry' = 0 /\ RejectAll(c) ELSE UNCHANGED hubVars
    /\ UNCHANGED <<runnerVars, down, lookup, sauthed, revoked, published>>

\* The backend is restarted: sockets, entry and look-ups are gone, and with
\* them the HTTP requests it was serving.
Restart ==
    /\ ssock'  = [c \in Conns |-> IF ssock[c] = "none" THEN "none" ELSE "closed"]
    /\ up'     = [c \in Conns |-> <<>>]
    /\ lookup' = [c \in Conns |-> IF lookup[c] = "none" THEN "none" ELSE "done"]
    /\ entry'   = 0
    /\ pending' = [q \in Reqs |-> 0]
    /\ answer'  = [q \in Reqs |-> IF answer[q] \in {"listed", "waiting"}
                                  THEN "lost" ELSE answer[q]]
    /\ revoked' = IF revoked = "untold" THEN "yes" ELSE revoked
    /\ UNCHANGED <<runnerVars, down, sauthed, published>>

-----------------------------------------------------------------------------
(* RPCs of browsers, and the end of a pairing. *)

\* POST /api/rpc, up to the answer of the database.
ListDevices(q) ==
    /\ answer[q] = "unsent"
    /\ answer' = [answer EXCEPT ![q] = IF revoked = "no" THEN "listed"
                                                         ELSE "device_offline"]
    /\ UNCHANGED <<runnerVars, up, down, ssock, lookup, sauthed, entry, pending,
                   revoked, published>>

\* The connected device is picked and sendRpc called in one go.
Forward(q) ==
    /\ answer[q] = "listed"
    /\ IF entry = 0
       THEN /\ answer' = [answer EXCEPT ![q] = "device_offline"]
            /\ UNCHANGED <<pending, down>>
       ELSE /\ answer'  = [answer EXCEPT ![q] = "waiting"]
            /\ pending' = [pending EXCEPT ![q] = entry]
            /\ ToRunner(entry, Frame("request", q))
    /\ UNCHANGED <<runnerVars, up, ssock, lookup, sauthed, entry, revoked,
                   published>>

\* Mutants of Timeout: the entry keeps the RPC; the RPC is forgotten and its
\* promise is not rejected.
Timeout_KeepsEntry(q) ==
    /\ answer[q] = "waiting"
    /\ answer'  = [answer EXCEPT ![q] = "timeout"]
    /\ UNCHANGED <<runnerVars, up, down, ssock, lookup, sauthed, entry, pending,
                   revoked, published>>

Timeout_Silent(q) ==
    /\ pending[q] # 0
    /\ pending' = [pending EXCEPT ![q] = 0]
    /\ UNCHANGED <<runnerVars, up, down, ssock, lookup, sauthed, entry, answer,
                   revoked, published>>

\* Its timer fires.
Timeout(q) ==
    /\ answer[q] = "waiting"
    /\ answer'  = [answer EXCEPT ![q] = "timeout"]
    /\ pending' = [pending EXCEPT ![q] = 0]
    /\ UNCHANGED <<runnerVars, up, down, ssock, lookup, sauthed, entry, revoked,
                   published>>

\* The user removes the device: the row first, then the hub.
Revoke ==
    /\ revoked # "untold"
    /\ revoked' = "untold"
    /\ UNCHANGED <<runnerVars, up, down, ssock, lookup, sauthed, hubVars, published>>

Disconnect ==
    /\ revoked = "untold"
    /\ revoked' = "yes"
    /\ IF entry # 0
       THEN /\ ToRunner(entry, Frame("shutdown", Nothing))
            /\ ssock' = [ssock EXCEPT ![entry] = Shut(@)]
       ELSE UNCHANGED <<down, ssock>>
    /\ UNCHANGED <<runnerVars, up, lookup, sauthed, hubVars, published>>

-----------------------------------------------------------------------------
Runner ==
    \/ Connect \/ SendEvent \/ Stop
    \/ \E c \in Conns :
          \/ Opened(c) \/ ReceiveAuthOk(c) \/ ReceiveAuthErr(c)
          \/ ReceiveShutdown(c) \/ ReceiveRequest(c) \/ RunnerEndCloses(c)
          \/ \E q \in Reqs : Respond(c, q)

Backend ==
    \/ Restart \/ Revoke \/ Disconnect
    \/ \E c \in Conns :
          \/ AuthArrives(c) \/ UnexpectedArrives(c) \/ LookupReads(c)
          \/ LookupFinds(c) \/ LookupFails(c) \/ EventArrives(c)
          \/ ResponseArrives(c) \/ BackendEndCloses(c)
    \/ \E q \in Reqs : ListDevices(q) \/ Forward(q) \/ Timeout(q)

Next == Runner \/ Backend

Spec == Init /\ [][Next]_vars

\* The database answers and timers fire; nothing is assumed of the network,
\* of the runner or of its handlers.
Fairness == \A q \in Reqs : WF_vars(Forward(q)) /\ WF_vars(Timeout(q))

FairSpec == Spec /\ Fairness

-----------------------------------------------------------------------------
(* Properties. *)

\* connect() waits for the previous socket to close: the runner never has two
\* live sockets, and "ws" is the live one, so events and close() address it.
OneSocket ==
    \A c \in Conns : csock[c] \in {"connecting", "open", "closing"} => ws = c

\* An RPC that waits is held by the entry the hub has now, so a response can
\* find it and a disconnect rejects it at once: a socket that was replaced or
\* closed leaves no RPC behind to run into its timeout.
WaitingIsHeld ==
    \A q \in Reqs :
        IF answer[q] = "waiting" THEN entry # 0 /\ pending[q] = entry
                                 ELSE pending[q] = 0

\* An RPC is settled once: a late response, a late disconnect or a late timer
\* finds nothing to settle.
SettledOnce ==
    [][\A q \in Reqs : answer[q] \in Settled => answer'[q] = answer[q]]_vars

\* Every RPC the backend took is settled, whatever becomes of the runner.
RequestsEnd ==
    \A q \in Reqs : answer[q] = "listed" ~> answer[q] \in Settled
=============================================================================
