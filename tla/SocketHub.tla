----------------------------- MODULE SocketHub -----------------------------
(***************************************************************************)
(* The WebSocket client of one page: class SocketHub                       *)
(* (packages/web/src/api/socketHub.ts).  It probes the session over HTTP,  *)
(* opens a socket, and after an abnormal close probes again and retries    *)
(* with a delay, a bounded number of times.                                *)
(*                                                                         *)
(* Nothing here waits for anything but a probe, a timer or the socket;     *)
(* each is counted, because the class itself forgets a timer it overwrites *)
(* and never cancels a probe.  Delays, subscribers and listeners are left  *)
(* out.                                                                    *)
(***************************************************************************)
EXTENDS Naturals

CONSTANTS
    Own,            \* the sockets the page may open
    NoOwn,          \* _socket is undefined
    MaxAttempts     \* MAX_ATTEMPTS

ASSUME OwnAssumption == NoOwn \notin Own
ASSUME AttemptsAssumption == MaxAttempts \in Nat \ {0}

VARIABLES
    state,          \* _state
    socket,         \* _socket
    attempts,       \* _attempts
    timers,         \* retry timers that are armed; _retryTimer is the last
    probes,         \* calls of _probe() that await their answer
    reprobes,       \* calls of _probeAfterClose() that do
    disposed,       \* _disposed
    client          \* s -> the page's end of a socket

hubVars == <<state, socket, attempts, timers, probes, reprobes, disposed, client>>

HubStates == {"idle", "probing", "connecting", "open", "reconnecting",
              "auth_expired", "network_error", "closed"}
Ended == {"auth_expired", "network_error", "closed"}

HubTypeOK ==
    /\ state    \in HubStates
    /\ socket   \in Own \cup {NoOwn}
    /\ attempts \in 0..MaxAttempts
    /\ timers   \in 0..1 /\ probes \in 0..1 /\ reprobes \in 0..1
    /\ disposed \in BOOLEAN
    /\ client   \in [Own -> {"none", "connecting", "open", "closed"}]

HubInit ==
    /\ state = "idle" /\ socket = NoOwn /\ attempts = 0
    /\ timers = 0 /\ probes = 0 /\ reprobes = 0
    /\ disposed = FALSE
    /\ client = [s \in Own |-> "none"]

\* Mutant of ClearTimer: the timer is forgotten, not cancelled.
ClearTimer_Forgets == UNCHANGED timers

\* _clearRetryTimer(): the last timer is cancelled.
ClearTimer == timers' = IF timers = 0 THEN 0 ELSE timers - 1

CloseSocket ==
    /\ socket' = NoOwn
    /\ client' = IF socket = NoOwn THEN client
                 ELSE [client EXCEPT ![socket] = "closed"]

\* Mutant of ConnectCall: a page that is probing may call it again.
ConnectCall_WhileProbing ==
    /\ ~disposed
    /\ state \notin {"connecting", "open"}
    /\ ClearTimer /\ CloseSocket
    /\ attempts' = 0
    /\ state'  = "probing"
    /\ probes' = probes + 1
    /\ UNCHANGED <<reprobes, disposed>>

\* connect(), called after every bootstrap: what is left of the last attempt is
\* dropped and a probe sent.
ConnectCall ==
    /\ ~disposed
    /\ state \notin {"connecting", "open", "probing"}
    /\ ClearTimer /\ CloseSocket
    /\ attempts' = 0
    /\ state'  = "probing"
    /\ probes' = probes + 1
    /\ UNCHANGED <<reprobes, disposed>>

Dispose ==
    /\ ~disposed
    /\ disposed' = TRUE
    /\ ClearTimer /\ CloseSocket
    /\ state' = "closed"
    /\ UNCHANGED <<attempts, probes, reprobes>>

\* Mutant of ScheduleRetry: no maximum.
ScheduleRetry_NoLimit ==
    /\ state'    = "reconnecting"
    /\ attempts' = IF attempts = MaxAttempts THEN attempts ELSE attempts + 1
    /\ timers'   = timers + 1

\* _scheduleRetry(): a delay that grows with each attempt, up to the maximum.
ScheduleRetry ==
    IF attempts >= MaxAttempts
    THEN state' = "network_error" /\ UNCHANGED <<attempts, timers>>
    ELSE /\ state'    = "reconnecting"
         /\ attempts' = attempts + 1
         /\ timers'   = timers + 1

\* _probe() goes on: nothing after dispose(), the end on 401, a retry when the
\* backend is not there, and else a socket.
ProbeAnswers ==
    /\ probes > 0
    /\ probes' = probes - 1
    /\ \/ /\ disposed
          /\ UNCHANGED <<state, attempts, timers, socket, client>>
       \/ /\ ~disposed
          /\ state' = "auth_expired"
          /\ UNCHANGED <<attempts, timers, socket, client>>
       \/ /\ ~disposed
          /\ ScheduleRetry
          /\ UNCHANGED <<socket, client>>
       \/ /\ ~disposed
          /\ \E s \in Own : /\ client[s] = "none"
                            /\ socket' = s
                            /\ client' = [client EXCEPT ![s] = "connecting"]
          /\ state' = "connecting"
          /\ UNCHANGED <<attempts, timers>>
    /\ UNCHANGED <<reprobes, disposed>>

\* _probeAfterClose() goes on: it tells an expired session from a lost link.
ReprobeAnswers ==
    /\ reprobes > 0
    /\ reprobes' = reprobes - 1
    /\ \/ /\ disposed
          /\ UNCHANGED <<state, attempts, timers>>
       \/ /\ ~disposed
          /\ state' = "auth_expired"
          /\ UNCHANGED <<attempts, timers>>
       \/ ~disposed /\ ScheduleRetry
    /\ UNCHANGED <<socket, probes, disposed, client>>

TimerFires ==
    /\ timers > 0
    /\ timers' = timers - 1
    /\ IF disposed
       THEN UNCHANGED <<state, probes>>
       ELSE state' = "probing" /\ probes' = probes + 1
    /\ UNCHANGED <<socket, attempts, reprobes, disposed, client>>

Opens(s) ==
    /\ client[s] = "connecting"
    /\ client' = [client EXCEPT ![s] = "open"]
    /\ IF socket = s THEN state' = "open" /\ attempts' = 0
                     ELSE UNCHANGED <<state, attempts>>
    /\ UNCHANGED <<socket, timers, probes, reprobes, disposed>>

\* onclose; a close with code 1000 is the end.
Ends(s) ==
    /\ client[s] \in {"connecting", "open"}
    /\ client' = [client EXCEPT ![s] = "closed"]
    /\ IF socket = s
       THEN /\ socket' = NoOwn
            /\ \/ disposed /\ UNCHANGED <<state, reprobes>>
               \/ ~disposed /\ state' = "closed" /\ UNCHANGED reprobes
               \/ ~disposed /\ reprobes' = reprobes + 1 /\ UNCHANGED state
       ELSE UNCHANGED <<socket, state, reprobes>>
    /\ UNCHANGED <<attempts, timers, probes, disposed>>

HubNext ==
    \/ ConnectCall \/ Dispose \/ ProbeAnswers \/ ReprobeAnswers \/ TimerFires
    \/ \E s \in Own : Ends(s)

-----------------------------------------------------------------------------
Activities == probes + reprobes + timers + (IF socket = NoOwn THEN 0 ELSE 1)

\* "The state machine of probe, connect and reconnect" has one thread: at most
\* one probe, timer or socket is under way, a state that promises progress has
\* one, and a state that ended has none that could undo it.
OneActivity ==
    /\ Activities <= 1
    /\ state \in {"probing", "connecting", "open", "reconnecting"} => Activities = 1
    /\ state \in {"idle"} \cup Ended => Activities = 0 \/ disposed

\* "A single WS connection": the page has no live socket but the current one.
OneConnection ==
    \A s \in Own : client[s] \in {"connecting", "open"} => socket = s
=============================================================================
