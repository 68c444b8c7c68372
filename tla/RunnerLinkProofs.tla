-------------------------- MODULE RunnerLinkProofs --------------------------
(***************************************************************************)
(* What TLAPS proves of RunnerLink for every number of sockets, events and *)
(* RPCs: types, one live socket, and that the hub's entry holds exactly    *)
(* the RPCs that wait, from which it follows that none is settled twice.   *)
(*                                                                         *)
(* And of Onboarding, whose runner the link is to: the user who paired it  *)
(* is always among those the hub passes its events on to.                  *)
(***************************************************************************)
EXTENDS RunnerLink, MCOnboarding, TLAPS

-----------------------------------------------------------------------------
(* Frames. *)

\* What the two ends send are frames.
LEMMA FrameTypes ==
    /\ Frame("auth", Nothing) \in UpFrames
    /\ \A e \in Events : Frame("event", e) \in UpFrames
    /\ \A q \in Reqs : Frame("response", q) \in UpFrames
    /\ \A kind \in {"auth_ok", "auth_err", "shutdown"} : Frame(kind, Nothing) \in DownFrames
    /\ \A q \in Reqs : Frame("request", q) \in DownFrames
  BY DEF Frame, UpFrames, DownFrames

\* The kind of a frame tells what its body is.
LEMMA BodyTypes ==
    /\ \A f \in UpFrames : /\ f.kind = "event" => f.of \in Events
                           /\ f.kind = "response" => f.of \in Reqs
    /\ \A f \in DownFrames : f.kind = "request" => f.of \in Reqs
  BY DEF UpFrames, DownFrames

\* Queues keep their type when a frame is added, taken or all are dropped.
LEMMA QueueTypes ==
    ASSUME NEW S, NEW Q \in [Conns -> Seq(S)], NEW c \in Conns
    PROVE  /\ \A f \in S : [Q EXCEPT ![c] = Append(@, f)] \in [Conns -> Seq(S)]
           /\ Q[c] # <<>> => /\ [Q EXCEPT ![c] = Tail(@)] \in [Conns -> Seq(S)]
                             /\ Head(Q[c]) \in S
           /\ [Q EXCEPT ![c] = <<>>] \in [Conns -> Seq(S)]
<1>1. Q[c] \in Seq(S)
  OBVIOUS
<1>2. ASSUME NEW f \in S
      PROVE  [Q EXCEPT ![c] = Append(@, f)] \in [Conns -> Seq(S)]
  <2>1. Append(Q[c], f) \in Seq(S)
    BY <1>1, <1>2
  <2>2. QED
    BY <2>1
<1>3. ASSUME Q[c] # <<>>
      PROVE  /\ [Q EXCEPT ![c] = Tail(@)] \in [Conns -> Seq(S)]
             /\ Head(Q[c]) \in S
  <2>1. Tail(Q[c]) \in Seq(S) /\ Head(Q[c]) \in S
    BY <1>1, <1>3
  <2>2. QED
    BY <2>1
<1>4. [Q EXCEPT ![c] = <<>>] \in [Conns -> Seq(S)]
  <2>1. <<>> \in Seq(S)
    OBVIOUS
  <2>2. QED
    BY <2>1
<1>5. QED
  BY <1>2, <1>3, <1>4

\* Sending a frame keeps the type of the wire.
LEMMA ToBackendType ==
    ASSUME TypeOK, NEW c \in Conns, NEW f \in UpFrames, ToBackend(c, f)
    PROVE  up' \in [Conns -> Seq(UpFrames)]
<1>1. up \in [Conns -> Seq(UpFrames)]
  BY DEF TypeOK
<1>2. QED
  BY <1>1, QueueTypes DEF ToBackend

\* The same towards the runner.
LEMMA ToRunnerType ==
    ASSUME TypeOK, NEW c \in Conns, NEW f \in DownFrames, ToRunner(c, f)
    PROVE  down' \in [Conns -> Seq(DownFrames)]
<1>1. down \in [Conns -> Seq(DownFrames)]
  BY DEF TypeOK
<1>2. QED
  BY <1>1, QueueTypes DEF ToRunner

\* Taking the first frame off the wire keeps its type, and its body fits its kind.
LEMMA ReceiveTypes ==
    ASSUME TypeOK, NEW c \in Conns, NEW kind, Receive(c, kind)
    PROVE  /\ down' \in [Conns -> Seq(DownFrames)]
           /\ kind = "request" => Head(down[c]).of \in Reqs
<1>1. down \in [Conns -> Seq(DownFrames)] /\ down[c] # <<>> /\ Head(down[c]).kind = kind
  BY DEF TypeOK, Receive
<1>2. Head(down[c]) \in DownFrames
  BY <1>1, QueueTypes
<1>3. QED
  BY <1>1, <1>2, QueueTypes, BodyTypes DEF Receive

\* The same for a frame that reaches the backend.
LEMMA ArrivesTypes ==
    ASSUME TypeOK, NEW c \in Conns, NEW kind, Arrives(c, kind)
    PROVE  /\ up' \in [Conns -> Seq(UpFrames)]
           /\ kind = "event" => Head(up[c]).of \in Events
           /\ kind = "response" => Head(up[c]).of \in Reqs
<1>1. up \in [Conns -> Seq(UpFrames)] /\ up[c] # <<>> /\ Head(up[c]).kind = kind
  BY DEF TypeOK, Arrives
<1>2. Head(up[c]) \in UpFrames
  BY <1>1, QueueTypes
<1>3. /\ kind = "event" => Head(up[c]).of \in Events
      /\ kind = "response" => Head(up[c]).of \in Reqs
  BY <1>1, <1>2, BodyTypes
<1>4. up' \in [Conns -> Seq(UpFrames)]
  BY <1>1, QueueTypes DEF Arrives
<1>5. QED
  BY <1>3, <1>4

-----------------------------------------------------------------------------
(* What the invariant is made of. *)

Live(state) == state \in {"connecting", "open", "closing"}

\* Sockets are opened in order, and the backend has no end of one that the
\* runner has not opened.
Numbered ==
    \A c \in Conns :
        /\ c > attempt => csock[c] = "none"
        /\ csock[c] \in {"none", "connecting"} => ssock[c] = "none"

Refuses(s) == \E i \in 1..Len(s) : s[i].kind = "auth_err"

\* A refusal is the last frame the backend sends over a socket: it closes its
\* end in the same step.
RefusalIsLast ==
    \A c \in Conns : \A i \in 1..Len(down[c]) :
        down[c][i].kind = "auth_err" =>
            i = Len(down[c]) /\ ssock[c] \notin {"none", "open"}

\* A runner at the limit has given up, and no further refusal can reach it.
\* Only with this is the count of failures bounded by the limit.
GaveUp ==
    failures = MaxAuthFailures =>
        /\ closed
        /\ \A c \in Conns : Live(csock[c]) =>
              ssock[c] \notin {"none", "open"} /\ ~Refuses(down[c])

LinkInv == TypeOK /\ OneSocket /\ Numbered /\ RefusalIsLast /\ GaveUp

\* The runner starts idle and the wire empty.
LEMMA InitInv == Init => LinkInv
<1> SUFFICES ASSUME Init PROVE LinkInv
  OBVIOUS
<1> USE BoundsAssumption DEF Init
<1>1. TypeOK
  <2>1. /\ up \in [Conns -> Seq(UpFrames)] /\ down \in [Conns -> Seq(DownFrames)]
        /\ published \in Seq(Events)
    BY QueueTypes
  <2>2. /\ csock \in [Conns -> SocketStates]
        /\ ssock \in [Conns -> SocketStates \ {"connecting"}]
    BY DEF SocketStates
  <2>3. /\ attempt \in 0..MaxConns /\ ws \in 0..MaxConns /\ entry \in 0..MaxConns
        /\ failures \in 0..MaxAuthFailures /\ sent \in 0..MaxEvents
        /\ pending \in [Reqs -> 0..MaxConns]
    OBVIOUS
  <2>4. QED
    BY <2>1, <2>2, <2>3 DEF TypeOK
<1>2. OneSocket /\ Numbered /\ RefusalIsLast /\ GaveUp
  BY DEF OneSocket, Numbered, RefusalIsLast, GaveUp, Conns
<1>3. QED
  BY <1>1, <1>2 DEF LinkInv

-----------------------------------------------------------------------------
(* Type correctness. *)

\* Rejecting all that waits keeps the type of the RPCs.
LEMMA RejectAllTypes ==
    ASSUME TypeOK, NEW c \in Conns, RejectAll(c)
    PROVE  /\ answer'  \in [Reqs -> {"unsent", "listed", "waiting"} \cup Settled]
           /\ pending' \in [Reqs -> 0..MaxConns]
<1>1. "runner_disconnected" \in Settled /\ 0 \in 0..MaxConns
  BY BoundsAssumption DEF Settled
<1>2. QED
  BY <1>1 DEF TypeOK, RejectAll

\* A refusal reaches only a runner that has not reached the limit.
LEMMA RefusalCounts ==
    ASSUME LinkInv, NEW c \in Conns, ReceiveAuthErr(c)
    PROVE  failures + 1 \in 0..MaxAuthFailures
<1>1. Head(down[c]) = down[c][1] /\ down[c][1].kind = "auth_err" /\ 1 \in 1..Len(down[c])
  <2>1. down[c] \in Seq(DownFrames) /\ down[c] # <<>> /\ Head(down[c]).kind = "auth_err"
    BY DEF LinkInv, TypeOK, ReceiveAuthErr, Receive
  <2>2. QED
    BY <2>1
<1>2. Refuses(down[c]) /\ Live(csock[c])
  BY <1>1 DEF Refuses, Live, ReceiveAuthErr, Receive
<1>3. failures # MaxAuthFailures
  BY <1>2 DEF LinkInv, GaveUp
<1>4. QED
  BY <1>3, BoundsAssumption DEF LinkInv, TypeOK

\* The steps of the runner keep the types; the count of failures is the hard one.
LEMMA TypeRunner ==
    ASSUME LinkInv, Runner
    PROVE  TypeOK'
<1> USE DEF LinkInv, TypeOK, runnerVars, hubVars, backVars, SocketStates
<1>1. CASE Connect
  BY <1>1, BoundsAssumption DEF Connect, Conns
<1>2. CASE SendEvent
  <2>1. sent + 1 \in Events
    BY <1>2, BoundsAssumption DEF SendEvent, Events
  <2>2. up' \in [Conns -> Seq(UpFrames)]
    <3>1. CASE ws # 0
      <4>1. ws \in Conns /\ Frame("event", sent + 1) \in UpFrames
        BY <3>1, <2>1, FrameTypes DEF Conns
      <4>2. QED
        BY <1>2, <3>1, <4>1, ToBackendType DEF SendEvent
    <3>2. QED
      BY <1>2, <3>1 DEF SendEvent
  <2>3. QED
    BY SMTT(30), <1>2, <2>1, <2>2 DEF SendEvent, Events
<1>3. CASE Stop
  BY <1>3 DEF Stop, Shut, Conns
<1>4. ASSUME NEW c \in Conns, Opened(c)
      PROVE  TypeOK'
  <2>1. up' \in [Conns -> Seq(UpFrames)]
    BY <1>4, FrameTypes, QueueTypes DEF Opened
  <2>2. QED
    BY <1>4, <2>1 DEF Opened
<1>5. ASSUME NEW c \in Conns, ReceiveAuthOk(c)
      PROVE  TypeOK'
  <2>1. down' \in [Conns -> Seq(DownFrames)]
    BY <1>5, ReceiveTypes DEF ReceiveAuthOk
  <2>2. failures' \in 0..MaxAuthFailures
    BY <1>5, BoundsAssumption DEF ReceiveAuthOk
  <2>3. QED
    BY <1>5, <2>1, <2>2 DEF ReceiveAuthOk
<1>6. ASSUME NEW c \in Conns, ReceiveAuthErr(c)
      PROVE  TypeOK'
  <2>1. down' \in [Conns -> Seq(DownFrames)]
    BY <1>6, ReceiveTypes DEF ReceiveAuthErr
  <2>2. failures' \in 0..MaxAuthFailures
    BY <1>6, RefusalCounts DEF ReceiveAuthErr
  <2>3. QED
    BY <1>6, <2>1, <2>2 DEF ReceiveAuthErr, Shut
<1>7. ASSUME NEW c \in Conns, ReceiveShutdown(c)
      PROVE  TypeOK'
  <2>1. down' \in [Conns -> Seq(DownFrames)]
    BY <1>7, ReceiveTypes DEF ReceiveShutdown
  <2>2. QED
    BY <1>7, <2>1 DEF ReceiveShutdown, Shut
<1>8. ASSUME NEW c \in Conns, ReceiveRequest(c)
      PROVE  TypeOK'
  <2>1. down' \in [Conns -> Seq(DownFrames)] /\ Head(down[c]).of \in Reqs
    BY <1>8, ReceiveTypes DEF ReceiveRequest
  <2>2. QED
    BY SMTT(30), <1>8, <2>1 DEF ReceiveRequest
<1>9. ASSUME NEW c \in Conns, RunnerEndCloses(c)
      PROVE  TypeOK'
  <2>1. down' \in [Conns -> Seq(DownFrames)]
    BY <1>9, QueueTypes DEF RunnerEndCloses
  <2>2. ws' \in 0..MaxConns
    BY <1>9, BoundsAssumption DEF RunnerEndCloses
  <2>3. QED
    BY <1>9, <2>1, <2>2 DEF RunnerEndCloses
<1>10. ASSUME NEW c \in Conns, NEW q \in Reqs, Respond(c, q)
       PROVE  TypeOK'
  <2>1. up' \in [Conns -> Seq(UpFrames)]
    BY <1>10, FrameTypes, ToBackendType DEF Respond
  <2>2. QED
    BY <1>10, <2>1 DEF Respond
<1>11. QED
  BY <1>1, <1>2, <1>3, <1>4, <1>5, <1>6, <1>7, <1>8, <1>9, <1>10 DEF Runner

\* The steps of the backend keep the types.
LEMMA TypeBackend ==
    ASSUME LinkInv, Backend
    PROVE  TypeOK'
<1> USE DEF LinkInv, TypeOK, runnerVars, hubVars, backVars, SocketStates
<1>1. CASE Restart
  <2>1. up' \in [Conns -> Seq(UpFrames)]
    <3>1. <<>> \in Seq(UpFrames)
      OBVIOUS
    <3>2. QED
      BY <1>1, <3>1 DEF Restart
  <2>2. pending' \in [Reqs -> 0..MaxConns] /\ entry' \in 0..MaxConns
    BY <1>1, BoundsAssumption DEF Restart
  <2>3. answer' \in [Reqs -> {"unsent", "listed", "waiting"} \cup Settled]
    BY <1>1 DEF Restart, Settled
  <2>4. QED
    BY <1>1, <2>1, <2>2, <2>3 DEF Restart
<1>2. CASE Revoke
  BY <1>2 DEF Revoke
<1>3. CASE Disconnect
  <2>1. down' \in [Conns -> Seq(DownFrames)]
    <3>1. CASE entry # 0
      <4>1. entry \in Conns /\ Frame("shutdown", Nothing) \in DownFrames
        BY <3>1, FrameTypes DEF Conns
      <4>2. QED
        BY <1>3, <3>1, <4>1, ToRunnerType DEF Disconnect
    <3>2. QED
      BY <1>3, <3>1 DEF Disconnect
  <2>2. ssock' \in [Conns -> SocketStates \ {"connecting"}]
    <3>1. ssock \in [Conns -> SocketStates \ {"connecting"}]
      OBVIOUS
    <3>2. CASE entry # 0
      <4>1. ssock' = [ssock EXCEPT ![entry] = Shut(ssock[entry])]
        BY <1>3, <3>2 DEF Disconnect
      <4>2. entry \in Conns
        BY <3>2 DEF Conns
      <4>3. Shut(ssock[entry]) \in SocketStates \ {"connecting"}
        BY <3>1, <4>2 DEF Shut
      <4>4. QED
        BY <3>1, <4>1, <4>3
    <3>3. CASE entry = 0
      BY <1>3, <3>1, <3>3 DEF Disconnect
    <3>4. QED
      BY <3>2, <3>3
  <2>3. QED
    BY <1>3, <2>1, <2>2 DEF Disconnect
<1>4. ASSUME NEW c \in Conns, AuthArrives(c)
      PROVE  TypeOK'
  <2>1. up' \in [Conns -> Seq(UpFrames)]
    BY <1>4, ArrivesTypes DEF AuthArrives
  <2>2. QED
    BY <1>4, <2>1 DEF AuthArrives
<1>5. ASSUME NEW c \in Conns, UnexpectedArrives(c)
      PROVE  TypeOK'
  <2>1. up' \in [Conns -> Seq(UpFrames)]
    BY <1>5, ArrivesTypes DEF UnexpectedArrives
  <2>2. down' \in [Conns -> Seq(DownFrames)]
    BY <1>5, FrameTypes, ToRunnerType DEF UnexpectedArrives
  <2>3. QED
    BY <1>5, <2>1, <2>2 DEF UnexpectedArrives, Shut
<1>6. ASSUME NEW c \in Conns, LookupReads(c)
      PROVE  TypeOK'
  BY <1>6 DEF LookupReads
<1>7. ASSUME NEW c \in Conns, LookupFinds(c)
      PROVE  TypeOK'
  <2>1. down' \in [Conns -> Seq(DownFrames)]
    BY <1>7, FrameTypes, ToRunnerType DEF LookupFinds
  <2>2. /\ answer' \in [Reqs -> {"unsent", "listed", "waiting"} \cup Settled]
        /\ pending' \in [Reqs -> 0..MaxConns]
    <3>1. entry # 0 => entry \in Conns
      BY DEF Conns
    <3>2. QED
      BY <1>7, <3>1, RejectAllTypes DEF LookupFinds, Attach
  <2>3. entry' \in 0..MaxConns /\ sauthed' \in [Conns -> BOOLEAN]
    BY <1>7, BoundsAssumption DEF LookupFinds, Attach, Conns
  <2>4. QED
    BY <1>7, <2>1, <2>2, <2>3 DEF LookupFinds
<1>8. ASSUME NEW c \in Conns, LookupFails(c)
      PROVE  TypeOK'
  <2>1. down' \in [Conns -> Seq(DownFrames)]
    BY <1>8, FrameTypes, ToRunnerType DEF LookupFails
  <2>2. ssock' \in [Conns -> SocketStates \ {"connecting"}]
    BY <1>8 DEF LookupFails, Shut
  <2>3. QED
    BY <1>8, <2>1, <2>2 DEF LookupFails
<1>9. ASSUME NEW c \in Conns, EventArrives(c)
      PROVE  TypeOK'
  <2>1. up' \in [Conns -> Seq(UpFrames)] /\ Head(up[c]).of \in Events
    BY <1>9, ArrivesTypes DEF EventArrives
  <2>2. published' \in Seq(Events)
    BY <1>9, <2>1 DEF EventArrives
  <2>3. QED
    BY <1>9, <2>1, <2>2 DEF EventArrives
<1>10. ASSUME NEW c \in Conns, ResponseArrives(c)
       PROVE  TypeOK'
  <2>1. up' \in [Conns -> Seq(UpFrames)] /\ Head(up[c]).of \in Reqs
    BY <1>10, ArrivesTypes DEF ResponseArrives
  <2>2. answer' \in [Reqs -> {"unsent", "listed", "waiting"} \cup Settled]
    <3>1. "ok" \in Settled
      BY DEF Settled
    <3>2. QED
      BY ZenonT(40), <1>10, <2>1, <3>1 DEF ResponseArrives
  <2>3. pending' \in [Reqs -> 0..MaxConns]
    <3>1. 0 \in 0..MaxConns
      BY BoundsAssumption
    <3>2. QED
      BY <1>10, <2>1, <3>1 DEF ResponseArrives
  <2>4. QED
    BY <1>10, <2>1, <2>2, <2>3 DEF ResponseArrives
<1>11. ASSUME NEW c \in Conns, BackendEndCloses(c)
       PROVE  TypeOK'
  <2>1. up' \in [Conns -> Seq(UpFrames)]
    BY <1>11, QueueTypes DEF BackendEndCloses
  <2>2. /\ answer' \in [Reqs -> {"unsent", "listed", "waiting"} \cup Settled]
        /\ pending' \in [Reqs -> 0..MaxConns]
        /\ entry' \in 0..MaxConns
    BY <1>11, RejectAllTypes, BoundsAssumption DEF BackendEndCloses
  <2>3. QED
    BY <1>11, <2>1, <2>2 DEF BackendEndCloses
<1>12. ASSUME NEW q \in Reqs, ListDevices(q)
       PROVE  TypeOK'
  BY <1>12 DEF ListDevices, Settled
<1>13. ASSUME NEW q \in Reqs, Forward(q)
       PROVE  TypeOK'
  <2>1. down' \in [Conns -> Seq(DownFrames)]
    <3>1. CASE entry # 0
      <4>1. entry \in Conns /\ Frame("request", q) \in DownFrames
        BY <3>1, FrameTypes DEF Conns
      <4>2. QED
        BY <1>13, <3>1, <4>1, ToRunnerType DEF Forward
    <3>2. QED
      BY <1>13, <3>1 DEF Forward
  <2>2. QED
    BY <1>13, <2>1 DEF Forward, Settled
<1>14. ASSUME NEW q \in Reqs, Timeout(q)
       PROVE  TypeOK'
  BY <1>14, BoundsAssumption DEF Timeout, Settled
<1>15. QED
  BY <1>1, <1>2, <1>3, <1>4, <1>5, <1>6, <1>7, <1>8, <1>9, <1>10, <1>11, <1>12,
     <1>13, <1>14 DEF Backend

-----------------------------------------------------------------------------
(* Sockets. *)

\* The backend changes nothing of the runner's, and opens no socket.
LEMMA BackendSockets ==
    ASSUME TypeOK, Backend
    PROVE  /\ UNCHANGED runnerVars
           /\ \A d \in Conns :
                 \/ ssock'[d] = ssock[d]
                 \/ ssock[d] # "none" /\ ssock'[d] \in {"closing", "closed"}
<1> USE DEF TypeOK, hubVars
<1>1. CASE Restart
  BY <1>1 DEF Restart
<1>2. CASE Revoke \/ Disconnect
  BY <1>2 DEF Revoke, Disconnect, Shut, Conns
<1>3. ASSUME NEW c \in Conns, AuthArrives(c) \/ UnexpectedArrives(c) \/ LookupReads(c)
      PROVE  UNCHANGED runnerVars /\ \A d \in Conns :
                 \/ ssock'[d] = ssock[d]
                 \/ ssock[d] # "none" /\ ssock'[d] \in {"closing", "closed"}
  BY <1>3 DEF AuthArrives, UnexpectedArrives, LookupReads, Shut
<1>4. ASSUME NEW c \in Conns, LookupFinds(c) \/ LookupFails(c) \/ BackendEndCloses(c)
      PROVE  UNCHANGED runnerVars /\ \A d \in Conns :
                 \/ ssock'[d] = ssock[d]
                 \/ ssock[d] # "none" /\ ssock'[d] \in {"closing", "closed"}
  BY <1>4 DEF LookupFinds, LookupFails, BackendEndCloses, Shut
<1>5. ASSUME NEW c \in Conns, EventArrives(c) \/ ResponseArrives(c)
      PROVE  UNCHANGED <<runnerVars, ssock>>
  BY <1>5 DEF EventArrives, ResponseArrives
<1>6. ASSUME NEW q \in Reqs, ListDevices(q) \/ Forward(q) \/ Timeout(q)
      PROVE  UNCHANGED <<runnerVars, ssock>>
  BY <1>6 DEF ListDevices, Forward, Timeout
<1>7. QED
  BY <1>1, <1>2, <1>3, <1>4, <1>5, <1>6 DEF Backend

\* The runner opens a socket only when it has none, and the backend's end with
\* it.
LEMMA RunnerSockets ==
    ASSUME LinkInv, Runner
    PROVE  /\ OneSocket' /\ Numbered'
           /\ \A d \in Conns : \/ ssock'[d] = ssock[d]
                               \/ csock[d] = "connecting" /\ ssock[d] = "none"
<1>0. /\ csock \in [Conns -> SocketStates] /\ ssock \in [Conns -> SocketStates]
      /\ attempt \in 0..MaxConns /\ ws \in 0..MaxConns /\ OneSocket /\ Numbered
  BY DEF LinkInv, TypeOK
<1> USE <1>0 DEF OneSocket, Numbered, backVars
<1>1. CASE Connect
  BY <1>1, BoundsAssumption DEF Connect, Conns
<1>2. CASE SendEvent
  BY <1>2 DEF SendEvent
<1>3. CASE Stop
  BY <1>3 DEF Stop, Shut, Conns
<1>4. ASSUME NEW c \in Conns, Opened(c)
      PROVE  /\ OneSocket' /\ Numbered'
             /\ \A d \in Conns : \/ ssock'[d] = ssock[d]
                                 \/ csock[d] = "connecting" /\ ssock[d] = "none"
  BY <1>4 DEF Opened
<1>5. ASSUME NEW c \in Conns,
             ReceiveAuthOk(c) \/ ReceiveAuthErr(c) \/ ReceiveShutdown(c) \/ ReceiveRequest(c)
      PROVE  OneSocket' /\ Numbered' /\ UNCHANGED ssock
  BY <1>5 DEF ReceiveAuthOk, ReceiveAuthErr, ReceiveShutdown, ReceiveRequest, Receive, Shut
<1>6. ASSUME NEW c \in Conns, RunnerEndCloses(c)
      PROVE  OneSocket' /\ Numbered' /\ UNCHANGED ssock
  BY <1>6 DEF RunnerEndCloses
<1>7. ASSUME NEW c \in Conns, NEW q \in Reqs, Respond(c, q)
      PROVE  OneSocket' /\ Numbered' /\ UNCHANGED ssock
  BY <1>7 DEF Respond
<1>8. QED
  BY <1>1, <1>2, <1>3, <1>4, <1>5, <1>6, <1>7 DEF Runner

\* Connecting closes the old socket first, so no step makes a second live one.
LEMMA Sockets ==
    ASSUME LinkInv, [Next]_vars
    PROVE  /\ OneSocket' /\ Numbered'
           /\ \A d \in Conns : ssock'[d] \in {"none", "open"} => ssock[d] \in {"none", "open"}
<1>1. CASE Backend
  <2>1. /\ UNCHANGED <<attempt, ws, csock>>
        /\ \A d \in Conns : \/ ssock'[d] = ssock[d]
                            \/ ssock[d] # "none" /\ ssock'[d] \in {"closing", "closed"}
    BY <1>1, BackendSockets DEF LinkInv, runnerVars
  <2>2. OneSocket /\ Numbered
    BY DEF LinkInv
  <2>3. QED
    BY <2>1, <2>2 DEF OneSocket, Numbered
<1>2. CASE Runner
  BY <1>2, RunnerSockets
<1>3. CASE UNCHANGED vars
  BY <1>3 DEF vars, runnerVars, backVars, LinkInv, OneSocket, Numbered
<1>4. QED
  BY <1>1, <1>2, <1>3 DEF Next

-----------------------------------------------------------------------------
(* Refusals. *)

\* What a step may do to the frames on their way to the runner.
DownStep(d) ==
    \/ down'[d] = down[d]
    \/ down'[d] = <<>>
    \/ down[d] # <<>> /\ down'[d] = Tail(down[d])
    \/ /\ ssock[d] = "open"
       /\ \E f \in DownFrames : /\ down'[d] = Append(down[d], f)
                                /\ f.kind = "auth_err" => ssock'[d] = "closing"

\* Sending a frame is such a step, if a refusal comes with the close.
LEMMA SendStep ==
    ASSUME TypeOK, NEW c \in Conns, NEW f \in DownFrames, ToRunner(c, f),
           f.kind = "auth_err" => ssock' = [ssock EXCEPT ![c] = Shut(@)]
    PROVE  \A d \in Conns : DownStep(d)
<1> SUFFICES ASSUME NEW d \in Conns PROVE DownStep(d)
  OBVIOUS
<1>1. CASE d = c /\ ssock[c] = "open"
  <2>1. down'[d] = Append(down[d], f)
    BY <1>1 DEF ToRunner, TypeOK
  <2>2. f.kind = "auth_err" => ssock'[d] = "closing"
    BY <1>1 DEF Shut, TypeOK
  <2>3. QED
    BY <1>1, <2>1, <2>2 DEF DownStep
<1>2. CASE ~(d = c /\ ssock[c] = "open")
  BY <1>2 DEF ToRunner, TypeOK, DownStep
<1>3. QED
  BY <1>1, <1>2

\* Taking a frame is such a step.
LEMMA ReceiveStep ==
    ASSUME TypeOK, NEW c \in Conns, NEW kind, Receive(c, kind)
    PROVE  \A d \in Conns : DownStep(d)
  BY DEF TypeOK, Receive, DownStep

\* So is a step that leaves the wire to the runner alone.
LEMMA QuietStep ==
    ASSUME UNCHANGED down
    PROVE  \A d \in Conns : DownStep(d)
  BY DEF DownStep

\* Every action is such a step.
LEMMA DownSteps ==
    ASSUME TypeOK, [Next]_vars
    PROVE  \A d \in Conns : DownStep(d)
<1>1. CASE Connect \/ SendEvent \/ Stop \/ Restart \/ Revoke \/ UNCHANGED vars
  BY <1>1, QuietStep DEF Connect, SendEvent, Stop, Restart, Revoke, vars
<1>2. ASSUME NEW c \in Conns,
             \/ Opened(c) \/ AuthArrives(c) \/ LookupReads(c) \/ EventArrives(c)
             \/ ResponseArrives(c) \/ BackendEndCloses(c)
             \/ \E q \in Reqs : Respond(c, q)
      PROVE  \A d \in Conns : DownStep(d)
  BY <1>2, QuietStep
  DEF Opened, AuthArrives, LookupReads, EventArrives, ResponseArrives, BackendEndCloses, Respond
<1>3. ASSUME NEW c \in Conns,
             ReceiveAuthOk(c) \/ ReceiveAuthErr(c) \/ ReceiveShutdown(c) \/ ReceiveRequest(c)
      PROVE  \A d \in Conns : DownStep(d)
  BY <1>3, ReceiveStep DEF ReceiveAuthOk, ReceiveAuthErr, ReceiveShutdown, ReceiveRequest
<1>4. ASSUME NEW c \in Conns, RunnerEndCloses(c)
      PROVE  \A d \in Conns : DownStep(d)
  BY <1>4 DEF RunnerEndCloses, DownStep, TypeOK
<1>5. ASSUME NEW c \in Conns, UnexpectedArrives(c) \/ LookupFails(c)
      PROVE  \A d \in Conns : DownStep(d)
  BY <1>5, SendStep, FrameTypes DEF UnexpectedArrives, LookupFails
<1>6. ASSUME NEW c \in Conns, LookupFinds(c)
      PROVE  \A d \in Conns : DownStep(d)
  BY <1>6, SendStep, FrameTypes DEF LookupFinds, Frame
<1>7. CASE Disconnect
  <2>1. CASE entry = 0
    BY <1>7, <2>1, QuietStep DEF Disconnect
  <2>2. CASE entry # 0
    <3>1. entry \in Conns
      BY <2>2 DEF TypeOK, Conns
    <3>2. QED
      BY <1>7, <2>2, <3>1, SendStep, FrameTypes DEF Disconnect, Frame
  <2>3. QED
    BY <2>1, <2>2
<1>8. ASSUME NEW q \in Reqs, ListDevices(q) \/ Timeout(q)
      PROVE  \A d \in Conns : DownStep(d)
  BY <1>8, QuietStep DEF ListDevices, Timeout
<1>9. ASSUME NEW q \in Reqs, Forward(q)
      PROVE  \A d \in Conns : DownStep(d)
  <2>1. CASE entry = 0
    BY <1>9, <2>1, QuietStep DEF Forward
  <2>2. CASE entry # 0
    <3>1. entry \in Conns
      BY <2>2 DEF TypeOK, Conns
    <3>2. QED
      BY <1>9, <2>2, <3>1, SendStep, FrameTypes DEF Forward, Frame
  <2>3. QED
    BY <2>1, <2>2
<1>10. QED
  BY <1>1, <1>2, <1>3, <1>4, <1>5, <1>6, <1>7, <1>8, <1>9 DEF Next, Runner, Backend

\* Hence nothing ever follows a refusal on its wire.
LEMMA RefusalStaysLast ==
    ASSUME LinkInv, [Next]_vars
    PROVE  RefusalIsLast'
<1> SUFFICES ASSUME NEW c \in Conns, NEW i \in 1..Len(down'[c]),
                    down'[c][i].kind = "auth_err"
             PROVE  i = Len(down'[c]) /\ ssock'[c] \notin {"none", "open"}
  BY DEF RefusalIsLast
<1>0. down[c] \in Seq(DownFrames)
  BY DEF LinkInv, TypeOK
<1>1. ssock'[c] \in {"none", "open"} => ssock[c] \in {"none", "open"}
  BY Sockets
<1>2. \A k \in 1..Len(down[c]) : down[c][k].kind = "auth_err" =>
          k = Len(down[c]) /\ ssock[c] \notin {"none", "open"}
  BY DEF LinkInv, RefusalIsLast
<1>3. DownStep(c)
  BY DownSteps DEF LinkInv
<1>4. CASE down'[c] = down[c]
  BY <1>1, <1>2, <1>4
<1>5. CASE down'[c] = <<>>
  BY <1>5
<1>6. CASE down[c] # <<>> /\ down'[c] = Tail(down[c])
  <2>1. /\ Len(down'[c]) = Len(down[c]) - 1
        /\ i + 1 \in 1..Len(down[c]) /\ down'[c][i] = down[c][i + 1]
    BY <1>0, <1>6
  <2>2. QED
    BY <1>0, <1>1, <1>2, <2>1
<1>7. ASSUME ssock[c] = "open", NEW f \in DownFrames, down'[c] = Append(down[c], f),
             f.kind = "auth_err" => ssock'[c] = "closing"
      PROVE  i = Len(down'[c]) /\ ssock'[c] \notin {"none", "open"}
  <2>1. Len(down'[c]) = Len(down[c]) + 1
    BY <1>0, <1>7
  <2>2. i # Len(down'[c]) => i \in 1..Len(down[c]) /\ down'[c][i] = down[c][i]
    BY <1>0, <1>7, <2>1
  <2>3. i = Len(down'[c])
    BY <1>2, <1>7, <2>2
  <2>4. down'[c][i] = f
    BY <1>0, <1>7, <2>1, <2>3
  <2>5. QED
    BY <1>7, <2>3, <2>4
<1>8. QED
  BY <1>3, <1>4, <1>5, <1>6, <1>7 DEF DownStep

\* After a refusal nothing is left on the wire to the runner.
LEMMA RefusalEmpties ==
    ASSUME LinkInv, NEW c \in Conns, ReceiveAuthErr(c)
    PROVE  /\ ~Refuses(down'[c])
           /\ ssock[c] \notin {"none", "open"} /\ UNCHANGED ssock
<1>1. /\ down[c] \in Seq(DownFrames) /\ down[c] # <<>> /\ Head(down[c]).kind = "auth_err"
      /\ down'[c] = Tail(down[c]) /\ UNCHANGED ssock
  BY DEF LinkInv, TypeOK, ReceiveAuthErr, Receive, backVars
<1>2. 1 \in 1..Len(down[c]) /\ down[c][1].kind = "auth_err"
  BY <1>1
<1>3. Len(down[c]) = 1 /\ ssock[c] \notin {"none", "open"}
  BY <1>2 DEF LinkInv, RefusalIsLast
<1>4. Len(down'[c]) = 0
  BY <1>1, <1>3
<1>5. QED
  BY <1>1, <1>3, <1>4 DEF Refuses

\* What a step does to what a runner that gave up looks like.
LEMMA RunnerSteps ==
    ASSUME LinkInv, [Next]_vars, ~\E c \in Conns : ReceiveAuthErr(c)
    PROVE  /\ failures' = failures \/ failures' = 0
           /\ closed => closed' /\ \A d \in Conns : Live(csock'[d]) => Live(csock[d])
<1> USE DEF Live
<1>0. csock \in [Conns -> SocketStates] /\ ws \in 0..MaxConns
  BY DEF LinkInv, TypeOK
<1>1. CASE Backend \/ UNCHANGED vars
  BY <1>1, BackendSockets DEF LinkInv, vars, runnerVars
<1>2. CASE Connect \/ SendEvent
  BY <1>2 DEF Connect, SendEvent
<1>3. CASE Stop
  BY <1>3 DEF Stop
<1>4. ASSUME NEW c \in Conns,
             \/ ReceiveAuthOk(c) \/ ReceiveRequest(c) \/ \E q \in Reqs : Respond(c, q)
      PROVE  (failures' = failures \/ failures' = 0) /\ UNCHANGED <<closed, csock>>
  BY <1>4 DEF ReceiveAuthOk, ReceiveRequest, Respond
<1>5. ASSUME NEW c \in Conns, Opened(c) \/ ReceiveShutdown(c) \/ RunnerEndCloses(c)
      PROVE  /\ UNCHANGED failures /\ (closed => closed')
             /\ \A d \in Conns : Live(csock'[d]) => Live(csock[d])
  <2>1. CASE Opened(c)
    BY <1>0, <2>1 DEF Opened
  <2>2. CASE ReceiveShutdown(c)
    BY <1>0, <2>2 DEF ReceiveShutdown, Receive
  <2>3. CASE RunnerEndCloses(c)
    BY <1>0, <2>3 DEF RunnerEndCloses
  <2>4. QED
    BY <1>5, <2>1, <2>2, <2>3
<1>6. QED
  BY <1>1, <1>2, <1>3, <1>4, <1>5 DEF Next, Runner

\* A runner that gave up stays so, and no refusal can reach it any more.
LEMMA GivingUpLasts ==
    ASSUME LinkInv, [Next]_vars
    PROVE  GaveUp'
<1> SUFFICES ASSUME failures' = MaxAuthFailures
             PROVE  /\ closed'
                    /\ \A d \in Conns : Live(csock'[d]) =>
                          ssock'[d] \notin {"none", "open"} /\ ~Refuses(down'[d])
  BY DEF GaveUp
<1>1. ASSUME NEW c \in Conns, ReceiveAuthErr(c)
      PROVE  /\ closed'
             /\ \A d \in Conns : Live(csock'[d]) =>
                   ssock'[d] \notin {"none", "open"} /\ ~Refuses(down'[d])
  <2>1. closed'
    BY <1>1, BoundsAssumption DEF ReceiveAuthErr, LinkInv, TypeOK
  <2>2. csock[c] \in {"open", "closing"} /\ UNCHANGED <<ws, ssock>>
    BY <1>1 DEF ReceiveAuthErr, Receive, backVars
  <2>3. \A d \in Conns : Live(csock'[d]) => d = c
    <3>1. OneSocket /\ OneSocket'
      BY Sockets DEF LinkInv
    <3>2. QED
      BY <2>2, <3>1 DEF OneSocket, Live
  <2>4. QED
    BY <1>1, <2>1, <2>2, <2>3, RefusalEmpties
<1>2. CASE ~\E c \in Conns : ReceiveAuthErr(c)
  <2>1. failures = MaxAuthFailures
    BY <1>2, RunnerSteps, BoundsAssumption
  <2>2. /\ closed
        /\ \A d \in Conns : Live(csock[d]) =>
              ssock[d] \notin {"none", "open"} /\ ~Refuses(down[d])
    BY <2>1 DEF LinkInv, GaveUp
  <2>3. closed' /\ \A d \in Conns : Live(csock'[d]) => Live(csock[d])
    BY <1>2, <2>2, RunnerSteps
  <2>4. ASSUME NEW d \in Conns, Live(csock'[d])
        PROVE  ssock'[d] \notin {"none", "open"} /\ ~Refuses(down'[d])
    <3>1. ssock[d] \notin {"none", "open"} /\ ~Refuses(down[d])
      BY <2>2, <2>3, <2>4
    <3>2. ssock'[d] \notin {"none", "open"}
      BY <3>1, Sockets
    <3>3. down'[d] \in {down[d], <<>>} \/ (down[d] # <<>> /\ down'[d] = Tail(down[d]))
      BY <3>1, DownSteps DEF DownStep, LinkInv
    <3>4. down[d] \in Seq(DownFrames)
      BY DEF LinkInv, TypeOK
    <3>5. ~Refuses(down'[d])
      <4>1. CASE down'[d] \in {down[d], <<>>}
        BY <3>1, <4>1 DEF Refuses
      <4>2. CASE down[d] # <<>> /\ down'[d] = Tail(down[d])
        <5>1. \A i \in 1..Len(down'[d]) :
                  i + 1 \in 1..Len(down[d]) /\ down'[d][i] = down[d][i + 1]
          BY <3>4, <4>2
        <5>2. QED
          BY <3>1, <5>1 DEF Refuses
      <4>3. QED
        BY <3>3, <4>1, <4>2
    <3>6. QED
      BY <3>2, <3>5
  <2>5. QED
    BY <2>3, <2>4
<1>3. QED
  BY <1>1, <1>2

\* Every step keeps the invariant.
LEMMA NextInv == LinkInv /\ [Next]_vars => LinkInv'
<1> SUFFICES ASSUME LinkInv, [Next]_vars PROVE LinkInv'
  OBVIOUS
<1>1. TypeOK'
  <2>1. CASE Runner
    BY <2>1, TypeRunner
  <2>2. CASE Backend
    BY <2>2, TypeBackend
  <2>3. CASE UNCHANGED vars
    BY <2>3 DEF LinkInv, TypeOK, vars, runnerVars, backVars, hubVars
  <2>4. QED
    BY <2>1, <2>2, <2>3 DEF Next
<1>2. OneSocket' /\ Numbered'
  BY Sockets
<1>3. RefusalIsLast' /\ GaveUp'
  BY RefusalStaysLast, GivingUpLasts
<1>4. QED
  BY <1>1, <1>2, <1>3 DEF LinkInv

\* Always: the types, one live socket, sockets in order, and a refusal is the
\* last frame of its socket.  This is the invariant the others rest on.
THEOREM LinkInvariant == Spec => []LinkInv
  BY InitInv, NextInv, PTL DEF Spec

\* Every variable keeps its type.  In particular the runner never counts more
\* auth failures than its limit (outboundClient.ts, the auth_err branch).
THEOREM TypeCorrect == Spec => []TypeOK
<1>1. LinkInv => TypeOK
  BY DEF LinkInv
<1>2. QED
  BY <1>1, LinkInvariant, PTL

\* The runner never has two live sockets, and ws is the live one
\* (outboundClient.ts, connect and the close listener).
THEOREM OneLiveSocket == Spec => []OneSocket
<1>1. LinkInv => OneSocket
  BY DEF LinkInv
<1>2. QED
  BY <1>1, LinkInvariant, PTL

-----------------------------------------------------------------------------
(* RPCs. *)

\* At first nothing waits.
LEMMA HubInit == Init => WaitingIsHeld
  BY DEF Init, WaitingIsHeld

\* An RPC that was settled keeps its answer.
Keeps == \A q \in Reqs : answer[q] \in Settled => answer'[q] = answer[q]

\* When the entry is replaced or removed nothing waits any longer.
LEMMA RejectStep ==
    ASSUME TypeOK, WaitingIsHeld, entry # 0, RejectAll(entry)
    PROVE  Keeps /\ \A q \in Reqs : answer'[q] # "waiting" /\ pending'[q] = 0
<1> SUFFICES ASSUME NEW q \in Reqs
             PROVE  /\ answer[q] \in Settled => answer'[q] = answer[q]
                    /\ answer'[q] # "waiting" /\ pending'[q] = 0
  BY DEF Keeps
<1>1. /\ answer'[q]  = IF pending[q] = entry THEN "runner_disconnected" ELSE answer[q]
      /\ pending'[q] = IF pending[q] = entry THEN 0 ELSE pending[q]
  BY DEF RejectAll
<1>2. IF answer[q] = "waiting" THEN entry # 0 /\ pending[q] = entry ELSE pending[q] = 0
  BY DEF WaitingIsHeld
<1>3. QED
  BY <1>1, <1>2 DEF Settled

\* Every step keeps what waits in the entry of the device.
LEMMA HubNext ==
    ASSUME TypeOK, WaitingIsHeld, [Next]_vars
    PROVE  WaitingIsHeld' /\ Keeps
<1>0. /\ answer \in [Reqs -> {"unsent", "listed", "waiting"} \cup Settled]
      /\ pending \in [Reqs -> 0..MaxConns]
      /\ \A q \in Reqs : IF answer[q] = "waiting" THEN entry # 0 /\ pending[q] = entry
                                                  ELSE pending[q] = 0
  BY DEF TypeOK, WaitingIsHeld
<1>1. ASSUME UNCHANGED hubVars
      PROVE  WaitingIsHeld' /\ Keeps
  BY <1>1 DEF hubVars, WaitingIsHeld, Keeps
<1>2. CASE Runner \/ UNCHANGED vars
  <2>1. UNCHANGED hubVars
    BY <1>2 DEF Runner, Connect, SendEvent, Stop, Opened, ReceiveAuthOk, ReceiveAuthErr,
       ReceiveShutdown, ReceiveRequest, RunnerEndCloses, Respond, vars, backVars
  <2>2. QED
    BY <1>1, <2>1
<1>3. CASE Restart
  BY <1>0, <1>3 DEF Restart, WaitingIsHeld, Keeps, Settled
<1>4. CASE Revoke \/ Disconnect
  BY <1>1, <1>4 DEF Revoke, Disconnect
<1>5. ASSUME NEW c \in Conns,
             \/ AuthArrives(c) \/ UnexpectedArrives(c) \/ LookupReads(c) \/ LookupFails(c)
             \/ EventArrives(c)
      PROVE  WaitingIsHeld' /\ Keeps
  BY <1>1, <1>5 DEF AuthArrives, UnexpectedArrives, LookupReads, LookupFails, EventArrives
<1>6. ASSUME NEW c \in Conns, LookupFinds(c)
      PROVE  WaitingIsHeld' /\ Keeps
  <2>1. CASE entry = 0
    BY <1>0, <1>6, <2>1 DEF LookupFinds, Attach, WaitingIsHeld, Keeps
  <2>2. CASE entry # 0
    BY <1>6, <2>2, RejectStep DEF LookupFinds, Attach, WaitingIsHeld
  <2>3. QED
    BY <2>1, <2>2
<1>7. ASSUME NEW c \in Conns, BackendEndCloses(c)
      PROVE  WaitingIsHeld' /\ Keeps
  <2>1. CASE entry = c
    BY <1>7, <2>1, RejectStep DEF BackendEndCloses, WaitingIsHeld, Conns
  <2>2. CASE entry # c
    BY <1>1, <1>7, <2>2 DEF BackendEndCloses
  <2>3. QED
    BY <2>1, <2>2
<1>8. ASSUME NEW c \in Conns, ResponseArrives(c)
      PROVE  WaitingIsHeld' /\ Keeps
  <2> DEFINE q == Head(up[c]).of
  <2>1. CASE pending[q] = c
    <3>1. q \in Reqs
      BY <1>8, ArrivesTypes DEF ResponseArrives
    <3>2. answer[q] = "waiting"
      BY <1>0, <2>1, <3>1 DEF Conns
    <3>3. /\ answer' = [answer EXCEPT ![q] = "ok"] /\ pending' = [pending EXCEPT ![q] = 0]
          /\ UNCHANGED entry
      BY <1>8, <2>1 DEF ResponseArrives
    <3> HIDE DEF q
    <3>4. QED
      BY <1>0, <3>1, <3>2, <3>3 DEF WaitingIsHeld, Keeps, Settled
  <2>2. CASE pending[q] # c
    BY <1>1, <1>8, <2>2 DEF ResponseArrives, hubVars
  <2>3. QED
    BY <2>1, <2>2
<1>9. ASSUME NEW q \in Reqs, ListDevices(q) \/ Forward(q) \/ Timeout(q)
      PROVE  WaitingIsHeld' /\ Keeps
  <2>1. CASE ListDevices(q)
    BY <1>0, <2>1 DEF ListDevices, WaitingIsHeld, Keeps, Settled
  <2>2. CASE Forward(q)
    BY <1>0, <2>2 DEF Forward, WaitingIsHeld, Keeps, Settled
  <2>3. CASE Timeout(q)
    BY <1>0, <2>3 DEF Timeout, WaitingIsHeld, Keeps, Settled
  <2>4. QED
    BY <1>9, <2>1, <2>2, <2>3
<1>10. QED
  BY <1>2, <1>3, <1>4, <1>5, <1>6, <1>7, <1>8, <1>9 DEF Next, Backend

\* An RPC waits exactly as long as the hub's present entry holds it: one that
\* was replaced, closed or lost leaves none behind (deviceHub.ts, attach and the
\* close listener).
THEOREM WaitingIsAlwaysHeld == Spec => []WaitingIsHeld
<1>1. TypeOK /\ WaitingIsHeld /\ [Next]_vars => WaitingIsHeld'
  BY HubNext
<1>2. QED
  BY <1>1, HubInit, TypeCorrect, PTL DEF Spec

\* No RPC is settled twice: not by a late response, a late timer or a
\* disconnect (deviceHub.ts, onMessage, sendRpc and rejectAll).
THEOREM SettledAtMostOnce == Spec => SettledOnce
<1>1. TypeOK /\ WaitingIsHeld /\ [Next]_vars =>
          [\A q \in Reqs : answer[q] \in Settled => answer'[q] = answer[q]]_vars
  BY HubNext DEF Keeps
<1>2. QED
  BY <1>1, WaitingIsAlwaysHeld, TypeCorrect, PTL DEF Spec, SettledOnce
-----------------------------------------------------------------------------
(***************************************************************************)
(* Proofs about Onboarding, for any users, claims, attempts and polls, in  *)
(* and out of production.                                                  *)
(*                                                                         *)
(* The user who paired the runner is a user of its device from the moment  *)
(* the runner has a token, is among the users that are read when the       *)
(* runner signs in, and so among those its events are passed on to.  What  *)
(* keeps it so is that the owner of a runner with a token never changes:   *)
(* a claim it registers names its device (ClaimsInv), so that its approval *)
(* is an authorization, which replaces nobody.                             *)
(***************************************************************************)
Statuses == {"none", "pending", "old", "approved", "authorized"}
Entries == [status : Statuses, known : BOOLEAN, by : Users \cup {NoUser}]
Runners == [at : {"down", "up", "named", "on"}, token : BOOLEAN,
            mine : Claims \cup {NoClaim}, read : SUBSET (Users \cup {NoUser})]

DeviceTypeOK ==
    /\ session \in Users \cup {NoUser}
    /\ members \subseteq Users \cup {NoUser}
    /\ audience \subseteq Users \cup {NoUser}
    /\ claim \in [Claims -> Entries]
    /\ runner \in Runners

\* A claim names the device exactly if its runner had a token when it registered
\* it, and that has not changed while the runner waits for it.
ClaimsInv ==
    /\ \A c \in Claims :
         /\ claim[c].status = "approved" => ~claim[c].known
         /\ claim[c].status = "authorized" => claim[c].known
    /\ runner.at = "down" => runner.mine = NoClaim
    /\ runner.mine # NoClaim /\ claim[runner.mine].status # "none"
         => claim[runner.mine].known = runner.token

\* Where the owner is found, step by step.
OwnerInv ==
    /\ runner.token => owner \in members \cup deleted
    /\ runner.at \in {"named", "on"} => runner.token
    /\ runner.at = "named" => owner \in runner.read \cup deleted
    /\ runner.at = "on" => owner \in audience \cup deleted

HearInv == DeviceTypeOK /\ ClaimsInv /\ OwnerInv

LEMMA InitHears == Board!Init => HearInv
BY DEF Board!Init, HearInv, DeviceTypeOK, ClaimsInv, OwnerInv, Board!Unclaimed,
   Entries, Statuses, Runners

-----------------------------------------------------------------------------
(* One lemma for each kind of step. *)

\* What the page does leaves the device, and a deleted account is no owner to be
\* told of.
LEMMA PageStep ==
    ASSUME HearInv, session' \in Users \cup {NoUser}, deleted \subseteq deleted',
           members \subseteq members' \cup deleted', members' \subseteq members,
           UNCHANGED <<claim, audience, runner, owner>>
    PROVE  HearInv'
<1>1. DeviceTypeOK' /\ ClaimsInv'
  BY DEF HearInv, DeviceTypeOK, ClaimsInv
<1>2. OwnerInv'
  BY DEF HearInv, OwnerInv
<1>3. QED
  BY <1>1, <1>2 DEF HearInv

LEMMA PageActsKeep ==
    ASSUME HearInv, Board!PageActs
    PROVE  HearInv'
<1>1. /\ session' \in Users \cup {NoUser} /\ deleted \subseteq deleted'
      /\ members \subseteq members' \cup deleted' /\ members' \subseteq members
      /\ UNCHANGED <<claim, audience, runner, owner>>
  BY DEF HearInv, DeviceTypeOK, Board!PageActs, Board!ServeBoot, Board!Booted,
     Board!Retry, Board!Connects, Board!Disconnects, Board!Logout, Board!DeleteAccount,
     Board!Elsewhere, Board!Step, Board!SignIn, Board!Connect, Board!Tick, Board!Ask,
     Board!Hear, Board!Poll, Board!Deadline, Board!account, Board!device
<1>2. QED
  BY <1>1, PageStep

\* An approval adds a user of the device, or none.
LEMMA ApproveKeeps ==
    ASSUME HearInv, NEW t \in Tries, Board!Approve(t)
    PROVE  HearInv'
<1>1. UNCHANGED <<session, deleted, audience, runner, owner>>
  BY DEF Board!Approve, Board!account
<1>2. CASE members' \in {members, members \cup {session}} /\ UNCHANGED claim
  <2>1. DeviceTypeOK' /\ ClaimsInv'
    BY <1>1, <1>2 DEF HearInv, DeviceTypeOK, ClaimsInv
  <2>2. OwnerInv'
    BY <1>1, <1>2 DEF HearInv, OwnerInv
  <2>3. QED
    BY <2>1, <2>2 DEF HearInv
<1>3. ASSUME NEW c, Board!ApproveEntry(t, c), Board!Pending(c)
      PROVE  HearInv'
  <2> DEFINE result == IF claim[c].known THEN "authorized" ELSE "approved"
             written == [claim[c] EXCEPT !.status = result, !.by = session]
  <2>1. /\ claim' = [claim EXCEPT ![c] = written]
        /\ members' \in {members, members \cup {session}}
    BY <1>3 DEF Board!ApproveEntry
  <2>2. c \in Claims => /\ written \in Entries /\ written.known = claim[c].known
                        /\ claim[c].status # "none"
                        /\ written.status = "approved" => ~written.known
                        /\ written.status = "authorized" => written.known
    BY <1>3 DEF HearInv, DeviceTypeOK, Entries, Statuses, Board!Pending
  <2> HIDE DEF written
  <2>3. claim' \in [Claims -> Entries]
    BY <2>1, <2>2 DEF HearInv, DeviceTypeOK
  <2>4. \A d \in Claims : \/ claim'[d] = claim[d]
                          \/ d = c /\ claim'[d] = written
    BY <2>1 DEF HearInv, DeviceTypeOK
  <2>5. runner.mine \in Claims \cup {NoClaim}
    BY DEF HearInv, DeviceTypeOK, Runners
  <2>6. DeviceTypeOK'
    BY <1>1, <2>1, <2>3 DEF HearInv, DeviceTypeOK
  <2>7. ClaimsInv'
    BY <1>1, <2>2, <2>4, <2>5 DEF HearInv, ClaimsInv
  <2>8. OwnerInv'
    BY <1>1, <2>1 DEF HearInv, OwnerInv
  <2>9. QED
    BY <2>6, <2>7, <2>8 DEF HearInv
<1>4. QED
  BY <1>2, <1>3 DEF Board!Approve, Board!Says, Board!Fallback, Board!Matching,
     Board!Pending

\* A claim that ages, or is gone, says no less of the device than it did.
LEMMA TimeKeeps ==
    ASSUME HearInv, NEW c \in Claims, Board!Age(c) \/ Board!Expire(c)
    PROVE  HearInv'
<1>1. UNCHANGED <<Board!account, members, audience, runner, owner>>
  BY DEF Board!Age, Board!Expire
<1>2. PICK written \in Entries :
        /\ claim' = [claim EXCEPT ![c] = written]
        /\ claim[c].status # "none" /\ written.status \in {"old", "none"}
        /\ written.status # "none" => written.known = claim[c].known
  <2>1. CASE Board!Age(c)
    <3> DEFINE aged == [claim[c] EXCEPT !.status = "old"]
    <3>1. /\ claim' = [claim EXCEPT ![c] = aged] /\ claim[c].status # "none"
          /\ aged \in Entries /\ aged.status = "old" /\ aged.known = claim[c].known
      BY <2>1 DEF Board!Age, HearInv, DeviceTypeOK, Entries, Statuses
    <3> HIDE DEF aged
    <3>2. QED
      BY <3>1
  <2>2. CASE Board!Expire(c)
    <3>1. Board!Unclaimed \in Entries /\ Board!Unclaimed.status = "none"
      BY DEF Board!Unclaimed, Entries, Statuses
    <3>2. claim' = [claim EXCEPT ![c] = Board!Unclaimed] /\ claim[c].status # "none"
      BY <2>2 DEF Board!Expire
    <3>3. QED
      BY <3>1, <3>2
  <2>3. QED
    BY <2>1, <2>2
<1>3. \A d \in Claims : claim'[d] = IF d = c THEN written ELSE claim[d]
  BY <1>2 DEF HearInv, DeviceTypeOK
<1>4. DeviceTypeOK'
  BY <1>1, <1>2 DEF HearInv, DeviceTypeOK, Board!account
<1>5. ClaimsInv'
  <2>1. runner.mine \in Claims \cup {NoClaim}
    BY DEF HearInv, DeviceTypeOK, Runners
  <2>2. QED
    BY <1>1, <1>2, <1>3, <2>1 DEF HearInv, ClaimsInv
<1>6. OwnerInv'
  BY <1>1 DEF HearInv, OwnerInv, Board!account
<1>7. QED
  BY <1>4, <1>5, <1>6 DEF HearInv

\* The claim a runner registers names the device if the runner has a token.
LEMMA StartKeeps ==
    ASSUME HearInv, NEW c \in Claims, Board!Start(c)
    PROVE  HearInv'
<1> DEFINE written == [status |-> "pending", known |-> runner.token, by |-> NoUser]
<1>1. /\ UNCHANGED <<session, deleted, members, audience, owner>>
      /\ claim' = [claim EXCEPT ![c] = written]
      /\ runner' = [runner EXCEPT !.at = "up", !.mine = c]
  BY DEF Board!Start, Board!account
<1>2. written \in Entries /\ written.known = runner.token /\ written.status = "pending"
  BY DEF HearInv, DeviceTypeOK, Runners, Entries, Statuses
<1>3. /\ runner' \in Runners
      /\ runner'.at = "up" /\ runner'.mine = c /\ runner'.token = runner.token
  BY <1>1 DEF HearInv, DeviceTypeOK, Runners
<1> HIDE DEF written
<1>4. \A d \in Claims : claim'[d] = IF d = c THEN written ELSE claim[d]
  BY <1>1 DEF HearInv, DeviceTypeOK
<1>5. DeviceTypeOK'
  BY <1>1, <1>2, <1>3 DEF HearInv, DeviceTypeOK
<1>6. ClaimsInv' /\ OwnerInv'
  BY <1>1, <1>2, <1>3, <1>4 DEF HearInv, ClaimsInv, OwnerInv
<1>7. QED
  BY <1>5, <1>6 DEF HearInv

\* A first approval makes its user the owner of a runner that had no token and
\* is not connected yet.
LEMMA TakeKeeps ==
    ASSUME HearInv, Board!Take
    PROVE  HearInv'
<1> DEFINE c == runner.mine
<1>1. /\ c # NoClaim /\ claim[c].status \in {"approved", "authorized"}
      /\ claim' = [claim EXCEPT ![c] = Board!Unclaimed]
      /\ runner' = [runner EXCEPT !.mine = NoClaim, !.token = TRUE]
      /\ UNCHANGED <<session, deleted, audience>>
  BY DEF Board!Take, Board!account
<1>2. c \in Claims /\ claim[c] \in Entries /\ claim[c].known = runner.token
  BY <1>1 DEF HearInv, DeviceTypeOK, Runners, ClaimsInv
<1>3. /\ runner' \in Runners /\ runner'.mine = NoClaim /\ runner'.token = TRUE
      /\ runner'.at = runner.at /\ runner'.read = runner.read
  BY <1>1 DEF HearInv, DeviceTypeOK, Runners
<1>4. Board!Unclaimed \in Entries /\ Board!Unclaimed.status = "none"
  BY DEF Board!Unclaimed, Entries, Statuses
<1>5. \A d \in Claims : claim'[d] = IF d = c THEN Board!Unclaimed ELSE claim[d]
  BY <1>1 DEF HearInv, DeviceTypeOK
<1>6. claim' \in [Claims -> Entries]
  BY <1>1, <1>4 DEF HearInv, DeviceTypeOK
<1>7. ClaimsInv'
  BY <1>3, <1>4, <1>5 DEF HearInv, ClaimsInv
<1>8. CASE claim[c].status = "approved"
  <2>1. members' = {claim[c].by} \ deleted /\ owner' = claim[c].by
    BY <1>8 DEF Board!Take
  <2>2. claim[c].by \in Users \cup {NoUser}
    BY <1>2 DEF Entries
  <2>3. ~runner.token
    BY <1>2, <1>8 DEF HearInv, ClaimsInv
  <2>4. DeviceTypeOK' /\ OwnerInv'
    BY <1>1, <1>3, <1>6, <2>1, <2>2, <2>3 DEF HearInv, DeviceTypeOK, OwnerInv
  <2>5. QED
    BY <1>7, <2>4 DEF HearInv
<1>9. CASE claim[c].status = "authorized"
  <2>1. UNCHANGED <<members, owner>>
    BY <1>9 DEF Board!Take
  <2>2. DeviceTypeOK'
    BY <1>1, <1>3, <1>6, <2>1 DEF HearInv, DeviceTypeOK
  <2>3. runner.token
    BY <1>2, <1>9 DEF HearInv, ClaimsInv
  <2>4. OwnerInv'
    BY <1>1, <1>3, <2>1, <2>3 DEF HearInv, OwnerInv
  <2>5. QED
    BY <1>7, <2>2, <2>4 DEF HearInv
<1>10. QED
  BY <1>1, <1>8, <1>9


\* What a runner reads when it signs in, and is attached with, has the owner.
LEMMA LinkKeeps ==
    ASSUME HearInv,
    Board!NothingToTake \/ Board!Authenticate \/ Board!Attach \/ Board!LinkLost \/ Board!Crash
    PROVE  HearInv'
<1>1. UNCHANGED <<session, deleted, members, claim, owner>>
  BY DEF Board!NothingToTake, Board!Authenticate, Board!Attach, Board!LinkLost,
     Board!Crash, Board!account
<1>2. /\ runner' \in Runners /\ runner'.token = runner.token
      /\ runner'.mine \in {runner.mine, NoClaim}
      /\ runner'.at = "down" => runner'.mine = NoClaim
  BY DEF HearInv, DeviceTypeOK, Runners, ClaimsInv, Board!NothingToTake,
     Board!Authenticate, Board!Attach, Board!LinkLost, Board!Crash, Board!Down
<1>3. DeviceTypeOK'
  BY <1>1, <1>2 DEF HearInv, DeviceTypeOK, Runners, Board!NothingToTake,
     Board!Authenticate, Board!Attach, Board!LinkLost, Board!Crash
<1>4. ClaimsInv'
  BY <1>1, <1>2 DEF HearInv, ClaimsInv
<1>5. \/ runner'.at \in {"down", "up"}
      \/ UNCHANGED audience /\ runner'.at = runner.at /\ runner'.read = runner.read
      \/ runner.token /\ runner'.at = "named" /\ runner'.read = members
      \/ runner.at = "named" /\ runner'.at = "on" /\ audience' = runner.read
  BY DEF HearInv, DeviceTypeOK, Runners, Board!NothingToTake, Board!Authenticate,
     Board!Attach, Board!LinkLost, Board!Crash, Board!Down
<1>6. OwnerInv'
  BY <1>1, <1>2, <1>5 DEF HearInv, OwnerInv
<1>7. QED
  BY <1>3, <1>4, <1>6 DEF HearInv

LEMMA HearStep == HearInv /\ [Board!Next]_Board!vars => HearInv'
<1> SUFFICES ASSUME HearInv, [Board!Next]_Board!vars PROVE HearInv'
  OBVIOUS
<1>1. CASE Board!PageActs
  BY <1>1, PageActsKeep
<1>2. CASE Board!BackendActs
  BY <1>2, ApproveKeeps, TimeKeeps DEF Board!BackendActs
<1>3. CASE Board!RunnerActs
  BY <1>3, StartKeeps, TakeKeeps, LinkKeeps DEF Board!RunnerActs
<1>4. CASE UNCHANGED Board!vars
  BY <1>4, PageStep DEF Board!vars, Board!account, Board!device, HearInv, DeviceTypeOK
<1>5. QED
  BY <1>1, <1>2, <1>3, <1>4 DEF Board!Next

\* Whatever the dialog, the clock and the runner do, the owner stays known.
THEOREM OwnerIsKnown == Board!Spec => []HearInv
BY InitHears, HearStep, PTL DEF Board!Spec

\* The backend passes what a connected runner says on to the user who paired it,
\* unless the account was deleted, after any restarts, sign-ins and approvals of
\* other users (approveEntry, findByTokenHash, deviceHub.attach).
THEOREM PairedUserIsTold == Board!Spec => []PairedUserHears
<1>1. HearInv => PairedUserHears
  BY DEF HearInv, OwnerInv, PairedUserHears, Board!PairedUserHears
<1>2. QED
  BY <1>1, OwnerIsKnown, PTL
=============================================================================
