------------------------- MODULE BrowserFeedProofs -------------------------
(***************************************************************************)
(* What TLAPS proves of a page and its feed, for any number of sockets and *)
(* retries: the hub of the page has one activity and one live socket, and  *)
(* the adapter of the backend subscribes exactly while somebody listens    *)
(* and takes the events from nobody.                                       *)
(***************************************************************************)
EXTENDS BrowserFeed, SequenceTheorems, TLAPS

-----------------------------------------------------------------------------
(* The page. *)

\* A page that waits to reconnect waits for its timer.
WaitsForTimer == state = "reconnecting" => timers = 1

\* A disposed hub has nothing left but a probe whose answer it ignores.
DisposedIsQuiet == disposed => socket = NoOwn /\ timers = 0 /\ state = "closed"

HubInv ==
    /\ HubTypeOK
    /\ OneActivity
    /\ OneConnection
    /\ WaitsForTimer
    /\ DisposedIsQuiet

\* A new page is idle.
LEMMA HubInitInv == HubInit => HubInv
<1> SUFFICES ASSUME HubInit PROVE HubInv
  OBVIOUS
<1>1. HubTypeOK
  <2>1. disposed \in BOOLEAN
    BY Zenon DEF HubInit
  <2>2. client \in [Own -> {"none", "connecting", "open", "closed"}]
    BY DEF HubInit
  <2>3. QED
    BY <2>1, <2>2, AttemptsAssumption DEF HubInit, HubTypeOK, HubStates
<1>2. Activities = 0
  BY DEF HubInit, Activities
<1>3. OneActivity /\ WaitsForTimer
  BY <1>2 DEF HubInit, OneActivity, WaitsForTimer
<1>4. OneConnection /\ DisposedIsQuiet
  BY DEF HubInit, OneConnection, DisposedIsQuiet
<1>5. QED
  BY <1>1, <1>3, <1>4 DEF HubInv

\* connect() starts from a state without a thread or with a timer it cancels.
LEMMA ConnectKeeps == HubInv /\ ConnectCall => HubInv'
<1> SUFFICES ASSUME HubInv, ConnectCall PROVE HubInv'
  OBVIOUS
<1> USE OwnAssumption, AttemptsAssumption DEF HubInv, HubTypeOK
<1>1. socket = NoOwn /\ probes = 0 /\ reprobes = 0
  BY DEF ConnectCall, OneActivity, WaitsForTimer, Activities, Ended, HubStates
<1>2. timers' = 0 /\ socket' = NoOwn /\ client' = client
  BY <1>1 DEF ConnectCall, ClearTimer, CloseSocket
<1>3. HubTypeOK'
  BY <1>1, <1>2 DEF ConnectCall, HubStates
<1>4. OneActivity' /\ WaitsForTimer' /\ DisposedIsQuiet'
  BY <1>1, <1>2 DEF ConnectCall, OneActivity, WaitsForTimer, DisposedIsQuiet,
                    Activities, Ended
<1>5. OneConnection'
  BY <1>1, <1>2 DEF OneConnection
<1>6. QED
  BY <1>3, <1>4, <1>5

\* dispose() cancels the timer and closes the socket.
LEMMA DisposeKeeps == HubInv /\ Dispose => HubInv'
<1> SUFFICES ASSUME HubInv, Dispose PROVE HubInv'
  OBVIOUS
<1> USE OwnAssumption, AttemptsAssumption DEF HubInv, HubTypeOK
<1>1. timers' = 0 /\ socket' = NoOwn
  BY DEF Dispose, ClearTimer, CloseSocket
<1>2. HubTypeOK'
  BY <1>1 DEF Dispose, CloseSocket, HubStates
<1>3. OneActivity' /\ WaitsForTimer' /\ DisposedIsQuiet'
  BY <1>1 DEF Dispose, OneActivity, WaitsForTimer, DisposedIsQuiet, Activities, Ended
<1>4. OneConnection'
  BY <1>1 DEF Dispose, CloseSocket, OneConnection
<1>5. QED
  BY <1>2, <1>3, <1>4

\* The answer of a probe ends the thread, arms a timer or opens a socket.
LEMMA ProbeKeeps == HubInv /\ ProbeAnswers => HubInv'
<1> SUFFICES ASSUME HubInv, ProbeAnswers PROVE HubInv'
  OBVIOUS
<1> USE OwnAssumption, AttemptsAssumption DEF HubInv, HubTypeOK
<1>1. /\ probes = 1 /\ reprobes = 0 /\ timers = 0 /\ socket = NoOwn
      /\ probes' = 0 /\ UNCHANGED <<reprobes, disposed>>
  BY DEF ProbeAnswers, OneActivity, Activities
<1> USE DEF OneActivity, OneConnection, WaitsForTimer, DisposedIsQuiet, Activities,
            Ended, HubStates
<1>2. CASE UNCHANGED <<state, attempts, timers, socket, client>> /\ disposed
  BY <1>1, <1>2
<1>3. CASE state' = "auth_expired" /\ UNCHANGED <<attempts, timers, socket, client>>
           /\ ~disposed
  BY <1>1, <1>3
<1>4. CASE ScheduleRetry /\ UNCHANGED <<socket, client>> /\ ~disposed
  BY <1>1, <1>4 DEF ScheduleRetry
<1>5. ASSUME NEW s \in Own, ~disposed, client[s] = "none", socket' = s,
             client' = [client EXCEPT ![s] = "connecting"],
             state' = "connecting", UNCHANGED <<attempts, timers>>
      PROVE  HubInv'
  BY <1>1, <1>5
<1>6. QED
  BY <1>2, <1>3, <1>4, <1>5 DEF ProbeAnswers

\* So does the answer of a probe after a close, without opening a socket.
LEMMA ReprobeKeeps == HubInv /\ ReprobeAnswers => HubInv'
<1> SUFFICES ASSUME HubInv, ReprobeAnswers PROVE HubInv'
  OBVIOUS
<1> USE OwnAssumption, AttemptsAssumption DEF HubInv, HubTypeOK
<1>1. /\ reprobes = 1 /\ probes = 0 /\ timers = 0 /\ socket = NoOwn
      /\ reprobes' = 0 /\ UNCHANGED <<socket, probes, disposed, client>>
  BY DEF ReprobeAnswers, OneActivity, Activities
<1> USE DEF OneActivity, OneConnection, WaitsForTimer, DisposedIsQuiet, Activities,
            Ended, HubStates
<1>2. CASE UNCHANGED <<state, attempts, timers>> /\ disposed
  BY <1>1, <1>2
<1>3. CASE state' = "auth_expired" /\ UNCHANGED <<attempts, timers>> /\ ~disposed
  BY <1>1, <1>3
<1>4. CASE ScheduleRetry /\ ~disposed
  BY <1>1, <1>4 DEF ScheduleRetry
<1>5. QED
  BY <1>2, <1>3, <1>4 DEF ReprobeAnswers

\* The timer hands over to a probe.
LEMMA TimerKeeps == HubInv /\ TimerFires => HubInv'
<1> SUFFICES ASSUME HubInv, TimerFires PROVE HubInv'
  OBVIOUS
<1> USE OwnAssumption, AttemptsAssumption DEF HubInv, HubTypeOK
<1>1. ~disposed /\ timers = 1 /\ probes = 0 /\ reprobes = 0 /\ socket = NoOwn
  BY DEF TimerFires, OneActivity, Activities, DisposedIsQuiet
<1>2. QED
  BY <1>1 DEF TimerFires, OneActivity, OneConnection, WaitsForTimer,
              DisposedIsQuiet, Activities, Ended, HubStates

\* A socket opens or ends; only the current one moves the state.
LEMMA SocketKeeps ==
    ASSUME HubInv, NEW s \in Own, Opens(s) \/ Ends(s)
    PROVE  HubInv'
<1> USE OwnAssumption, AttemptsAssumption DEF HubInv, HubTypeOK
<1>1. /\ socket = s /\ ~disposed
      /\ probes = 0 /\ reprobes = 0 /\ timers = 0
  BY DEF Opens, Ends, OneConnection, OneActivity, Activities, DisposedIsQuiet
<1> USE DEF OneActivity, OneConnection, WaitsForTimer, DisposedIsQuiet, Activities,
            Ended, HubStates
<1>2. CASE Opens(s)
  BY <1>1, <1>2 DEF Opens
<1>3. CASE Ends(s)
  <2>1. /\ socket' = NoOwn /\ UNCHANGED <<attempts, timers, probes, disposed>>
        /\ client' = [client EXCEPT ![s] = "closed"]
        /\ \/ state' = "closed" /\ UNCHANGED reprobes
           \/ reprobes' = reprobes + 1 /\ UNCHANGED state
    BY <1>1, <1>3 DEF Ends
  <2>2. HubTypeOK' /\ OneConnection'
    BY <1>1, <2>1
  <2>3. state # "reconnecting"
    BY <1>1
  <2>4. OneActivity' /\ WaitsForTimer' /\ DisposedIsQuiet'
    BY <1>1, <2>1, <2>3
  <2>5. QED
    BY <2>2, <2>4
<1>4. QED
  BY <1>2, <1>3

\* A step that leaves the page alone.
LEMMA HubStutter == HubInv /\ UNCHANGED hubVars => HubInv'
  BY DEF HubInv, hubVars, HubTypeOK, OneActivity, OneConnection, WaitsForTimer,
         DisposedIsQuiet, Activities

\* The page's invariant holds in every behaviour.
THEOREM PageInvariant == Spec => []HubInv
<1>1. Init => HubInv
  BY HubInitInv DEF Init
<1>2. HubInv /\ [Next]_vars => HubInv'
  <2> SUFFICES ASSUME HubInv, [Next]_vars PROVE HubInv'
    OBVIOUS
  <2>1. CASE HubNext
    BY <2>1, ConnectKeeps, DisposeKeeps, ProbeKeeps, ReprobeKeeps, TimerKeeps,
       SocketKeeps DEF HubNext
  <2>2. CASE FeedNext /\ UNCHANGED hubVars
    BY <2>2, HubStutter
  <2>3. CASE \E s \in Sockets : Upgrade(s)
    BY <2>3, HubStutter DEF Upgrade
  <2>4. CASE \E s \in Own : PageOpens(s)
    BY <2>4, SocketKeeps DEF PageOpens
  <2>5. CASE UNCHANGED vars
    BY <2>5, HubStutter DEF vars
  <2>6. QED
    BY <2>1, <2>2, <2>3, <2>4, <2>5 DEF Next
<1>3. QED
  BY <1>1, <1>2, PTL DEF Spec

\* The page never has two probes, timers or sockets under way, and never none
\* when it promises progress (socketHub.ts, connect, _probe, _scheduleRetry and
\* onclose).
THEOREM OneThread == Spec => []OneActivity
<1>1. HubInv => OneActivity
  BY DEF HubInv
<1>2. QED
  BY <1>1, PageInvariant, PTL

\* The page has no live socket but the current one (socketHub.ts, connect and
\* _openSocket).
THEOREM OneLiveConnection == Spec => []OneConnection
<1>1. HubInv => OneConnection
  BY DEF HubInv
<1>2. QED
  BY <1>1, PageInvariant, PTL

-----------------------------------------------------------------------------
(* The feed. *)

FeedInv == FeedTypeOK /\ MapFollowsRedis

\* The last command still to be answered is a subscribe.
EndsWithSubscribe(q) == q[Len(q)].kind = "subscribe"

\* Appending puts a command last; taking the first leaves the last, if any.
LEMMA LastCommand ==
    ASSUME NEW q \in Seq(Commands), NEW c \in Commands
    PROVE  /\ Append(q, c) \in Seq(Commands) /\ Append(q, c) # <<>>
           /\ EndsWithSubscribe(Append(q, c)) <=> c.kind = "subscribe"
           /\ q # <<>> => /\ Tail(q) \in Seq(Commands) /\ Head(q) \in Commands
                          /\ IF Tail(q) = <<>>
                             THEN EndsWithSubscribe(q) <=> Head(q).kind = "subscribe"
                             ELSE EndsWithSubscribe(q) <=> EndsWithSubscribe(Tail(q))
<1>1. Append(q, c) \in Seq(Commands) /\ Append(q, c) # <<>>
  BY AppendProperties
<1>2. Append(q, c)[Len(Append(q, c))] = c
  OBVIOUS
<1>3. ASSUME q # <<>>
      PROVE  /\ Tail(q) \in Seq(Commands) /\ Head(q) \in Commands
             /\ IF Tail(q) = <<>> THEN q[Len(q)] = Head(q)
                                  ELSE q[Len(q)] = Tail(q)[Len(Tail(q))]
  <2>1. Tail(q) \in Seq(Commands) /\ Head(q) \in Commands
    BY <1>3
  <2>2. Len(q) \in Nat \ {0} /\ Len(Tail(q)) = Len(q) - 1
    BY <1>3
  <2>3. CASE Tail(q) = <<>>
    BY <2>1, <2>2, <2>3
  <2>4. CASE Tail(q) # <<>>
    <3>1. Len(Tail(q)) \in Nat \ {0}
      BY <2>1, <2>4, EmptySeq, LenProperties
    <3>2. Tail(q)[Len(Tail(q))] = q[Len(q)]
      BY <1>3, <2>2, <3>1
    <3>3. QED
      BY <2>1, <2>4, <3>2
  <2>5. QED
    BY <2>3, <2>4
<1>4. QED
  BY <1>1, <1>2, <1>3 DEF EndsWithSubscribe

\* At first there is no Set and no subscription.
LEMMA FeedInitInv == FeedInit => FeedInv
<1> SUFFICES ASSUME FeedInit PROVE FeedInv
  OBVIOUS
<1>1. subscribed \in BOOLEAN /\ refused \in BOOLEAN
  BY Zenon DEF FeedInit
<1>2. /\ server  \in [Sockets -> {"none", "open", "closing", "closed"}]
      /\ sub     \in [Sockets -> {"none", "waiting", "settled", "failed"}]
      /\ members \in [Sockets -> SUBSET Sockets]
  BY DEF FeedInit
<1>3. commands \in Seq(Commands)
  BY EmptySeq DEF FeedInit
<1>4. FeedTypeOK
  BY <1>1, <1>2, <1>3 DEF FeedInit, FeedTypeOK
<1>5. ~subscribed /\ commands = <<>> /\ channel = NoSocket
  BY DEF FeedInit
<1>6. MapFollowsRedis
  BY <1>5 DEF MapFollowsRedis, WillDeliver
<1>7. QED
  BY <1>4, <1>6 DEF FeedInv

\* Leaving drops the Set and unsubscribes together, or does neither; it takes
\* the Set from nobody who is in it.
LEMMA LeaveStep ==
    ASSUME FeedTypeOK, NEW s \in Sockets, Leave(s)
    PROVE  /\ channel' \in Sockets \cup {NoSocket}
           /\ members' \in [Sockets -> SUBSET Sockets]
           /\ commands' \in Seq(Commands)
           /\ \/ /\ channel' = NoSocket /\ commands' # <<>>
                 /\ ~EndsWithSubscribe(commands')
                 /\ channel # NoSocket => members[channel] \subseteq {s}
              \/ /\ UNCHANGED <<channel, commands>>
                 /\ \A t \in Sockets \ {s} : channel # NoSocket /\ t \in members[channel]
                                              => t \in members'[channel]
<1> USE DEF FeedTypeOK
<1>1. CASE channel = NoSocket
  BY <1>1 DEF Leave
<1>2. CASE channel # NoSocket /\ members[channel] \subseteq {s}
  <2> DEFINE u == [kind |-> "unsubscribe", by |-> s]
  <2>1. u \in Commands /\ u.kind # "subscribe"
    BY DEF Commands
  <2>2. commands' = Append(commands, u) /\ channel' = NoSocket
    BY <1>2 DEF Leave, Send
  <2>3. commands' \in Seq(Commands) /\ commands' # <<>> /\ ~EndsWithSubscribe(commands')
    BY <2>1, <2>2, LastCommand
  <2>4. members' \in [Sockets -> SUBSET Sockets]
    BY <1>2 DEF Leave
  <2>5. QED
    BY <1>2, <2>2, <2>3, <2>4
<1>3. CASE channel # NoSocket /\ ~(members[channel] \subseteq {s})
  BY <1>3 DEF Leave
<1>4. QED
  BY <1>1, <1>2, <1>3

\* A socket that is fed and stays open while redis refuses nothing.
KeepsFeeding ==
    \A s \in Sockets : ~refused' /\ Fed(s) /\ server'[s] = "open" => Fed(s)'

\* A socket joins the Set of the map, or makes one and subscribes.
LEMMA AcceptStep ==
    ASSUME FeedInv, NEW s \in Sockets, Accept(s)
    PROVE  FeedInv' /\ KeepsFeeding
<1> USE SocketsAssumption DEF FeedInv, FeedTypeOK
<1>1. CASE channel = NoSocket
  <2> DEFINE c == [kind |-> "subscribe", by |-> s]
  <2>1. c \in Commands /\ c.kind = "subscribe"
    BY DEF Commands
  <2>2. commands' = Append(commands, c) /\ channel' = s /\ UNCHANGED <<members, subscribed, refused>>
    BY <1>1 DEF Accept, Send
  <2>3. commands' \in Seq(Commands) /\ commands' # <<>> /\ EndsWithSubscribe(commands')
    BY <2>1, <2>2, LastCommand
  <2>4. FeedTypeOK'
    BY <1>1, <2>2, <2>3 DEF Accept
  <2>5. MapFollowsRedis'
    BY <2>2, <2>3 DEF MapFollowsRedis, WillDeliver, EndsWithSubscribe
  <2>6. KeepsFeeding
    BY <1>1 DEF KeepsFeeding, Fed
  <2>7. QED
    BY <2>4, <2>5, <2>6
<1>2. CASE channel # NoSocket
  <2>1. /\ members' = [members EXCEPT ![channel] = @ \cup {s}]
        /\ UNCHANGED <<channel, commands, subscribed, refused>>
    BY <1>2 DEF Accept
  <2>2. FeedTypeOK'
    BY <1>2, <2>1 DEF Accept
  <2>3. MapFollowsRedis'
    BY <2>1 DEF MapFollowsRedis, WillDeliver
  <2>4. KeepsFeeding
    BY <1>2, <2>1 DEF KeepsFeeding, Fed, WillDeliver
  <2>5. QED
    BY <2>2, <2>3, <2>4
<1>3. QED
  BY <1>1, <1>2

\* A socket errs or closes: it leaves, and it alone is fed no longer.
LEMMA GoStep ==
    ASSUME FeedInv, NEW s \in Sockets, Errs(s) \/ Closes(s)
    PROVE  FeedInv' /\ KeepsFeeding
<1> USE SocketsAssumption DEF FeedInv, FeedTypeOK
<1>1. /\ Leave(s) /\ UNCHANGED <<sub, subscribed, refused>>
      /\ server' \in [Sockets -> {"none", "open", "closing", "closed"}]
      /\ server'[s] # "open"
  BY DEF Errs, Closes
<1>2. FeedTypeOK'
  BY <1>1, LeaveStep
<1>3. MapFollowsRedis'
  BY <1>1, LeaveStep DEF MapFollowsRedis, WillDeliver, EndsWithSubscribe
<1>4. KeepsFeeding
  <2> SUFFICES ASSUME NEW t \in Sockets, Fed(t), server'[t] = "open"
               PROVE  Fed(t)'
    BY DEF KeepsFeeding
  <2>1. t # s /\ channel # NoSocket /\ t \in members[channel]
    BY <1>1 DEF Fed
  <2>2. UNCHANGED <<channel, commands>> /\ t \in members'[channel]
    BY <1>1, <2>1, LeaveStep
  <2>3. QED
    BY <1>1, <2>1, <2>2 DEF Fed, WillDeliver
<1>5. QED
  BY <1>2, <1>3, <1>4

\* What redis will deliver in the end does not change when it answers.
LEMMA AnswerStep ==
    ASSUME FeedInv, RedisAnswers
    PROVE  FeedInv' /\ KeepsFeeding
<1> USE SocketsAssumption DEF FeedInv, FeedTypeOK
<1> DEFINE c == Head(commands)
<1>1. /\ commands' = Tail(commands) /\ UNCHANGED <<server, channel, refused>>
      /\ commands # <<>> /\ commands' \in Seq(Commands) /\ c \in Commands
  BY LastCommand DEF RedisAnswers
<1>2. c.by \in Sockets /\ c.kind \in {"subscribe", "unsubscribe"}
  BY <1>1 DEF Commands
<1>3. /\ subscribed' \in BOOLEAN /\ (subscribed' <=> c.kind = "subscribe")
      /\ sub' \in [Sockets -> {"none", "waiting", "settled", "failed"}]
      /\ members' \in [Sockets -> SUBSET Sockets]
      /\ \A t \in Sockets : members[t] \subseteq members'[t]
  <2>1. CASE c.kind = "subscribe"
    BY <1>2, <2>1 DEF RedisAnswers
  <2>2. CASE c.kind # "subscribe"
    BY <2>2 DEF RedisAnswers
  <2>3. QED
    BY <2>1, <2>2
<1>4. WillDeliver' <=> WillDeliver
  <2>1. IF Tail(commands) = <<>>
        THEN EndsWithSubscribe(commands) <=> c.kind = "subscribe"
        ELSE EndsWithSubscribe(commands) <=> EndsWithSubscribe(Tail(commands))
    BY <1>1, LastCommand
  <2>2. QED
    BY <1>1, <1>3, <2>1 DEF WillDeliver, EndsWithSubscribe
<1>5. FeedTypeOK'
  BY <1>1, <1>3
<1>6. MapFollowsRedis'
  BY <1>1, <1>4 DEF MapFollowsRedis
<1>7. KeepsFeeding
  BY <1>1, <1>3, <1>4 DEF KeepsFeeding, Fed
<1>8. QED
  BY <1>5, <1>6, <1>7

\* After a refusal nothing is claimed but the types.
LEMMA RefuseStep ==
    ASSUME FeedInv, RedisRefuses
    PROVE  FeedInv' /\ KeepsFeeding
<1> USE DEF FeedInv, FeedTypeOK
<1> DEFINE c == Head(commands)
<1>1. /\ commands' \in Seq(Commands) /\ c \in Commands /\ refused'
      /\ UNCHANGED <<channel, members, subscribed>>
  BY LastCommand DEF RedisRefuses
<1>2. c.by \in Sockets
  BY <1>1 DEF Commands
<1>3. /\ sub' \in [Sockets -> {"none", "waiting", "settled", "failed"}]
      /\ server' \in [Sockets -> {"none", "open", "closing", "closed"}]
  <2>1. CASE c.kind = "subscribe"
    BY <1>2, <2>1 DEF RedisRefuses
  <2>2. CASE c.kind # "subscribe"
    BY <2>2 DEF RedisRefuses
  <2>3. QED
    BY <2>1, <2>2
<1>4. FeedTypeOK'
  BY <1>1, <1>3
<1>5. QED
  BY <1>1, <1>4 DEF MapFollowsRedis, KeepsFeeding

\* Every step keeps the invariant and feeds whom it fed.
LEMMA FeedStep ==
    ASSUME FeedInv, [Next]_vars
    PROVE  FeedInv' /\ KeepsFeeding
<1>1. CASE UNCHANGED feedVars
  BY <1>1 DEF feedVars, FeedInv, FeedTypeOK, MapFollowsRedis, WillDeliver,
              KeepsFeeding, Fed
<1>2. CASE FeedNext
  BY <1>2, GoStep, AnswerStep, RefuseStep DEF FeedNext
<1>3. CASE \E s \in Sockets : Upgrade(s)
  BY <1>3, AcceptStep DEF Upgrade
<1>4. QED
  BY <1>1, <1>2, <1>3 DEF Next, PageOpens, vars

\* The adapter is subscribed, or about to be, exactly while there is a Set to
\* feed (subscribeAdapter.ts, subscribe and unsubscribe).
THEOREM FeedInvariant == Spec => []FeedInv
<1>1. Init => FeedInv
  BY FeedInitInv DEF Init
<1>2. FeedInv /\ [Next]_vars => FeedInv'
  BY FeedStep
<1>3. QED
  BY <1>1, <1>2, PTL DEF Spec

\* The same, as the run states it.
THEOREM MapAlwaysFollows == Spec => []MapFollowsRedis
<1>1. FeedInv => MapFollowsRedis
  BY DEF FeedInv
<1>2. QED
  BY <1>1, FeedInvariant, PTL

\* No other page takes the events from a socket that is fed
\* (subscribeAdapter.ts, unsubscribe).
THEOREM FedStaysFed == Spec => StaysFed
<1>1. FeedInv /\ [Next]_vars =>
        [\A s \in Sockets :
            ~refused' /\ Fed(s) /\ server'[s] = "open" => Fed(s)']_feedVars
  BY FeedStep DEF KeepsFeeding
<1>2. QED
  BY <1>1, FeedInvariant, PTL DEF Spec, StaysFed

\* Page and feed keep their types (the counters of the page are bounded because
\* it has one thread).
THEOREM TypeCorrect == Spec => []TypeOK
<1>1. HubInv /\ FeedInv => TypeOK
  BY DEF HubInv, FeedInv, TypeOK
<1>2. QED
  BY <1>1, PageInvariant, FeedInvariant, PTL
=============================================================================
