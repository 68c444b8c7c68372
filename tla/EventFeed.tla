----------------------------- MODULE EventFeed -----------------------------
(***************************************************************************)
(* How the backend feeds browsers: the WebSocket route of                  *)
(* packages/backend/src/ws/browserEvents.ts and the adapter in             *)
(* redis/subscribeAdapter.ts that shares one redis connection between all  *)
(* sockets.                                                                *)
(*                                                                         *)
(* One user, hence one channel; the sockets are those of the user's pages. *)
(* The adapter keeps a Set of handlers per channel.  A Set is named after  *)
(* the socket whose subscribe() made it, because that call goes on holding *)
(* it while it awaits redis, whether it is still in the map or not.        *)
(* Messages are left out: what matters is who would get the next one.      *)
(* Heartbeats are one of the ways a socket closes.                         *)
(***************************************************************************)
EXTENDS Naturals, Sequences

CONSTANTS
    Sockets,        \* the user's WebSocket connections
    NoSocket,       \* no socket, no Set
    SocketErrors,   \* whether a socket may fire "error" before "close"
    RedisFaults     \* whether redis may refuse a command (retries used up)

ASSUME SocketsAssumption == NoSocket \notin Sockets
ASSUME FeedFaultsAssumption == SocketErrors \in BOOLEAN /\ RedisFaults \in BOOLEAN

VARIABLES
    server,         \* s -> the backend's end of the socket
    sub,            \* s -> where its call of subscribe() is
    channel,        \* handlers.get(channel): the Set in the map
    members,        \* Set -> the sockets whose handlers are in it
    commands,       \* (un)subscribe commands redis has not answered, in order
    subscribed,     \* whether redis delivers the channel to this connection
    refused         \* history: redis has refused a command

feedVars == <<server, sub, channel, members, commands, subscribed, refused>>

Commands == [kind : {"subscribe", "unsubscribe"}, by : Sockets]

FeedTypeOK ==
    /\ server     \in [Sockets -> {"none", "open", "closing", "closed"}]
    /\ sub        \in [Sockets -> {"none", "waiting", "settled", "failed"}]
    /\ channel    \in Sockets \cup {NoSocket}
    /\ members    \in [Sockets -> SUBSET Sockets]
    /\ commands   \in Seq(Commands)
    /\ subscribed \in BOOLEAN
    /\ refused    \in BOOLEAN

FeedInit ==
    /\ server     = [s \in Sockets |-> "none"]
    /\ sub        = [s \in Sockets |-> "none"]
    /\ channel    = NoSocket
    /\ members    = [s \in Sockets |-> {}]
    /\ commands   = <<>>
    /\ subscribed = FALSE
    /\ refused    = FALSE

Send(kind, s) == commands' = Append(commands, [kind |-> kind, by |-> s])

\* The upgrade succeeded and the handler subscribes.  Only the socket that
\* makes the Set asks redis and waits; any other is added at once.
Accept(s) ==
    /\ server[s] = "none"
    /\ server' = [server EXCEPT ![s] = "open"]
    /\ IF channel = NoSocket
       THEN /\ channel' = s
            /\ sub' = [sub EXCEPT ![s] = "waiting"]
            /\ Send("subscribe", s)
            /\ UNCHANGED members
       ELSE /\ members' = [members EXCEPT ![channel] = @ \cup {s}]
            /\ sub' = [sub EXCEPT ![s] = "settled"]
            /\ UNCHANGED <<channel, commands>>
    /\ UNCHANGED <<subscribed, refused>>

\* Mutants of Leave: the map keeps the empty Set; the Set goes with the first
\* handler that leaves it.
Leave_KeepsSet(s) ==
    IF channel = NoSocket
    THEN UNCHANGED <<channel, members, commands>>
    ELSE /\ members' = [members EXCEPT ![channel] = @ \ {s}]
         /\ IF members[channel] \subseteq {s}
            THEN Send("unsubscribe", s)
            ELSE UNCHANGED commands
         /\ UNCHANGED channel

Leave_DropsSet(s) ==
    IF channel = NoSocket
    THEN UNCHANGED <<channel, members, commands>>
    ELSE /\ members' = [members EXCEPT ![channel] = @ \ {s}]
         /\ channel' = NoSocket
         /\ Send("unsubscribe", s)

\* unsubscribe(): out of the Set that is in the map now, which goes when it
\* is empty.
Leave(s) ==
    IF channel = NoSocket
    THEN UNCHANGED <<channel, members, commands>>
    ELSE /\ members' = [members EXCEPT ![channel] = @ \ {s}]
         /\ IF members[channel] \subseteq {s}
            THEN channel' = NoSocket /\ Send("unsubscribe", s)
            ELSE UNCHANGED <<channel, commands>>

\* "error", which "close" follows: both unsubscribe.
Errs(s) ==
    /\ SocketErrors
    /\ server[s] = "open"
    /\ server' = [server EXCEPT ![s] = "closing"]
    /\ Leave(s)
    /\ UNCHANGED <<sub, subscribed, refused>>

\* "close", for whatever reason.
Closes(s) ==
    /\ server[s] \in {"open", "closing"}
    /\ server' = [server EXCEPT ![s] = "closed"]
    /\ Leave(s)
    /\ UNCHANGED <<sub, subscribed, refused>>

\* Redis answers the oldest command; a subscribe() goes on and adds its handler
\* to the Set it made, closed or not.
RedisAnswers ==
    /\ commands # <<>>
    /\ commands' = Tail(commands)
    /\ LET c == Head(commands) IN
       IF c.kind = "subscribe"
       THEN /\ subscribed' = TRUE
            /\ sub'     = [sub EXCEPT ![c.by] = "settled"]
            /\ members' = [members EXCEPT ![c.by] = @ \cup {c.by}]
       ELSE subscribed' = FALSE /\ UNCHANGED <<sub, members>>
    /\ UNCHANGED <<server, channel, refused>>

\* Redis refuses it: the socket of a subscribe() is closed, an unsubscribe()
\* is best effort.
RedisRefuses ==
    /\ RedisFaults
    /\ commands # <<>>
    /\ refused'  = TRUE
    /\ commands' = Tail(commands)
    /\ LET c == Head(commands) IN
       IF c.kind = "subscribe"
       THEN /\ sub'    = [sub EXCEPT ![c.by] = "failed"]
            /\ server' = [server EXCEPT ![c.by] =
                            IF @ = "open" THEN "closing" ELSE @]
       ELSE UNCHANGED <<sub, server>>
    /\ UNCHANGED <<channel, members, subscribed>>

FeedNext ==
    \/ RedisAnswers \/ RedisRefuses
    \/ \E s \in Sockets : Errs(s) \/ Closes(s)

-----------------------------------------------------------------------------
\* Redis will deliver the channel once it has answered all it was sent.
WillDeliver ==
    IF commands = <<>> THEN subscribed
                       ELSE commands[Len(commands)].kind = "subscribe"

\* The adapter subscribes when it makes a Set and unsubscribes when it drops it,
\* without waiting for either: redis ends up delivering exactly while there is
\* a Set, in whatever order sockets come, go and are answered, as long as it
\* refuses nothing.
MapFollowsRedis == ~refused => (WillDeliver <=> channel # NoSocket)

\* A message of the channel reaches the handler of s.
Fed(s) == channel # NoSocket /\ s \in members[channel] /\ WillDeliver

\* A socket that is fed stays so while it is open: no other page of the user
\* that comes, goes or fails takes the events from it, unless redis refuses a
\* command.
StaysFed ==
    [][\A s \in Sockets :
          ~refused' /\ Fed(s) /\ server'[s] = "open" => Fed(s)']_feedVars
=============================================================================
