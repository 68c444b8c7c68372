---------------------------- MODULE BrowserFeed ----------------------------
(***************************************************************************)
(* A page and the backend that feeds it: SocketHub on one side, EventFeed  *)
(* on the other, a socket between them.  Each end of a socket opens and    *)
(* closes by itself; the page's end opens after the upgrade at the         *)
(* backend's, and an upgrade may be done for a page that has gone.  The    *)
(* sockets that are not the page's own are those of the user's other       *)
(* pages, which come and go as they like.                                  *)
(***************************************************************************)
EXTENDS SocketHub, EventFeed

ASSUME PageAssumption == Own \subseteq Sockets

vars == <<hubVars, feedVars>>

TypeOK == HubTypeOK /\ FeedTypeOK

Init == HubInit /\ FeedInit

Upgrade(s) ==
    /\ s \in Own => client[s] # "none"
    /\ Accept(s)
    /\ UNCHANGED hubVars

PageOpens(s) ==
    /\ server[s] # "none"
    /\ Opens(s)
    /\ UNCHANGED feedVars

Next ==
    \/ HubNext /\ UNCHANGED feedVars
    \/ FeedNext /\ UNCHANGED hubVars
    \/ \E s \in Sockets : Upgrade(s)
    \/ \E s \in Own : PageOpens(s)

Spec == Init /\ [][Next]_vars

\* fetch settles, timers fire, and a socket that is connecting opens or closes.
Concludes(s) ==
    \/ PageOpens(s)
    \/ client[s] = "connecting" /\ Ends(s) /\ UNCHANGED feedVars

Fairness ==
    /\ WF_vars(ProbeAnswers /\ UNCHANGED feedVars)
    /\ WF_vars(ReprobeAnswers /\ UNCHANGED feedVars)
    /\ WF_vars(TimerFires /\ UNCHANGED feedVars)
    /\ \A s \in Own : WF_vars(Concludes(s))

FairSpec == Spec /\ Fairness

-----------------------------------------------------------------------------
\* "401 detection, back-off and a maximum of retries": a page that is trying to
\* connect gets a connection or tells its user that it has none, unless it
\* calls connect() again and again.
Trying == state \in {"probing", "connecting", "reconnecting"}

TryingEnds == <>[][~ConnectCall]_vars => (Trying ~> ~Trying)
=============================================================================
