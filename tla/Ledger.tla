-------------------------------- MODULE Ledger --------------------------------
(***************************************************************************)
(* The discussion ledger of a realtime review (discussionLedger.ts): the   *)
(* section that is worked on, and a ticket for every challenge that was    *)
(* raised.  A coordinator's answer is read into a ledger of its own        *)
(* (extractDiscussionLedger); a user can close the section by force.       *)
(*                                                                         *)
(* Texts are members of Issues.  The wording of a ledger (focus,           *)
(* objective, direction, items) is left out; the order of the items of a   *)
(* list, which ranks their tickets, too: equal ranks go either way.        *)
(***************************************************************************)
EXTENDS Naturals, Sequences, FiniteSets

CONSTANTS
  Issues,    \* texts of challenges
  Keys,      \* keys of sections
  OwnKey     \* normalizeSectionKey of a text: the section a deferred one is put in

ASSUME LedgerAssumption == OwnKey \in [Issues -> Keys]

\* buildChallengeTicketId hashes the section and the text a ticket is made with.
Id(key, text) == <<key, text>>

Ticket(key, text, status, severity, priority, round) ==
  [id |-> Id(key, text), text |-> text, key |-> key, status |-> status,
   severity |-> severity, priority |-> priority, since |-> round, at |-> round]

\* seedTicketsFromLegacyLedger: of two items with one id the first is kept.
Seed(target, open, deferred, round) ==
  LET blocking == {Ticket(target, i, "open", "blocking", 2, round) : i \in open}
      later    == {Ticket(OwnKey[i], i, "deferred", "advisory", 1, round) : i \in deferred}
  IN  blocking \cup {t \in later : \A b \in blocking : b.id # t.id}

\* A line of "Challenge Decisions".
Decided(tickets, d, target, round) ==
  CASE d.action = "add" ->
         LET status == IF d.key = target THEN "open" ELSE "deferred"
         IN  {t \in tickets : t.id # Id(d.key, d.text)}
               \cup {Ticket(d.key, d.text, status, d.severity, 2, round)}
    [] d.action \in {"close", "defer"} ->
         {IF t.id = d.id
          THEN [t EXCEPT !.status = IF d.action = "close" THEN "closed" ELSE "deferred",
                         !.at = round]
          ELSE t : t \in tickets}
    [] OTHER ->   \* keep-open, promote
         {IF t.id = d.id THEN [t EXCEPT !.status = "open", !.key = target, !.at = round]
                         ELSE t : t \in tickets}

\* deriveLedgerViewsFromTickets.
OpenView(tickets, target) ==
  {t.text : t \in {u \in tickets : u.status = "open" /\ u.key = target}}
DeferredView(tickets, target) ==
  {t.text : t \in {u \in tickets : u.status = "deferred" \/ (u.status = "open" /\ u.key # target)}}

\* extractDiscussionLedger: the tickets are those of this answer's own lists;
\* decisions about tickets of an earlier ledger find nothing.  draft is the
\* round whose section draft the ledger has; NoDraft is none.
NoDraft == 0
Extracted(answer, round) ==
  LET seeds   == Seed(answer.target, answer.open, answer.deferred, round)
      tickets == IF answer.decisions = << >> THEN seeds
                 ELSE Decided(seeds, answer.decisions[1], answer.target, round)
  IN  [target   |-> answer.target,
       tickets  |-> tickets,
       open     |-> IF answer.decisions = << >> THEN answer.open
                    ELSE OpenView(tickets, answer.target),
       deferred |-> IF answer.decisions = << >> THEN answer.deferred
                    ELSE DeferredView(tickets, answer.target),
       outcome  |-> "none", draft |-> NoDraft, at |-> round]

(***************************************************************************)
(* Closing a section by force.                                             *)
(***************************************************************************)
\* getLedgerTickets: a ledger without tickets has those of its lists.
TicketsOf(l) ==
  IF l.tickets # {} THEN l.tickets ELSE Seed(l.target, l.open, l.deferred, l.at)

\* The tickets of the section that are open are put off.
PutOff(l, round) ==
  {IF t.status = "open" /\ t.key = l.target
   THEN [t EXCEPT !.status = "deferred", !.at = round] ELSE t : t \in TicketsOf(l)}

\* pickNextTargetSectionCluster: the other sections with tickets that are not
\* closed; first those that block, then by priority, age and size.
Cluster(tickets, key) == {t \in tickets : t.key = key /\ t.status # "closed"}
Highest(ns) == CHOOSE n \in ns : \A k \in ns : k <= n
Lowest(ns) == CHOOSE n \in ns : \A k \in ns : n <= k

Precedes(a, b) ==
  LET Blocks(c)   == \E t \in c : t.severity = "blocking"
      Priority(c) == Highest({t.priority : t \in c})
      Since(c)    == Lowest({t.since : t \in c})
  IN  IF Blocks(a) # Blocks(b) THEN Blocks(a)
      ELSE IF Priority(a) # Priority(b) THEN Priority(a) > Priority(b)
      ELSE IF Since(a) # Since(b) THEN Since(a) < Since(b)
      ELSE Cardinality(a) > Cardinality(b)

NextSections(tickets, target) ==
  LET others == {t.key : t \in {u \in tickets : u.status # "closed" /\ u.key # target}}
  IN  {k \in others : \A j \in others : ~Precedes(Cluster(tickets, j), Cluster(tickets, k))}

\* transitionDiscussionLedgerToNextCluster.
\* Mutant of Handoff: the lists stay as they were.
Handoff_StaleViews(l, tickets, key, round) ==
  LET now == {IF t.key = key /\ t.status # "closed"
              THEN [t EXCEPT !.status = "open", !.at = round] ELSE t : t \in tickets}
  IN  [l EXCEPT !.target = key, !.tickets = now, !.outcome = "handoff-next-section",
                !.draft = NoDraft, !.at = round]
Handoff(l, tickets, key, round) ==
  LET now == {IF t.key = key /\ t.status # "closed"
              THEN [t EXCEPT !.status = "open", !.at = round] ELSE t : t \in tickets}
  IN  [l EXCEPT !.target = key, !.tickets = now, !.outcome = "handoff-next-section",
                !.open = OpenView(now, key), !.deferred = DeferredView(now, key),
                !.draft = NoDraft, !.at = round]

\* forceAcceptCurrentSection.
Forced(l, round) ==
  LET tickets == PutOff(l, round)
      nexts   == NextSections(tickets, l.target)
  IN  IF nexts = {}
      THEN {[l EXCEPT !.tickets = tickets, !.outcome = "write-final", !.at = round,
                      !.open = OpenView(tickets, l.target),
                      !.deferred = DeferredView(tickets, l.target)]}
      ELSE {Handoff(l, tickets, k, round) : k \in nexts}

-----------------------------------------------------------------------------
\* A ticket that is not closed is on the list the next prompts are made from,
\* and only tickets of the section that is worked on are open.
Consistent(l) ==
  \A t \in l.tickets :
    /\ t.status = "open" => t.key = l.target /\ t.text \in l.open
    /\ t.status = "deferred" => t.text \in l.deferred
=============================================================================
