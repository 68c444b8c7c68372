--------------------------- MODULE DiscussionProofs ---------------------------
(***************************************************************************)
(* Proofs about Discussion, for any reviewers, any answers of the          *)
(* coordinator and any number of rounds and messages.                      *)
(*                                                                         *)
(* Three invariants carry them.  Every way a ledger is made, from an       *)
(* answer or by a forced close, gives lists that fit its tickets           *)
(* (LedgerInv).  While a round goes on its packets are those of the        *)
(* reviewers that have spoken and are left, one of each, about the draft   *)
(* and the guidance there are now (RoundInv): whatever changes the draft   *)
(* or the guidance leaves the stages of a round.  The file is written in   *)
(* two places, and nothing that it depends on changes after either         *)
(* (DiskInv).                                                              *)
(***************************************************************************)
EXTENDS Discussion, FiniteSetTheorems, WellFoundedInduction, TLAPS

\* What the decisions about a ticket read and change of it is there, and so is
\* what a forced close reads and changes of a ledger.
IsTicket(t) == {"status", "key", "text", "at"} \subseteq DOMAIN t
IsLedger(l) ==
    /\ {"target", "tickets", "open", "deferred", "outcome", "draft", "at"}
         \subseteq DOMAIN l
    /\ \A t \in l.tickets : IsTicket(t)

Sound(l) == l # NoLedger => IsLedger(l) /\ Consistent(l)

LedgerInv == Sound(ledger)

\* The draft the reviewers of a round are shown.
Judged == IF mode = "deep" THEN section ELSE SeedOf(ledger)

\* The packets of a round that goes on.
Heard ==
    /\ IsFiniteSet(packets)
    /\ \A r \in active \ todo : \E p \in packets : p.by = r
    /\ \A p \in packets : /\ p.by \in active \ todo
                          /\ p.draft = Judged /\ p.heard = Quoted /\ p.round = round
    /\ \A p, q \in packets : p.by = q.by => p = q

RoundInv ==
    /\ active \subseteq Reviewers /\ active # {} /\ todo \subseteq active
    /\ stage = "drafting" => todo = active /\ packets = {}
    /\ stage \in {"check", "review", "decision", "synthesis", "finalize"} => Heard
    /\ stage = "review" => todo # {}
    /\ stage \in {"decision", "synthesis", "finalize"} => todo = {}
    /\ stage = "decision" => mode = "deep"
    /\ stage = "synthesis" => mode = "realtime" /\ Blocked
    /\ stage = "finalize" /\ mode = "realtime" => ~Blocked

DiskInv ==
    /\ mode \in {"realtime", "deep"}
    /\ final # NoFinal => disk = draft
    /\ final # NoFinal /\ mode = "realtime" => stage = "over"
    /\ final = NoFinal /\ disk # NoText => stage \in {"blocked", "over"} /\ Blocked
    /\ status = "awaiting-user-input" => stage \in {"blocked", "over"} /\ disk = Checkpoint
    /\ stage = "blocked" => mode = "realtime"

DiscussionInv == LedgerInv /\ RoundInv /\ FinalIsReviewed /\ DiskInv

-----------------------------------------------------------------------------
(* Helpers *)

\* The reviewer that is next is one of those that have not spoken.
LEMMA LowestIsLeast ==
    ASSUME NEW S \in SUBSET Nat, S # {}
    PROVE  Lowest(S) \in S /\ \A n \in S : Lowest(S) <= n
<1> DEFINE R == OpToRel(<, Nat)
<1>1. PICK x \in S : \A y \in S : ~ (<<y, x>> \in R)
  <2>1. IsWellFoundedOn(R, Nat)
    BY NatLessThanWellFounded
  <2> HIDE DEF R
  <2>2. QED
    BY <2>1, WFMin
<1>2. \A y \in S : x <= y
  <2> SUFFICES ASSUME NEW y \in S, y < x PROVE FALSE
    OBVIOUS
  <2>1. <<y, x>> \in R
    BY DEF OpToRel
  <2>2. QED
    BY <2>1, <1>1
<1>3. QED
  BY <1>2 DEF Lowest

\* A set of records that differ in a field has as many members as the field
\* has values.
LEMMA OnePerReviewer ==
    ASSUME NEW S, IsFiniteSet(S), \A p, q \in S : p.by = q.by => p = q
    PROVE  Cardinality(S) = Cardinality({p.by : p \in S})
<1> DEFINE T == {p.by : p \in S}
           f == [p \in S |-> p.by]
<1>1. f \in Bijection(S, T)
  <2>1. f \in [S -> T]
    OBVIOUS
  <2>2. \A p, q \in S : f[p] = f[q] => p = q
    OBVIOUS
  <2>3. \A t \in T : \E p \in S : f[p] = t
    OBVIOUS
  <2> HIDE DEF f, T
  <2>4. QED
    BY <2>1, <2>2, <2>3 DEF Bijection, Injection, Surjection, IsInjective
<1>2. ExistsBijection(S, T)
  BY <1>1 DEF ExistsBijection
<1>3. QED
  BY <1>2, FS_Bijection

-----------------------------------------------------------------------------
(* The ledger *)

\* A ticket as it is made, and what a decision makes of one, is a record.
LEMMA TicketIsTicket ==
    ASSUME NEW key, NEW text, NEW st, NEW severity, NEW priority, NEW r
    PROVE  LET t == Ticket(key, text, st, severity, priority, r)
           IN  IsTicket(t) /\ t.key = key /\ t.text = text /\ t.status = st
BY DEF Ticket, IsTicket

LEMMA TicketChanges ==
    ASSUME NEW t, IsTicket(t), NEW st, NEW key, NEW r
    PROVE  /\ LET u == [t EXCEPT !.status = st, !.at = r]
              IN  IsTicket(u) /\ u.status = st /\ u.key = t.key /\ u.text = t.text
           /\ LET u == [t EXCEPT !.status = st, !.key = key, !.at = r]
              IN  IsTicket(u) /\ u.status = st /\ u.key = key /\ u.text = t.text
BY DEF IsTicket

\* The tickets made from an answer's lists: those of the open list are open and
\* of the section, the others are deferred.
LEMMA SeedsFit ==
    ASSUME NEW target, NEW open, NEW deferred, NEW r,
           NEW t \in Seed(target, open, deferred, r)
    PROVE  /\ IsTicket(t)
           /\ \/ t.status = "open" /\ t.key = target /\ t.text \in open
              \/ t.status = "deferred" /\ t.text \in deferred
BY TicketIsTicket DEF Seed

\* Lists that are derived from the tickets fit them, if what is open is of the
\* section.
LEMMA ViewsFit ==
    ASSUME NEW tickets, NEW target, NEW t \in tickets,
           t.status = "open" => t.key = target
    PROVE  /\ t.status = "open" => t.text \in OpenView(tickets, target)
           /\ t.status = "deferred" => t.text \in DeferredView(tickets, target)
BY DEF OpenView, DeferredView

\* A decision leaves only tickets of the section open.
LEMMA DecisionsFit ==
    ASSUME NEW tickets, NEW d, NEW target, NEW r,
           \A t \in tickets : IsTicket(t) /\ (t.status = "open" => t.key = target),
           NEW u \in Decided(tickets, d, target, r)
    PROVE  IsTicket(u) /\ (u.status = "open" => u.key = target)
<1>1. CASE d.action = "add"
  <2> DEFINE st == IF d.key = target THEN "open" ELSE "deferred"
  <2>1. u \in tickets \/ u = Ticket(d.key, d.text, st, d.severity, 2, r)
    BY <1>1 DEF Decided
  <2>2. QED
    BY <2>1, TicketIsTicket
<1>2. CASE d.action \in {"close", "defer"}
  <2> DEFINE st == IF d.action = "close" THEN "closed" ELSE "deferred"
  <2>1. PICK t \in tickets :
          u = IF t.id = d.id THEN [t EXCEPT !.status = st, !.at = r] ELSE t
    BY <1>2 DEF Decided
  <2>2. QED
    BY <2>1 DEF IsTicket
<1>3. CASE d.action \notin {"add", "close", "defer"}
  <2>1. PICK t \in tickets :
          u = IF t.id = d.id
              THEN [t EXCEPT !.status = "open", !.key = target, !.at = r] ELSE t
    BY <1>3 DEF Decided
  <2>2. QED
    BY <2>1 DEF IsTicket
<1>4. QED
  BY <1>1, <1>2, <1>3

\* A ledger that is read from an answer is consistent, whatever the answer.
LEMMA ExtractedIsSound ==
    ASSUME NEW a, NEW r
    PROVE  IsLedger(Extracted(a, r)) /\ Consistent(Extracted(a, r))
<1> DEFINE seeds == Seed(a.target, a.open, a.deferred, r)
           d     == a.decisions[1]
           l     == Extracted(a, r)
<1>1. CASE a.decisions = << >>
  <2>1. /\ DOMAIN l = {"target", "tickets", "open", "deferred", "outcome", "draft", "at"}
        /\ l.target = a.target /\ l.tickets = seeds
        /\ l.open = a.open /\ l.deferred = a.deferred
    BY <1>1 DEF Extracted
  <2> HIDE DEF l
  <2>2. IsLedger(l) /\ Consistent(l)
    BY <2>1, SeedsFit DEF IsLedger, Consistent
  <2>3. QED
    BY <2>2 DEF l
<1>2. CASE a.decisions # << >>
  <2> DEFINE tickets == Decided(seeds, d, a.target, r)
  <2>1. /\ DOMAIN l = {"target", "tickets", "open", "deferred", "outcome", "draft", "at"}
        /\ l.target = a.target /\ l.tickets = tickets
        /\ l.open = OpenView(tickets, a.target)
        /\ l.deferred = DeferredView(tickets, a.target)
    BY <1>2 DEF Extracted
  <2>2. \A t \in seeds : IsTicket(t) /\ (t.status = "open" => t.key = a.target)
    BY SeedsFit
  <2>3. \A t \in tickets : IsTicket(t) /\ (t.status = "open" => t.key = a.target)
    BY <2>2, DecisionsFit
  <2> HIDE DEF l, tickets
  <2>4. \A t \in tickets :
          /\ t.status = "open" => t.text \in OpenView(tickets, a.target)
          /\ t.status = "deferred" => t.text \in DeferredView(tickets, a.target)
    BY <2>3, ViewsFit
  <2>5. IsLedger(l) /\ Consistent(l)
    BY <2>1, <2>3, <2>4 DEF IsLedger, Consistent
  <2>6. QED
    BY <2>5 DEF l
<1>3. QED
  BY <1>1, <1>2

\* After a section is put off no ticket is open.
LEMMA PutOffLeavesNoneOpen ==
    ASSUME NEW l, IsLedger(l), Consistent(l), NEW r, NEW u \in PutOff(l, r)
    PROVE  IsTicket(u) /\ u.status # "open"
<1>1. \A t \in TicketsOf(l) : IsTicket(t) /\ (t.status = "open" => t.key = l.target)
  BY SeedsFit DEF TicketsOf, IsLedger, Consistent
<1>2. PICK t \in TicketsOf(l) :
        u = IF t.status = "open" /\ t.key = l.target
            THEN [t EXCEPT !.status = "deferred", !.at = r] ELSE t
  BY DEF PutOff
<1>3. QED
  BY <1>1, <1>2 DEF IsTicket

\* A ledger that is handed on to the next section is consistent.
LEMMA HandoffIsSound ==
    ASSUME NEW l, IsLedger(l), NEW tickets, NEW key, NEW r,
           \A t \in tickets : IsTicket(t) /\ t.status # "open"
    PROVE  LET n == Handoff(l, tickets, key, r) IN IsLedger(n) /\ Consistent(n)
<1> DEFINE now == {IF t.key = key /\ t.status # "closed"
                   THEN [t EXCEPT !.status = "open", !.at = r] ELSE t : t \in tickets}
           n == Handoff(l, tickets, key, r)
<1>1. /\ DOMAIN n = DOMAIN l
      /\ n.target = key /\ n.tickets = now
      /\ n.open = OpenView(now, key) /\ n.deferred = DeferredView(now, key)
  BY DEF Handoff, IsLedger
<1>2. \A u \in now : IsTicket(u) /\ (u.status = "open" => u.key = key)
  BY DEF IsTicket
<1> HIDE DEF now, n
<1>3. \A u \in now :
        /\ u.status = "open" => u.text \in OpenView(now, key)
        /\ u.status = "deferred" => u.text \in DeferredView(now, key)
  BY <1>2, ViewsFit
<1>4. IsLedger(n) /\ Consistent(n)
  BY <1>1, <1>2, <1>3 DEF IsLedger, Consistent
<1>5. QED
  BY <1>4 DEF n

\* Closing a section by force leaves a consistent ledger, whether there is a
\* next section or not.
LEMMA ForcedIsSound ==
    ASSUME NEW l, IsLedger(l), Consistent(l), NEW r, NEW n \in Forced(l, r)
    PROVE  IsLedger(n) /\ Consistent(n)
<1> DEFINE tickets == PutOff(l, r)
<1>1. \A t \in tickets : IsTicket(t) /\ t.status # "open"
  BY PutOffLeavesNoneOpen
<1>2. CASE NextSections(tickets, l.target) = {}
  <2>1. /\ DOMAIN n = DOMAIN l
        /\ n.target = l.target /\ n.tickets = tickets
        /\ n.deferred = DeferredView(tickets, l.target)
    BY <1>2 DEF Forced, IsLedger
  <2> HIDE DEF tickets
  <2>2. \A t \in tickets :
          t.status = "deferred" => t.text \in DeferredView(tickets, l.target)
    BY <1>1, ViewsFit
  <2>3. QED
    BY <1>1, <2>1, <2>2 DEF IsLedger, Consistent
<1>3. CASE NextSections(tickets, l.target) # {}
  <2>1. PICK k \in NextSections(tickets, l.target) : n = Handoff(l, tickets, k, r)
    BY <1>3 DEF Forced
  <2> HIDE DEF tickets
  <2>2. QED
    BY <1>1, <2>1, HandoffIsSound
<1>4. QED
  BY <1>2, <1>3

\* A draft that is written into a ledger leaves its tickets and lists.
LEMMA DraftKeepsSound ==
    ASSUME Sound(ledger), NEW r
    PROVE  /\ Sound([ledger EXCEPT !.at = r])
           /\ Sound([ledger EXCEPT !.draft = r, !.at = r])
<1>1. CASE ledger = NoLedger
  BY <1>1 DEF Sound, NoLedger
<1>2. CASE ledger # NoLedger
  BY <1>2 DEF Sound, IsLedger, Consistent
<1>3. QED
  BY <1>1, <1>2

LEMMA ForceClosedIsSound ==
    ASSUME Sound(ledger), NEW l \in ForceClosed
    PROVE  Sound(l)
<1>1. CASE ledger = NoLedger
  BY <1>1 DEF ForceClosed, Sound
<1>2. CASE ledger # NoLedger
  <2>1. IsLedger(ledger) /\ Consistent(ledger)
    BY <1>2 DEF Sound
  <2>2. QED
    BY <1>2, <2>1, ForcedIsSound DEF ForceClosed, Sound
<1>3. QED
  BY <1>1, <1>2

LEMMA ReadIsSound ==
    ASSUME Sound(ledger), NEW a, NEW r
    PROVE  Sound(Read(a, r)) /\ Sound(Extracted(a, r))
BY ExtractedIsSound DEF Read, Sound

LEMMA LedgerStep ==
    LedgerInv /\ [Next]_vars => LedgerInv'
<1> SUFFICES ASSUME LedgerInv, [Next]_vars PROVE Sound(ledger')
  BY DEF LedgerInv, Sound, IsLedger, IsTicket, Consistent, NoLedger
<1> USE DEF LedgerInv
<1>1. CASE Brief
  BY <1>1, ReadIsSound DEF Brief, Briefed
<1>2. CASE Drafted
  BY <1>2, DraftKeepsSound DEF Drafted
<1>3. CASE Redirected
  BY <1>3, ReadIsSound DEF Redirected, Briefed
<1>4. CASE Interrupt
  BY <1>4, ForceClosedIsSound DEF Interrupt
<1>5. CASE Intervened
  BY <1>5, ForceClosedIsSound, ReadIsSound DEF Intervened, Briefed
<1>6. CASE UNCHANGED ledger
  BY <1>6
<1>7. [Next]_vars => \/ Brief \/ Drafted \/ Redirected \/ Interrupt \/ Intervened
                     \/ UNCHANGED ledger
  BY DEF Next, TurnEnds, User, TurnFails, TurnAborted, Ends, Researched, DeepBrief,
     DeepDrafted, Review, Gone, Proceed, Decide, Finalize, DeepFinalize, Block,
     Redirect, BlockAnswered, PauseAnswered, ClarifyAnswered, vars
<1>8. QED
  BY <1>1, <1>2, <1>3, <1>4, <1>5, <1>6, <1>7

-----------------------------------------------------------------------------
(* A round *)

\* The packets of a round stay what they are while nothing they are about, and
\* nobody they are of, changes.
LEMMA HeardKept ==
    ASSUME Heard, UNCHANGED <<mode, round, ledger, active, todo, packets, guidance,
                              section>>
    PROVE  Heard'
<1>1. Judged' = Judged /\ Quoted' = Quoted
  BY DEF Judged, SeedOf, Quoted
<1>2. QED
  BY <1>1 DEF Heard

LEMMA BlockedKept ==
    ASSUME UNCHANGED <<active, packets>>
    PROVE  Blocked' = Blocked
BY DEF Blocked

\* A round starts with no reviewer heard.
LEMMA UnheardIsHeard ==
    ASSUME packets' = {}, todo' = active'
    PROVE  Heard'
BY FS_EmptySet DEF Heard

\* One more reviewer is heard, or is gone.
LEMMA ReviewStep ==
    ASSUME RoundInv, Review
    PROVE  RoundInv'
<1> DEFINE r == Lowest(todo)
           prompt == IF mode = "deep" THEN DeepReviewerPrompt ELSE ReviewerPrompt
<1>1. Heard /\ stage = "review"
  BY DEF RoundInv, Review
<1>2. r \in todo /\ r \in active
  BY <1>1, LowestIsLeast, DiscussionAssumption DEF RoundInv
<1>3. /\ Judged = prompt.draft /\ Quoted = prompt.heard /\ round = prompt.round
  BY DEF Judged, DeepReviewerPrompt, ReviewerPrompt
<1> HIDE DEF r, prompt
<1>4. CASE active # {r} /\ Spoken(r, TRUE) /\ Gone(r)
  <2>1. /\ active' = active \ {r} /\ todo' = todo \ {r} /\ stage' = "check"
        /\ UNCHANGED <<mode, round, ledger, packets, guidance, section>>
    BY <1>4 DEF Spoken, Gone
  <2>2. Judged' = Judged /\ Quoted' = Quoted
    BY <2>1 DEF Judged, SeedOf, Quoted
  <2>3. Heard'
    BY <1>1, <1>2, <2>1, <2>2 DEF Heard
  <2>4. active' # {}
    BY <1>2, <1>4, <2>1
  <2>5. QED
    BY <2>1, <2>3, <2>4 DEF RoundInv
<1>5. CASE active = {r} /\ Gone(r)
  <2>1. stage' = "over" /\ UNCHANGED <<active, todo>>
    BY <1>5 DEF Gone, Ends
  <2>2. QED
    BY <2>1 DEF RoundInv
<1>6. ASSUME NEW line \in Lines,
             packets' = packets \cup {Packet(r, line, prompt)},
             Spoken(r, FALSE), stage' = "check",
             UNCHANGED <<mode, round, ledger, active, guidance, section>>
      PROVE  RoundInv'
  <2> DEFINE new == Packet(r, line, prompt)
  <2>1. /\ new.by = r /\ new.draft = Judged /\ new.heard = Quoted /\ new.round = round
    BY <1>3 DEF Packet
  <2>2. Judged' = Judged /\ Quoted' = Quoted
    BY <1>6 DEF Judged, SeedOf, Quoted
  <2> HIDE DEF new
  <2>3. packets' = packets \cup {new} /\ todo' = todo \ {r}
    BY <1>6 DEF Spoken, new
  <2>4. IsFiniteSet(packets')
    BY <1>1, <2>3, FS_AddElement DEF Heard
  <2>5. \A q \in active' \ todo' : \E p \in packets' : p.by = q
    BY <1>1, <1>6, <2>1, <2>3 DEF Heard
  <2>6. \A p \in packets' : /\ p.by \in active' \ todo'
                            /\ p.draft = Judged' /\ p.heard = Quoted' /\ p.round = round'
    BY <1>1, <1>2, <1>6, <2>1, <2>2, <2>3 DEF Heard
  <2>7. \A p, q \in packets' : p.by = q.by => p = q
    BY <1>1, <1>2, <2>1, <2>3 DEF Heard
  <2>8. Heard'
    BY <2>4, <2>5, <2>6, <2>7 DEF Heard
  <2>9. QED
    BY <1>6, <2>3, <2>8 DEF RoundInv
<1>7. QED
  BY <1>4, <1>5, <1>6 DEF Review, r, prompt

LEMMA RoundStep ==
    RoundInv /\ DiskInv /\ [Next]_vars => RoundInv'
<1> SUFFICES ASSUME RoundInv, DiskInv, [Next]_vars PROVE RoundInv'
  OBVIOUS
<1>1. CASE Review
  BY <1>1, ReviewStep
<1>2. CASE Brief
  BY <1>2, UnheardIsHeard DEF Brief, Briefed, Unheard, RoundInv
<1>3. CASE DeepBrief
  BY <1>3 DEF DeepBrief, Unheard, RoundInv
<1>4. CASE Drafted
  BY <1>4, UnheardIsHeard DEF Drafted, RoundInv
<1>5. CASE DeepDrafted
  BY <1>5, UnheardIsHeard DEF DeepDrafted, RoundInv
<1>6. CASE Proceed
  <2>1. Heard' /\ Blocked' = Blocked
    BY <1>6, HeardKept, BlockedKept DEF Proceed, RoundInv
  <2>2. UNCHANGED <<mode, active, todo>>
    BY <1>6 DEF Proceed
  <2>3. CASE todo # {}
    BY <1>6, <2>1, <2>2, <2>3 DEF Proceed, RoundInv
  <2>4. CASE todo = {} /\ mode = "deep"
    BY <1>6, <2>1, <2>2, <2>4 DEF Proceed, RoundInv
  <2>5. CASE todo = {} /\ mode = "realtime" /\ Blocked
    BY <1>6, <2>1, <2>2, <2>5 DEF Proceed, RoundInv
  <2>6. CASE todo = {} /\ mode = "realtime" /\ ~Blocked
    BY <1>6, <2>1, <2>2, <2>6 DEF Proceed, RoundInv
  <2>7. QED
    BY <2>3, <2>4, <2>5, <2>6 DEF DiskInv
<1>7. CASE Redirected
  BY <1>7, UnheardIsHeard DEF Redirected, Briefed, Unheard, RoundInv
<1>8. CASE Decide
  <2>1. Heard'
    BY <1>8, HeardKept DEF Decide, RoundInv
  <2>2. QED
    BY <1>8, <2>1 DEF Decide, RoundInv
<1>9. CASE Intervened
  <2>1. CASE stage' \in {"clarify", "brief"} /\ UNCHANGED <<active, todo, packets>>
    BY <2>1 DEF RoundInv
  <2>2. CASE \E l : Briefed(l)
    BY <1>9, <2>2, UnheardIsHeard DEF Intervened, Briefed, Unheard, RoundInv
  <2>3. QED
    BY <1>9, <2>1, <2>2 DEF Intervened
<1>10. CASE /\ stage' \in {"over", "brief", "redirect", "pause", "blocked", "intervene"}
            /\ UNCHANGED <<active, todo>>
  BY <1>10 DEF RoundInv
<1>11. CASE UNCHANGED vars
  <2>1. UNCHANGED <<mode, stage, round, ledger, active, todo, packets, guidance, section>>
    BY <1>11 DEF vars
  <2>2. Blocked' = Blocked /\ (Heard => Heard')
    BY <2>1, HeardKept, BlockedKept
  <2>3. QED
    BY <2>1, <2>2 DEF RoundInv
<1>12. Researched \/ Finalize \/ DeepFinalize \/ Block \/ TurnFails \/ TurnAborted
         => /\ stage' \in {"over", "brief", "pause", "blocked"}
            /\ UNCHANGED <<active, todo>>
  BY DEF Researched, Finalize, DeepFinalize, Block, TurnFails, TurnAborted, Ends
<1>13. Redirect \/ Interrupt \/ BlockAnswered \/ PauseAnswered \/ ClarifyAnswered
         => /\ stage' \in {"over", "brief", "redirect", "intervene"}
            /\ UNCHANGED <<active, todo>>
  BY DEF Redirect, Interrupt, BlockAnswered, PauseAnswered, ClarifyAnswered
<1>14. QED
  BY <1>1, <1>2, <1>3, <1>4, <1>5, <1>6, <1>7, <1>8, <1>9, <1>10, <1>11, <1>12, <1>13
     DEF Next, TurnEnds, User

-----------------------------------------------------------------------------
(* The final draft and the file *)

\* At the end of a round every reviewer that is left has spoken, once.
LEMMA RoundIsReviewed ==
    ASSUME RoundInv, stage = "finalize"
    PROVE  /\ {p.by : p \in packets} = active
           /\ Cardinality(packets) = Cardinality({p.by : p \in packets})
           /\ \A p \in packets :
                /\ p.draft = Judged /\ p.heard = Quoted /\ p.round = round
                /\ mode = "realtime" => p.status # "BLOCK"
<1>1. Heard /\ todo = {}
  BY DEF RoundInv
<1>2. {p.by : p \in packets} = active
  BY <1>1 DEF Heard
<1>3. Cardinality(packets) = Cardinality({p.by : p \in packets})
  BY <1>1, OnePerReviewer DEF Heard
<1>4. \A p \in packets : mode = "realtime" => p.status # "BLOCK"
  BY <1>2 DEF RoundInv, Blocked
<1>5. QED
  BY <1>1, <1>2, <1>3, <1>4 DEF Heard

LEMMA FinalStep ==
    RoundInv /\ FinalIsReviewed /\ [Next]_vars => FinalIsReviewed'
<1> SUFFICES ASSUME RoundInv, FinalIsReviewed, [Next]_vars PROVE FinalIsReviewed'
  OBVIOUS
<1>1. CASE Finalize \/ DeepFinalize
  <2>1. /\ final'.draft = Judged /\ final'.heard = Quoted /\ final'.round = round
        /\ final'.packets = packets /\ final'.reviewers = active
        /\ stage = "finalize" /\ mode' = mode
    BY <1>1 DEF Finalize, DeepFinalize, Finished, FinalPrompt, DeepFinalPrompt, Judged
  <2>2. QED
    BY <2>1, RoundIsReviewed DEF FinalIsReviewed
<1>2. CASE UNCHANGED <<final, mode>>
  BY <1>2 DEF FinalIsReviewed
<1>3. [Next]_vars => Finalize \/ DeepFinalize \/ UNCHANGED <<final, mode>>
  BY DEF Next, TurnEnds, User, TurnFails, TurnAborted, Ends, Researched, Brief,
     DeepBrief, Drafted, DeepDrafted, Review, Gone, Proceed, Redirected, Decide,
     Block, Intervened, Redirect, Interrupt, BlockAnswered, PauseAnswered,
     ClarifyAnswered, vars
<1>4. QED
  BY <1>1, <1>2, <1>3

\* A step of a turn that is neither the finalizer's nor the checkpoint's leaves
\* the file, and none is taken while the user is asked about the draft.
LEMMA DiskStep ==
    RoundInv /\ DiskInv /\ [Next]_vars => DiskInv'
<1> SUFFICES ASSUME RoundInv, DiskInv, [Next]_vars PROVE DiskInv'
  OBVIOUS
<1>1. CASE Finalize
  <2>1. final' # NoFinal
    BY <1>1 DEF Finalize, Finished, FinalPrompt, NoFinal
  <2>2. QED
    BY <1>1, <2>1 DEF Finalize, DiskInv
<1>2. CASE DeepFinalize
  <2>1. final' # NoFinal
    BY <1>2 DEF DeepFinalize, Finished, DeepFinalPrompt, NoFinal
  <2>2. QED
    BY <1>2, <2>1 DEF DeepFinalize, Saved, DiskInv
<1>3. CASE Block
  <2>1. Blocked /\ mode = "realtime" /\ Blocked' = Blocked
    BY <1>3, BlockedKept DEF Block, RoundInv
  <2>2. Checkpoint' = Checkpoint
    BY <1>3 DEF Block, Checkpoint, SeedOf
  <2>3. QED
    BY <1>3, <2>1, <2>2 DEF Block, DiskInv
<1>4. CASE BlockAnswered
  <2>1. Checkpoint' = Checkpoint /\ Blocked' = Blocked
    BY <1>4, BlockedKept DEF BlockAnswered, Checkpoint, SeedOf
  <2>2. QED
    BY <1>4, <2>1 DEF BlockAnswered, DiskInv
<1>5. CASE UNCHANGED vars
  <2>1. Checkpoint' = Checkpoint /\ Blocked' = Blocked
    BY <1>5, BlockedKept DEF vars, Checkpoint, SeedOf
  <2>2. QED
    BY <1>5, <2>1 DEF vars, DiskInv
<1>6. CASE /\ stage \notin {"blocked", "over"} /\ stage' # "blocked"
           /\ stage = "pause" => mode = "deep" \/ final = NoFinal
           /\ status' \in {status, "failed", "aborted", "completed"}
           /\ UNCHANGED <<mode, final, draft, disk>>
  BY <1>6 DEF DiskInv
<1>7. QED
  BY <1>1, <1>2, <1>3, <1>4, <1>5, <1>6
     DEF Next, TurnEnds, User, TurnFails, TurnAborted, Ends, Turns, Researched, Brief,
         DeepBrief, Drafted, DeepDrafted, Review, Gone, Proceed, Redirected, Decide,
         Intervened, Redirect, Interrupt, PauseAnswered, ClarifyAnswered, Briefed,
         Interruptible, DiskInv

-----------------------------------------------------------------------------
LEMMA InitDiscussion == Init => DiscussionInv
<1> SUFFICES ASSUME Init PROVE DiscussionInv
  OBVIOUS
<1>1. LedgerInv
  BY DEF Init, LedgerInv, Sound
<1>2. RoundInv
  BY DiscussionAssumption DEF Init, RoundInv
<1>3. FinalIsReviewed /\ DiskInv
  BY DiscussionAssumption DEF Init, FinalIsReviewed, DiskInv
<1>4. QED
  BY <1>1, <1>2, <1>3 DEF DiscussionInv

LEMMA DiscussionStep == DiscussionInv /\ [Next]_vars => DiscussionInv'
BY LedgerStep, RoundStep, FinalStep, DiskStep DEF DiscussionInv

\* Whatever the coordinator answers and whenever the user interrupts, the
\* discussion keeps the four invariants.
THEOREM DiscussionIsSound == Spec => []DiscussionInv
BY InitDiscussion, DiscussionStep, PTL DEF Spec

\* The lists the next prompts are made from hold every challenge that is not
\* closed, after every answer, redirection and forced close
\* (discussionLedger.ts: extractDiscussionLedger, forceAcceptCurrentSection,
\* transitionDiscussionLedgerToNextCluster).
THEOREM ListsFitTickets == Spec => []LedgerConsistent
<1>1. DiscussionInv => LedgerConsistent
  BY DEF DiscussionInv, LedgerInv, Sound, LedgerConsistent
<1>2. QED
  BY <1>1, DiscussionIsSound, PTL

\* The finalizer of a round, and of a deep cycle, is given one packet of every
\* reviewer that is left, about the draft it is given, said with the guidance it
\* is given (orchestrator.ts: runRealtimeDiscussion, runDeepCycle).
THEOREM FinalDraftIsReviewed == Spec => []FinalIsReviewed
<1>1. DiscussionInv => FinalIsReviewed
  BY DEF DiscussionInv
<1>2. QED
  BY <1>1, DiscussionIsSound, PTL

\* revised-draft.md holds the final draft, or the draft the user is asked about.
THEOREM FileIsTheDraft == Spec => []DraftOnDisk
<1>1. DiscussionInv => DraftOnDisk
  BY DEF DiscussionInv, DiskInv, DraftOnDisk
<1>2. QED
  BY <1>1, DiscussionIsSound, PTL
=============================================================================
