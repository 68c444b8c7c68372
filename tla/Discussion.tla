------------------------------ MODULE Discussion ------------------------------
(***************************************************************************)
(* The discussion a run holds (orchestrator.ts): turns of a coordinator, a *)
(* drafter, the reviewers and a finalizer, one after the other, in one of  *)
(* two modes.                                                              *)
(*                                                                         *)
(* realtime: a coordinator's brief is read into the ledger, the drafter    *)
(* writes a section draft into it, every reviewer judges that draft; a     *)
(* BLOCK is put to the user, otherwise the finalizer writes the essay.     *)
(* A message of the user waiting at the end of a turn redirects the        *)
(* discussion into a new round; one that interrupts a turn goes through    *)
(* the intervention coordinator.                                           *)
(*                                                                         *)
(* deep: brief, section draft, reviewers, decision and finalizer are one   *)
(* cycle; after it the artifacts are saved and the user may ask for more.  *)
(*                                                                         *)
(* A prompt is what it quotes of the state: the user's directives, the     *)
(* draft, the reviewers' packets.  Its instructions, the context and the   *)
(* history blocks are left out.                                            *)
(***************************************************************************)
EXTENDS Ledger, Functions

CONSTANTS
  Reviewers,     \* a set of naturals: they speak in that order
  Modes,         \* the review modes to start in: "realtime", "deep"
  Answers,       \* what a coordinator's answer may be read as
  MaxQuoted,     \* directives a prompt quotes (6 in the code)
  MaxRounds,     \* bound: rounds or cycles
  MaxGuidance    \* bound: messages of the user

ASSUME DiscussionAssumption ==
  /\ Reviewers \subseteq Nat /\ Reviewers # {} /\ IsFiniteSet(Reviewers)
  /\ Modes \subseteq {"realtime", "deep"}
  /\ MaxQuoted \in Nat \ {0} /\ MaxRounds \in Nat \ {0} /\ MaxGuidance \in Nat

VARIABLES
  mode,      \* request.reviewMode
  stage,     \* whose turn it is, or what is waited for
  round,     \* round or cycle
  ledger,    \* discussionLedger
  active,    \* activeReviewers
  todo,      \* reviewers that have not spoken in this round
  packets,   \* what the reviewers of this round said
  guidance,  \* userInterventions: how many
  section,   \* the section draft of a deep cycle
  draft,     \* currentDraft
  final,     \* what the last final draft was made from
  disk,      \* revised-draft.md
  status     \* the run record's status

vars == <<mode, stage, round, ledger, active, todo, packets, guidance, section,
          draft, final, disk, status>>

NoLedger == [target |-> "none"]
NoFinal  == [round |-> 0]

\* Texts of the essay: the request's, a coordinator's outline, a section
\* draft or a final draft, with the round it was written in.
Text(kind, r) == [kind |-> kind, at |-> r]
Requested == Text("requested", 0)
NoText    == Text("none", 0)

-----------------------------------------------------------------------------
(* Prompts *)

\* buildUserGuidanceBlock, buildBindingDirectiveBlock: the newest directives.
Quoted == {g \in 1..guidance : g + MaxQuoted > guidance}

\* The section draft, or the outline it is to be written from.
SeedOf(l) == IF l = NoLedger THEN NoText
             ELSE IF l.draft # NoDraft THEN Text("section", l.draft)
             ELSE Text("outline", l.at)

\* buildChallengeTicketBlock lists the tickets with their ids, which are
\* hashes: an answer can decide about a ticket only if it was shown its id.
Listed == IF ledger = NoLedger THEN {} ELSE {t.id : t \in ledger.tickets}
CoordinatorPrompt  == [heard |-> Quoted, tickets |-> Listed]
RedirectPrompt     == [heard |-> Quoted, tickets |-> Listed, messages |-> {guidance}]
InterventionPrompt == [heard |-> Quoted, tickets |-> Listed, messages |-> {guidance},
                       interrupted |-> round, outline |-> SeedOf(ledger)]
Answerable(prompt) ==
  {a \in Answers : \A d \in Range(a.decisions) : d.action = "add" \/ d.id \in prompt.tickets}

\* A reviewer is shown the draft and the guidance, and nothing that was said
\* by another reviewer in this round.
ReviewerPrompt     == [draft |-> SeedOf(ledger), heard |-> Quoted, round |-> round]
DeepReviewerPrompt == [draft |-> section, heard |-> Quoted, round |-> round]

FinalPrompt ==
  [draft |-> SeedOf(ledger), heard |-> Quoted, round |-> round, packets |-> packets,
   reviewers |-> active]
DeepFinalPrompt ==
  [draft |-> section, heard |-> Quoted, round |-> round, packets |-> packets,
   reviewers |-> active]

\* extractRealtimeReviewerStatus: the last line that is a status and nothing
\* else; an answer without one asks for a revision.
Lines == {"PASS", "REVISE", "BLOCK", "unreadable"}
StatusOf(line) == IF line = "unreadable" THEN "REVISE" ELSE line

Packet(r, line, prompt) ==
  [by |-> r, status |-> StatusOf(line), draft |-> prompt.draft,
   heard |-> prompt.heard, round |-> prompt.round]

\* collectRealtimeReviewerFeedbackPackets.
Blocked == \E p \in packets : p.by \in active /\ p.status = "BLOCK"

-----------------------------------------------------------------------------
\* The note a continued run starts with is the first directive.
Init ==
  /\ mode \in Modes /\ round = 1 /\ ledger = NoLedger
  /\ stage = "research"
  /\ active = Reviewers /\ todo = {} /\ packets = {}
  /\ guidance \in {0, 1} \cap 0..MaxGuidance
  /\ section = NoText /\ draft = Requested /\ final = NoFinal /\ disk = NoText
  /\ status = "running"

\* An error thrown out of the discussion: the run failed, or was aborted.
Ends(s) ==
  /\ stage' = "over" /\ status' = s
  /\ UNCHANGED <<mode, round, ledger, active, todo, packets, guidance, section, draft,
                 final, disk>>

\* executeTurn: the provider fails (the turn does), or the run is aborted.  An
\* interruption of the research turn or of the intervention coordinator's own
\* is taken by nobody and fails the run, too.
Turns == {"research", "brief", "drafting", "review", "redirect", "synthesis",
          "decision", "finalize", "intervene"}
TurnFails ==
  /\ stage \in Turns \ {"review", "synthesis"}
  /\ stage = "drafting" => mode = "deep"
  /\ Ends("failed")
TurnAborted == stage \in Turns /\ Ends("aborted")

\* What the request asks of Notion is looked up first; without a request
\* there is nothing to do.
Researched ==
  /\ stage = "research" /\ stage' = "brief"
  /\ UNCHANGED <<mode, round, ledger, active, todo, packets, guidance, section, draft,
                 final, disk, status>>

-----------------------------------------------------------------------------
(* A round *)

\* What a round starts from: no reviewer has spoken.
\* Mutant of Unheard: the packets of a round that was given up count.
Unheard_Kept == /\ todo' = active /\ UNCHANGED packets
Unheard == /\ todo' = active /\ packets' = {}

\* updateDiscussionLedger: an answer that cannot be read leaves the ledger.
Unreadable == [target |-> "unreadable"]
Read(a, r) == IF a = Unreadable THEN ledger ELSE Extracted(a, r)

\* After a coordinator's turn the drafter is asked if there is a ledger.
Briefed(l) == /\ ledger' = l
              /\ stage' = IF l = NoLedger THEN "check" ELSE "drafting"
              /\ Unheard

Brief ==
  /\ stage = "brief" /\ mode = "realtime"
  /\ \E a \in Answerable(CoordinatorPrompt) \cup {Unreadable} : Briefed(Read(a, round))
  /\ UNCHANGED <<mode, round, active, guidance, section, draft, final, disk, status>>

\* splitSectionCoordinationBrief takes any answer.
DeepBrief ==
  /\ stage = "brief" /\ mode = "deep" /\ stage' = "drafting" /\ Unheard
  /\ UNCHANGED <<mode, round, ledger, active, guidance, section, draft, final, disk,
                 status>>

\* The drafter of a realtime round: a turn that failed, or an answer without a
\* section draft, keeps the draft there is.
Drafted ==
  /\ stage = "drafting" /\ mode = "realtime" /\ stage' = "check"
  /\ \/ UNCHANGED ledger
     \/ ledger' = [ledger EXCEPT !.at = round]
     \/ ledger' = [ledger EXCEPT !.draft = round, !.at = round]
  /\ UNCHANGED <<mode, round, active, todo, packets, guidance, section, draft, final,
                 disk, status>>

\* splitSectionDraftOutput falls back to the current draft.
DeepDrafted ==
  /\ stage = "drafting" /\ mode = "deep" /\ stage' = "review"
  /\ section' \in {Text("section", round), draft}
  /\ UNCHANGED <<mode, round, ledger, active, todo, packets, guidance, draft, final,
                 disk, status>>

\* The next reviewer.  One whose turn fails is not asked again; without any
\* left the run fails.
Gone(r) == IF active = {r} THEN Ends("failed")
           ELSE /\ active' = active \ {r} /\ stage' = "check"
                /\ UNCHANGED <<mode, round, ledger, packets, guidance, section, draft,
                               final, disk, status>>

\* Mutant of Spoken: a reviewer that failed is asked again and again.
Spoken_Again(r, failed) == todo' = IF failed THEN todo ELSE todo \ {r}
Spoken(r, failed) == todo' = todo \ {r}

Review ==
  /\ stage = "review"
  /\ LET r == Lowest(todo)
     IN  \/ /\ active # {r} /\ Spoken(r, TRUE) /\ Gone(r)
         \/ /\ active = {r} /\ Gone(r)
         \/ \E line \in Lines :
              /\ packets' = packets \cup
                   {Packet(r, line, IF mode = "deep" THEN DeepReviewerPrompt
                                    ELSE ReviewerPrompt)}
              /\ Spoken(r, FALSE) /\ stage' = "check"
              /\ UNCHANGED <<mode, round, ledger, active, guidance, section, draft,
                             final, disk, status>>

\* After the drafter and after every reviewer.
Proceed ==
  /\ stage = "check"
  /\ stage' = CASE todo # {} -> "review"
                [] todo = {} /\ mode = "deep" -> "decision"
                [] todo = {} /\ mode = "realtime" /\ Blocked -> "synthesis"
                [] OTHER -> "finalize"
  /\ UNCHANGED <<mode, round, ledger, active, todo, packets, guidance, section, draft,
                 final, disk, status>>

\* consumeCurrentUserMessages: a message that waits here starts a new round.
Redirect ==
  /\ stage = "check" /\ mode = "realtime"
  /\ guidance < MaxGuidance /\ round < MaxRounds
  /\ guidance' = guidance + 1 /\ round' = round + 1 /\ stage' = "redirect"
  /\ UNCHANGED <<mode, ledger, active, todo, packets, section, draft, final, disk,
                 status>>

\* The answer to the redirect prompt is also the brief of the new round.
Redirected ==
  /\ stage = "redirect"
  /\ \E a \in Answerable(RedirectPrompt) \cup {Unreadable} : Briefed(Read(a, round))
  /\ UNCHANGED <<mode, round, active, guidance, section, draft, final, disk, status>>

-----------------------------------------------------------------------------
(* The end of a round *)

\* splitFinalizerOutput: an answer without a final draft is the final draft;
\* an empty one leaves the draft there was.
Finished(prompt) ==
  /\ final' = prompt
  /\ draft' \in {Text("final", round), draft}

Finalize ==
  /\ stage = "finalize" /\ mode = "realtime" /\ Finished(FinalPrompt)
  /\ disk' = draft' /\ stage' = "over" /\ status' = "completed"
  /\ UNCHANGED <<mode, round, ledger, active, todo, packets, guidance, section>>

\* saveDeepArtifacts.
\* Mutant of Saved: a deep cycle saves the draft it started from.
Saved_Before == disk' = draft
Saved == disk' = draft'

DeepFinalize ==
  /\ stage = "finalize" /\ mode = "deep" /\ Finished(DeepFinalPrompt) /\ Saved
  /\ stage' = "pause"
  /\ UNCHANGED <<mode, round, ledger, active, todo, packets, guidance, section, status>>

\* The coordinator's decision of a deep cycle.
Decide ==
  /\ stage = "decision" /\ stage' = "finalize"
  /\ UNCHANGED <<mode, round, ledger, active, todo, packets, guidance, section, draft,
                 final, disk, status>>

\* The question is the coordinator's, or made from the packets if its turn
\* failed; the user is shown the draft that was blocked.
Checkpoint == IF SeedOf(ledger) = NoText THEN draft ELSE SeedOf(ledger)

Block ==
  /\ stage = "synthesis" /\ stage' = "blocked"
  /\ disk' = Checkpoint /\ status' = "awaiting-user-input"
  /\ UNCHANGED <<mode, round, ledger, active, todo, packets, guidance, section, draft,
                 final>>

\* handleRealtimeAwaitingUserInput, after which the loop is left whatever the
\* answer was.  The record of a session marked done keeps its status.
BlockAnswered ==
  /\ stage = "blocked" /\ stage' = "over"
  /\ \/ status' = "aborted" /\ UNCHANGED guidance
     \/ UNCHANGED <<status, guidance>>
     \/ /\ status' = "completed"
        /\ guidance' \in {guidance, guidance + 1} \cap 0..MaxGuidance
  /\ UNCHANGED <<mode, round, ledger, active, todo, packets, section, draft, final, disk>>

\* The user's answer after a deep cycle.
PauseAnswered ==
  /\ stage = "pause"
  /\ \/ /\ stage' = "over" /\ status' \in {"aborted", "completed"}
        /\ UNCHANGED <<round, guidance>>
     \/ /\ round < MaxRounds /\ round' = round + 1 /\ stage' = "brief"
        /\ guidance' \in {guidance, guidance + 1} \cap 0..MaxGuidance
        /\ UNCHANGED status
  /\ UNCHANGED <<mode, ledger, active, todo, packets, section, draft, final, disk>>

-----------------------------------------------------------------------------
(* A message that interrupts a turn *)

\* forceAcceptCurrentSection, if there is a section.
ForceClosed == IF ledger = NoLedger THEN {NoLedger} ELSE Forced(ledger, round + 1)

Interruptible == {"brief", "drafting", "review", "redirect", "synthesis", "finalize"}

Interrupt ==
  /\ mode = "realtime" /\ stage \in Interruptible
  /\ guidance < MaxGuidance /\ round < MaxRounds
  /\ guidance' = guidance + 1
  /\ \/ /\ ledger' \in ForceClosed /\ round' = round + 1 /\ stage' = "brief"
     \/ /\ stage' = "intervene" /\ UNCHANGED <<ledger, round>>
  /\ UNCHANGED <<mode, active, todo, packets, section, draft, final, disk, status>>

\* The intervention coordinator's decision.  One that cannot be read asks the
\* user; a redirection without a section state fails the run.
Intervened ==
  /\ stage = "intervene"
  /\ \/ /\ stage' = "clarify" /\ UNCHANGED <<ledger, round, todo, packets>>
     \/ /\ ledger' \in ForceClosed /\ round' = round + 1 /\ stage' = "brief"
        /\ UNCHANGED <<todo, packets>>
     \/ /\ round' = round + 1
        /\ \E a \in Answerable(InterventionPrompt) : Briefed(Extracted(a, round + 1))
  /\ UNCHANGED <<mode, active, guidance, section, draft, final, disk, status>>

ClarifyAnswered ==
  /\ stage = "clarify"
  /\ \/ stage' = "over" /\ status' \in {"aborted", "completed"} /\ UNCHANGED guidance
     \/ stage' = "intervene" /\ UNCHANGED <<guidance, status>>
     \/ /\ stage' = "intervene" /\ guidance < MaxGuidance
        /\ guidance' = guidance + 1 /\ UNCHANGED status
  /\ UNCHANGED <<mode, round, ledger, active, todo, packets, section, draft, final, disk>>

-----------------------------------------------------------------------------
\* A turn comes to an end, one way or another.  LiveSpec assumes it of every
\* provider: the code has no time-out for a turn.
TurnEnds == \/ Researched \/ Brief \/ DeepBrief \/ Drafted \/ DeepDrafted \/ Review
            \/ Proceed \/ Redirected \/ Decide \/ Finalize \/ DeepFinalize \/ Block
            \/ Intervened

User == \/ Redirect \/ Interrupt
        \/ BlockAnswered \/ PauseAnswered \/ ClarifyAnswered

Next == TurnEnds \/ TurnFails \/ TurnAborted \/ User

Spec == Init /\ [][Next]_vars
LiveSpec == Spec /\ WF_vars(TurnEnds)

-----------------------------------------------------------------------------
\* A challenge that is not closed is in the lists the next prompts are made
\* from, and only challenges of the section worked on are open, whatever
\* answers, decisions, redirections and forced closes made the ledger.
LedgerConsistent == ledger # NoLedger => Consistent(ledger)

\* A final draft is made from what every reviewer that is left said of that
\* very draft in that round, knowing all the finalizer knows of the user's
\* wishes; nothing of a round that was given up, and no objection the user
\* was to be asked about, gets into it.
FinalIsReviewed ==
  final # NoFinal =>
    /\ {p.by : p \in final.packets} \cap final.reviewers = final.reviewers
    /\ Cardinality(final.packets) = Cardinality({p.by : p \in final.packets})
    /\ \A p \in final.packets :
         /\ p.draft = final.draft /\ p.heard = final.heard /\ p.round = final.round
         /\ mode = "realtime" => p.status # "BLOCK"

\* The file a reader opens is the newest final draft, or the draft the user is
\* asked about; what happens after it was written leaves it.
DraftOnDisk ==
  /\ final # NoFinal => disk = draft
  /\ status = "awaiting-user-input" => disk = Checkpoint
  /\ (final = NoFinal /\ disk # NoText) => Blocked

\* A discussion does not talk on its own for ever: it comes to wait for the
\* user, or it ends.
DiscussionRests == []<>(stage \in {"blocked", "pause", "clarify", "over"})
=============================================================================
