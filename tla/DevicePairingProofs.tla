------------------------ MODULE DevicePairingProofs ------------------------
(***************************************************************************)
(* Proofs about what a runner needs before a session can work: its device  *)
(* token (DevicePairing, first part) and the settings of its providers     *)
(* (ProviderSettings, which MCProviders instantiates as Settings).         *)
(*                                                                         *)
(* Pairing, for any number of claims, devices, browsers and polls.  What   *)
(* the runner holds of a token fits together while it starts (RunnerInv);  *)
(* a token is stored before it is handed out (TokensInv); and the claim    *)
(* the runner polls was registered under the id it had, so an              *)
(* authorization can only name that id (MineInv).                          *)
(*                                                                         *)
(* Settings, for any number of requests and polls and any machine.  A      *)
(* handler is the list of steps it has left, so what it has still to do    *)
(* can be read off that list: a step that changes something is followed    *)
(* by the step that carries it further, from the settings to the caches    *)
(* and the page (PlansOK).  Of a handler that runs alone what it has read  *)
(* still holds, and what it has no step left for is true (HandlersOK).     *)
(* At its last step it has no step left, and that is the last word.        *)
(***************************************************************************)
EXTENDS MCProviders, SequenceTheorems, TLAPS

KeysMatch(keys) == keys.id \in {NoDevice, keys.token}

\* Until it is linked, the runner's memory and its file hold the same token, and
\* it pairs only without one.  What its own store read is that token or none.
RunnerInv ==
    /\ mine # NoClaim => phase \in {"pairing", "linked"}
    /\ asked # NoPoll => mine # NoClaim
    /\ phase \in {"resolving", "registering", "pairing", "saving"}
         => mem.token = disk.token
    /\ phase = "pairing" => mem.token = NoDevice
    /\ KeysMatch(disk) /\ KeysMatch(cache) /\ KeysMatch(mem)
    /\ cache.token \in {disk.token, NoDevice}

\* Whatever carries a token, or is about to, carries one that is stored.
TokensInv ==
    /\ \A a \in Approvals : approval[a].at = "stored" => approval[a].device \in rows
    /\ \A c \in Claims : claim[c].status = "approved" => claim[c].device \in rows
    /\ \A p \in Polls : poll[p].got.status = "approved" => poll[p].got.device \in rows
    /\ \A t \in {disk.token, cache.token, mem.token} : t \in rows \cup {NoDevice}

\* A request under way, of a browser or of the runner, is about a claim that was
\* registered.
RequestsInv ==
    /\ \A a \in Approvals :
          approval[a].at \in {"read", "stored"} =>
             /\ approval[a].claim \in Claims
             /\ claim[approval[a].claim].status # "none"
    /\ \A p \in Polls : poll[p].at # "free" => poll[p].claim \in Claims

\* The claim the runner polls, the approvals of it and the answer it awaits, if
\* they name a device that exists, name the one the runner registered under.
MineInv ==
    mine # NoClaim =>
      /\ claim[mine].status # "none"
      /\ claim[mine].status \in {"pending", "authorized"}
           => claim[mine].device = mem.id
      /\ \A a \in Approvals :
            /\ approval[a].at \in {"read", "stored"}
            /\ approval[a].claim = mine /\ approval[a].result = "authorized"
            => approval[a].device = mem.id
      /\ asked # NoPoll => /\ poll[asked].claim = mine
                           /\ poll[asked].got.status = "authorized"
                                => poll[asked].got.device = mem.id

PairInv == TypeOK /\ RunnerInv /\ TokensInv /\ RequestsInv /\ MineInv

LEMMA InitPair == Init => PairInv
<1> SUFFICES ASSUME Init PROVE PairInv
  OBVIOUS
<1> USE NothingAssumption, LimitsAssumption
<1>1. TypeOK
  BY DEF Init, TypeOK, Entries, Answers, Unanswered, Free, NoKeys, Keys,
     Device, Requests, Loops
<1>2. RunnerInv /\ MineInv
  BY DEF Init, RunnerInv, MineInv, KeysMatch, NoKeys
<1>3. TokensInv /\ RequestsInv
  BY DEF Init, TokensInv, RequestsInv, NoKeys, Free, Unanswered
<1>4. QED
  BY <1>1, <1>2, <1>3 DEF PairInv

-----------------------------------------------------------------------------
(* Types. *)

\* A turn of the loop of a poll: the loop keeps its claim, and a result it has
\* is what the claim holds.
LEMMA ReadClaimStep ==
    ASSUME TypeOK, RequestsInv, NEW p \in Polls, ReadClaim(p)
    PROVE  /\ poll[p].claim \in Claims
           /\ poll' \in [Polls -> Loops]
           /\ \A q \in Polls \ {p} : poll'[q] = poll[q]
           /\ poll'[p].claim = poll[p].claim
           /\ poll'[p].got.status \in {"approved", "authorized"}
                => poll'[p].got = claim[poll[p].claim]
<1>1. poll[p].claim \in Claims
  BY DEF ReadClaim, RequestsInv
<1>2. claim[poll[p].claim] \in Entries /\ poll[p] \in Loops
  BY <1>1 DEF TypeOK
<1>3. \A status \in {"pending", "expired"} :
        [status |-> status, device |-> NoDevice] \in Answers
  BY DEF Answers, Device
<1>4. claim[poll[p].claim].status \in {"approved", "authorized"}
        => claim[poll[p].claim] \in Answers
  BY <1>2 DEF Entries, Answers
<1>5. PICK at \in {"deleting", "answering"}, got \in Answers :
        /\ poll' = [poll EXCEPT ![p] = [poll[p] EXCEPT !.at = at, !.got = got]]
        /\ got.status \in {"approved", "authorized"} => got = claim[poll[p].claim]
  BY <1>3, <1>4 DEF ReadClaim, Answer
<1> DEFINE loop == [poll[p] EXCEPT !.at = at, !.got = got]
<1>6. loop \in Loops /\ loop.claim = poll[p].claim /\ loop.got = got
  BY <1>2 DEF Loops
<1>7. poll'[p] = loop /\ poll' \in [Polls -> Loops]
  BY <1>5, <1>6 DEF TypeOK
<1>8. \A q \in Polls \ {p} : poll'[q] = poll[q]
  BY <1>5 DEF TypeOK
<1>9. QED
  BY <1>1, <1>5, <1>6, <1>7, <1>8

LEMMA TypeStep ==
    TypeOK /\ RequestsInv /\ [Next]_vars => TypeOK'
<1> SUFFICES ASSUME TypeOK, RequestsInv, [Next]_vars PROVE TypeOK'
  OBVIOUS
<1> USE NothingAssumption, LimitsAssumption DEF TypeOK
<1>1. NoKeys \in Keys /\ NoDevice \in Device /\ Devices \subseteq Device
  BY DEF NoKeys, Keys, Device
<1>3. \A d \in Device :
        /\ \A status \in {"none", "pending", "approved", "authorized", "gone"} :
              [status |-> status, device |-> d] \in Entries
        /\ \A status \in {"pending", "expired", "approved", "authorized"} :
              [status |-> status, device |-> d] \in Answers
  BY DEF Entries, Answers
<1>2. \A p \in Polls : poll[p] \in Loops /\ poll[p].got \in Answers
  BY DEF Loops
<1>4. \A entry \in Entries :
        /\ entry.device \in Device
        /\ entry.status \in {"approved", "authorized"} => entry \in Answers
  BY DEF Entries, Answers
<1>5. \A got \in Answers : got.device \in Device
  BY DEF Answers
<1>6. /\ Unanswered \in Answers
      /\ \A c \in Claims \cup {NoClaim}, got \in Answers,
           at \in {"free", "reading", "deleting", "answering"} :
             [at |-> at, claim |-> c, got |-> got] \in Loops
  BY <1>1, <1>3 DEF Loops, Unanswered
<1>7. Free \in Loops
  BY <1>6 DEF Free
<1>8. \A loop \in Loops, got \in Answers :
        \A at \in {"free", "reading", "deleting", "answering"} :
              /\ [loop EXCEPT !.at = at] \in Loops
              /\ [loop EXCEPT !.at = at, !.got = got] \in Loops
  BY DEF Loops
<1>9. \A request \in Requests, d \in Device :
        /\ request.device \in Device
        /\ request.result \in {"approved", "authorized"}
        /\ \A at \in {"unused", "read", "stored", "over"} :
              /\ [request EXCEPT !.at = at] \in Requests
              /\ [request EXCEPT !.at = at, !.device = d] \in Requests
  BY DEF Requests
<1>10. \A c \in Claims, d \in Device, result \in {"approved", "authorized"} :
          [at |-> "read", claim |-> c, device |-> d, result |-> result] \in
    Requests
  BY DEF Requests
<1>a. CASE Boot
  BY <1>a, <1>1 DEF Boot, backVars
<1>b. CASE Resolve
  BY <1>b DEF Keys, Device, Resolve, Known, Unresolved, backVars
<1>c. CASE RegisterFails
  BY <1>c, <1>1 DEF Keys, Device, Entries, RegisterFails, MayHaveClaimed, Exit
<1>d. CASE Deadline
  BY <1>d, <1>1 DEF Deadline, GiveUp, Exit, StopPolling, backVars
<1>e. ASSUME GoesOnOrNot PROVE poll' \in [Polls -> Loops]
  BY <1>e, <1>7 DEF GoesOnOrNot
<1>f. CASE FetchFails
  BY <1>f, <1>e, <1>1 DEF FetchFails, GiveUp, Exit, StopPolling
<1>g. CASE ErrorStatus
  BY <1>g, <1>e, <1>1 DEF ErrorStatus, GiveUp, Exit, StopPolling
<1>h. CASE SaveId
  BY <1>h DEF Keys, Device, SaveId, backVars
<1>i. CASE SaveApiKey
  BY <1>i DEF SaveApiKey, backVars
<1>j. CASE Crash
  BY <1>j, <1>1 DEF Crash, Exit, backVars
<1>k. ASSUME NEW c \in Claims, Register(c) PROVE TypeOK'
  BY <1>k DEF Keys, Device, Entries, Register
<1>l. ASSUME NEW p \in Polls, Ask(p) PROVE TypeOK'
  BY <1>l, <1>6 DEF Ask
<1>m. ASSUME NEW p \in Polls, Answered(p) PROVE TypeOK'
  <2>1. poll[p].got.device \in Device
    BY <1>2, <1>5
  <2>2. poll' \in [Polls -> Loops]
    BY <1>m, <1>7 DEF Answered
  <2>3. UNCHANGED <<rows, revoked, claim, approval>>
    BY <1>m DEF Answered
  <2>4. CASE ~ \E got \in {poll[p].got} : TakeResult(got)
    BY <1>m, <2>2, <2>3, <2>4, <1>1 DEF Answered, GiveUp, Exit, StopPolling
  <2>5. CASE TakeResult(poll[p].got)
    BY <2>1, <2>2, <2>3, <2>5, <1>1
       DEF Keys, Device, TakeResult, Exit, StopPolling
  <2>6. QED
    BY <2>4, <2>5
<1>n. ASSUME NEW p \in Polls, ReadClaim(p) PROVE TypeOK'
  BY <1>n, ReadClaimStep DEF ReadClaim, runnerVars
<1>o. ASSUME NEW p \in Polls, Consume(p) PROVE TypeOK'
  <2>1. [poll[p] EXCEPT !.at = "answering"] \in Loops
    BY <1>2, <1>8
  <2>2. QED
    BY <1>o, <2>1, <1>1, <1>3 DEF Consume, Gone, runnerVars
<1>p. ASSUME NEW p \in Polls, Dropped(p) PROVE TypeOK'
  BY <1>p, <1>7 DEF Dropped, runnerVars
<1>q. ASSUME NEW c \in Claims, Expire(c) PROVE TypeOK'
  BY <1>q, <1>1, <1>3 DEF Expire, Gone, runnerVars
<1>r. ASSUME NEW d \in Devices, Revoke(d) PROVE TypeOK'
  BY <1>r DEF Revoke, runnerVars
<1>s. ASSUME NEW a \in Approvals, NEW c \in Claims, Approve(a, c) PROVE TypeOK'
  BY <1>s, <1>4, <1>10 DEF Approve, runnerVars
<1>t. ASSUME NEW a \in Approvals, Insert(a) PROVE TypeOK'
  <2>1. PICK d \in Devices \ rows :
          /\ rows' = rows \cup {d}
          /\ approval' = [approval EXCEPT
                ![a] = [@ EXCEPT !.at = "stored", !.device = d]]
    BY <1>t DEF Insert
  <2>2. [approval[a] EXCEPT !.at = "stored", !.device = d] \in Requests
    BY <1>1, <1>9
  <2>3. QED
    BY <1>t, <2>1, <2>2 DEF Insert, runnerVars
<1>u. ASSUME NEW a \in Approvals, Authorize(a) PROVE TypeOK'
  BY <1>u, <1>1, <1>9 DEF Authorize, runnerVars
<1>v. ASSUME NEW a \in Approvals, StoreFails(a) PROVE TypeOK'
  BY <1>v, <1>1, <1>9 DEF StoreFails, runnerVars
<1>w. ASSUME NEW a \in Approvals, WriteClaim(a) PROVE TypeOK'
  BY <1>w, <1>1, <1>3, <1>9 DEF WriteClaim, runnerVars
<1>x. CASE UNCHANGED vars
  BY <1>x DEF vars, backVars, runnerVars
<1>y. QED
  BY <1>a, <1>b, <1>c, <1>d, <1>f, <1>g, <1>h, <1>i, <1>j, <1>k, <1>l, <1>m, <1>n,
     <1>o, <1>p, <1>q, <1>r, <1>s, <1>t, <1>u, <1>v, <1>w, <1>x
     DEF Next, Runner, Backend

-----------------------------------------------------------------------------
(* What the runner holds. *)

LEMMA RunnerStep ==
    TypeOK /\ RunnerInv /\ MineInv /\ [Next]_vars => RunnerInv'
<1> SUFFICES ASSUME TypeOK, RunnerInv, MineInv, [Next]_vars PROVE RunnerInv'
  OBVIOUS
<1> USE NothingAssumption, LimitsAssumption DEF TypeOK, Keys, Device, NoKeys,
    RunnerInv, KeysMatch, MineInv, Answers, Loops
<1>1. CASE Boot
  BY <1>1 DEF Boot, backVars
<1>2. CASE Resolve
  BY <1>2 DEF Resolve, Known, Unresolved, backVars
<1>3. CASE RegisterFails
  BY <1>3 DEF RegisterFails, MayHaveClaimed, Exit, backVars
<1>4. CASE Deadline
  BY <1>4 DEF Deadline, GiveUp, Exit, StopPolling, backVars
<1>5. CASE FetchFails
  BY <1>5 DEF FetchFails, GiveUp, Exit, StopPolling, GoesOnOrNot, backVars
<1>6. CASE ErrorStatus
  BY <1>6 DEF ErrorStatus, GiveUp, Exit, StopPolling, GoesOnOrNot, backVars
<1>7. CASE SaveId
  BY <1>7 DEF SaveId, backVars
<1>8. CASE SaveApiKey
  BY <1>8 DEF SaveApiKey, backVars
<1>9. CASE Crash
  BY <1>9 DEF Crash, Exit, backVars
<1>10. ASSUME NEW c \in Claims, Register(c) PROVE RunnerInv'
  BY <1>10 DEF Register, backVars
<1>11. ASSUME NEW p \in Polls, Ask(p) PROVE RunnerInv'
  BY <1>11 DEF Ask, backVars
<1>12. ASSUME NEW p \in Polls, Answered(p) PROVE RunnerInv'
  BY <1>12 DEF Answered, TakeResult, GiveUp, Exit, StopPolling, backVars
<1>13. ASSUME NEW p \in Polls, ReadClaim(p) PROVE RunnerInv'
  BY <1>13, ReadClaimStep DEF ReadClaim, runnerVars
<1>14. ASSUME NEW p \in Polls, Consume(p) PROVE RunnerInv'
  BY <1>14 DEF Consume, Gone, runnerVars
<1>15. ASSUME NEW p \in Polls, Dropped(p) PROVE RunnerInv'
  BY <1>15 DEF Dropped, runnerVars
<1>16. ASSUME NEW c \in Claims, Expire(c) PROVE RunnerInv'
  BY <1>16 DEF Expire, Gone, runnerVars
<1>17. ASSUME NEW d \in Devices, Revoke(d) PROVE RunnerInv'
  BY <1>17 DEF Revoke, runnerVars
<1>18. ASSUME NEW a \in Approvals, NEW c \in Claims, Approve(a, c)
      PROVE  RunnerInv'
  BY <1>18 DEF Approve, runnerVars
<1>19. ASSUME NEW a \in Approvals, Insert(a) PROVE RunnerInv'
  BY <1>19 DEF Insert, runnerVars
<1>20. ASSUME NEW a \in Approvals, Authorize(a) PROVE RunnerInv'
  BY <1>20 DEF Authorize, runnerVars
<1>21. ASSUME NEW a \in Approvals, StoreFails(a) PROVE RunnerInv'
  BY <1>21 DEF StoreFails, runnerVars
<1>22. ASSUME NEW a \in Approvals, WriteClaim(a) PROVE RunnerInv'
  BY <1>22 DEF WriteClaim, runnerVars
<1>23. CASE UNCHANGED vars
  BY <1>23 DEF vars, backVars, runnerVars
<1>24. QED
  BY <1>1, <1>2, <1>3, <1>4, <1>5, <1>6, <1>7, <1>8, <1>9, <1>10, <1>11, <1>12,
     <1>13, <1>14, <1>15, <1>16, <1>17, <1>18, <1>19, <1>20, <1>21, <1>22, <1>23
     DEF Next, Runner, Backend

-----------------------------------------------------------------------------
(* Tokens are stored first. *)

LEMMA TokensStep ==
    TypeOK /\ RequestsInv /\ TokensInv /\ [Next]_vars => TokensInv'
<1> SUFFICES ASSUME TypeOK, RequestsInv, TokensInv, [Next]_vars PROVE TokensInv'
  OBVIOUS
<1> USE NothingAssumption, LimitsAssumption DEF TypeOK, Requests, Loops, Keys,
    Device, Entries, Answers, NoKeys, Free, Unanswered, TokensInv
<1>1. CASE Boot
  BY <1>1 DEF Boot, backVars
<1>2. CASE Resolve
  BY <1>2 DEF Resolve, Known, Unresolved, backVars
<1>3. CASE RegisterFails
  BY <1>3 DEF RegisterFails, MayHaveClaimed, Exit, backVars
<1>4. CASE Deadline
  BY <1>4 DEF Deadline, GiveUp, Exit, StopPolling, backVars
<1>5. CASE FetchFails
  BY <1>5 DEF FetchFails, GiveUp, Exit, StopPolling, GoesOnOrNot, backVars
<1>6. CASE ErrorStatus
   <2>1. \A p \in Polls : poll'[p].got.status = "approved" =>
    poll'[p].got.device \in rows
    BY <1>6, SMTT(30) DEF ErrorStatus, GoesOnOrNot
  <2>2. QED
    BY <1>6, <2>1 DEF ErrorStatus, GiveUp, Exit, StopPolling
<1>7. CASE SaveId
  BY <1>7 DEF SaveId, backVars
<1>8. CASE SaveApiKey
  BY <1>8 DEF SaveApiKey, backVars
<1>9. CASE Crash
  BY <1>9 DEF Crash, Exit, backVars
<1>10. ASSUME NEW c \in Claims, Register(c) PROVE TokensInv'
  BY <1>10 DEF Register, backVars
<1>11. ASSUME NEW p \in Polls, Ask(p) PROVE TokensInv'
  BY <1>11 DEF Ask, backVars
<1>12. ASSUME NEW p \in Polls, Answered(p) PROVE TokensInv'
  BY <1>12 DEF Answered, TakeResult, GiveUp, Exit, StopPolling, backVars
<1>13. ASSUME NEW p \in Polls, ReadClaim(p) PROVE TokensInv'
  <2>1. poll'[p].got.status = "approved" => poll'[p].got.device \in rows
    BY <1>13, ReadClaimStep
   <2>2. \A q \in Polls : poll'[q].got.status = "approved" =>
    poll'[q].got.device \in rows
    BY <1>13, <2>1, ReadClaimStep, SMTT(30)
  <2>3. QED
    BY <1>13, <2>2 DEF ReadClaim, runnerVars
<1>14. ASSUME NEW p \in Polls, Consume(p) PROVE TokensInv'
  BY <1>14 DEF Consume, Gone, runnerVars
<1>15. ASSUME NEW p \in Polls, Dropped(p) PROVE TokensInv'
  BY <1>15 DEF Dropped, runnerVars
<1>16. ASSUME NEW c \in Claims, Expire(c) PROVE TokensInv'
  BY <1>16 DEF Expire, Gone, runnerVars
<1>17. ASSUME NEW d \in Devices, Revoke(d) PROVE TokensInv'
  BY <1>17 DEF Revoke, runnerVars
<1>18. ASSUME NEW a \in Approvals, NEW c \in Claims, Approve(a, c)
      PROVE  TokensInv'
  BY <1>18 DEF Approve, runnerVars
<1>19. ASSUME NEW a \in Approvals, Insert(a) PROVE TokensInv'
  BY <1>19 DEF Insert, runnerVars
<1>20. ASSUME NEW a \in Approvals, Authorize(a) PROVE TokensInv'
  BY <1>20 DEF Authorize, runnerVars
<1>21. ASSUME NEW a \in Approvals, StoreFails(a) PROVE TokensInv'
  BY <1>21 DEF StoreFails, runnerVars
<1>22. ASSUME NEW a \in Approvals, WriteClaim(a) PROVE TokensInv'
  BY <1>22 DEF WriteClaim, runnerVars
<1>23. CASE UNCHANGED vars
  BY <1>23 DEF vars, backVars, runnerVars
<1>24. QED
  BY <1>1, <1>2, <1>3, <1>4, <1>5, <1>6, <1>7, <1>8, <1>9, <1>10, <1>11, <1>12,
     <1>13, <1>14, <1>15, <1>16, <1>17, <1>18, <1>19, <1>20, <1>21, <1>22, <1>23
     DEF Next, Runner, Backend

-----------------------------------------------------------------------------
(* Requests are about registered claims. *)

LEMMA RequestsStep ==
    TypeOK /\ RequestsInv /\ [Next]_vars => RequestsInv'
<1> SUFFICES ASSUME TypeOK, RequestsInv, [Next]_vars PROVE RequestsInv'
  OBVIOUS
<1> USE NothingAssumption, LimitsAssumption DEF TypeOK, Requests, Loops, Free,
    Entries, RequestsInv
<1>1. CASE Boot
  BY <1>1 DEF Boot, backVars
<1>2. CASE Resolve
  BY <1>2 DEF Resolve, Known, Unresolved, backVars
<1>3. CASE RegisterFails
  BY <1>3 DEF RegisterFails, MayHaveClaimed, Exit, backVars
<1>4. CASE Deadline
  BY <1>4 DEF Deadline, GiveUp, Exit, StopPolling, backVars
<1>5. CASE FetchFails
  BY <1>5 DEF FetchFails, GiveUp, Exit, StopPolling, GoesOnOrNot, backVars
<1>6. CASE ErrorStatus
  BY <1>6 DEF ErrorStatus, GiveUp, Exit, StopPolling, GoesOnOrNot, backVars
<1>7. CASE SaveId
  BY <1>7 DEF SaveId, backVars
<1>8. CASE SaveApiKey
  BY <1>8 DEF SaveApiKey, backVars
<1>9. CASE Crash
  BY <1>9 DEF Crash, Exit, backVars
<1>10. ASSUME NEW c \in Claims, Register(c) PROVE RequestsInv'
  BY <1>10 DEF Register, backVars
<1>11. ASSUME NEW p \in Polls, Ask(p) PROVE RequestsInv'
  BY <1>11 DEF Ask, backVars
<1>12. ASSUME NEW p \in Polls, Answered(p) PROVE RequestsInv'
  BY <1>12 DEF Answered, TakeResult, GiveUp, Exit, StopPolling, backVars
<1>13. ASSUME NEW p \in Polls, ReadClaim(p) PROVE RequestsInv'
  BY <1>13, ReadClaimStep DEF ReadClaim, runnerVars
<1>14. ASSUME NEW p \in Polls, Consume(p) PROVE RequestsInv'
  BY <1>14 DEF Consume, Gone, runnerVars
<1>15. ASSUME NEW p \in Polls, Dropped(p) PROVE RequestsInv'
  BY <1>15 DEF Dropped, runnerVars
<1>16. ASSUME NEW c \in Claims, Expire(c) PROVE RequestsInv'
  BY <1>16 DEF Expire, Gone, runnerVars
<1>17. ASSUME NEW d \in Devices, Revoke(d) PROVE RequestsInv'
  BY <1>17 DEF Revoke, runnerVars
<1>18. ASSUME NEW a \in Approvals, NEW c \in Claims, Approve(a, c)
      PROVE  RequestsInv'
  BY <1>18 DEF Approve, runnerVars
<1>19. ASSUME NEW a \in Approvals, Insert(a) PROVE RequestsInv'
  BY <1>19 DEF Insert, runnerVars
<1>20. ASSUME NEW a \in Approvals, Authorize(a) PROVE RequestsInv'
  BY <1>20 DEF Authorize, runnerVars
<1>21. ASSUME NEW a \in Approvals, StoreFails(a) PROVE RequestsInv'
  BY <1>21 DEF StoreFails, runnerVars
<1>22. ASSUME NEW a \in Approvals, WriteClaim(a) PROVE RequestsInv'
  BY <1>22 DEF WriteClaim, runnerVars
<1>23. CASE UNCHANGED vars
  BY <1>23 DEF vars, backVars, runnerVars
<1>24. QED
  BY <1>1, <1>2, <1>3, <1>4, <1>5, <1>6, <1>7, <1>8, <1>9, <1>10, <1>11, <1>12,
     <1>13, <1>14, <1>15, <1>16, <1>17, <1>18, <1>19, <1>20, <1>21, <1>22, <1>23
     DEF Next, Runner, Backend

-----------------------------------------------------------------------------
(* The claim the runner polls. *)

LEMMA MineStep ==
    TypeOK /\ RunnerInv /\ RequestsInv /\ MineInv /\ [Next]_vars => MineInv'
<1> SUFFICES ASSUME TypeOK, RunnerInv, RequestsInv, MineInv, [Next]_vars
      PROVE  MineInv'
  OBVIOUS
<1> USE NothingAssumption, LimitsAssumption DEF TypeOK, Requests, Loops,
    Entries, Answers, NoKeys, Free, Unanswered, RunnerInv, RequestsInv, MineInv
<1>1. CASE Boot
  BY <1>1 DEF Boot, backVars
<1>2. CASE Resolve
  BY <1>2 DEF Resolve, Known, Unresolved, backVars
<1>3. CASE RegisterFails
  BY <1>3 DEF RegisterFails, MayHaveClaimed, Exit, backVars
<1>4. CASE Deadline
  BY <1>4 DEF Deadline, GiveUp, Exit, StopPolling, backVars
<1>5. CASE FetchFails
  BY <1>5 DEF FetchFails, GiveUp, Exit, StopPolling, GoesOnOrNot, backVars
<1>6. CASE ErrorStatus
  BY <1>6 DEF ErrorStatus, GiveUp, Exit, StopPolling, GoesOnOrNot, backVars
<1>7. CASE SaveId
  BY <1>7 DEF SaveId, backVars
<1>8. CASE SaveApiKey
  BY <1>8 DEF SaveApiKey, backVars
<1>9. CASE Crash
  BY <1>9 DEF Crash, Exit, backVars
<1>10. ASSUME NEW c \in Claims, Register(c) PROVE MineInv'
  BY <1>10 DEF Register, backVars
<1>11. ASSUME NEW p \in Polls, Ask(p) PROVE MineInv'
  BY <1>11 DEF Ask, backVars
<1>12. ASSUME NEW p \in Polls, Answered(p) PROVE MineInv'
  BY <1>12 DEF Answered, TakeResult, GiveUp, Exit, StopPolling, backVars
<1>13. ASSUME NEW p \in Polls, ReadClaim(p) PROVE MineInv'
  <2>1. ASSUME asked = p, mine # NoClaim
        PROVE  /\ poll'[p].claim = mine
               /\ poll'[p].got.status = "authorized"
                    => poll'[p].got.device = mem.id
    BY <1>13, <2>1, ReadClaimStep
  <2>2. ASSUME asked # p, asked # NoPoll PROVE poll'[asked] = poll[asked]
    BY <1>13, <2>2, ReadClaimStep
  <2>3. QED
    BY <1>13, <2>1, <2>2 DEF ReadClaim, runnerVars
<1>14. ASSUME NEW p \in Polls, Consume(p) PROVE MineInv'
  BY <1>14 DEF Consume, Gone, runnerVars
<1>15. ASSUME NEW p \in Polls, Dropped(p) PROVE MineInv'
  BY <1>15 DEF Dropped, runnerVars
<1>16. ASSUME NEW c \in Claims, Expire(c) PROVE MineInv'
  BY <1>16 DEF Expire, Gone, runnerVars
<1>17. ASSUME NEW d \in Devices, Revoke(d) PROVE MineInv'
  BY <1>17 DEF Revoke, runnerVars
<1>18. ASSUME NEW a \in Approvals, NEW c \in Claims, Approve(a, c) PROVE MineInv'
  BY <1>18 DEF Approve, runnerVars
<1>19. ASSUME NEW a \in Approvals, Insert(a) PROVE MineInv'
  BY <1>19 DEF Insert, runnerVars
<1>20. ASSUME NEW a \in Approvals, Authorize(a) PROVE MineInv'
  BY <1>20 DEF Authorize, runnerVars
<1>21. ASSUME NEW a \in Approvals, StoreFails(a) PROVE MineInv'
  BY <1>21 DEF StoreFails, runnerVars
<1>22. ASSUME NEW a \in Approvals, WriteClaim(a) PROVE MineInv'
  BY <1>22 DEF WriteClaim, runnerVars
<1>23. CASE UNCHANGED vars
  BY <1>23 DEF vars, backVars, runnerVars
<1>24. QED
  BY <1>1, <1>2, <1>3, <1>4, <1>5, <1>6, <1>7, <1>8, <1>9, <1>10, <1>11, <1>12,
     <1>13, <1>14, <1>15, <1>16, <1>17, <1>18, <1>19, <1>20, <1>21, <1>22, <1>23
     DEF Next, Runner, Backend

-----------------------------------------------------------------------------
(* The theorems. *)

LEMMA PairStep == PairInv /\ [Next]_vars => PairInv'
  BY TypeStep, RunnerStep, TokensStep, RequestsStep, MineStep DEF PairInv

\* The inductive invariant: what the runner holds fits together, tokens are
\* stored before they are handed out, and the claim it polls can only authorize
\* the id it registered.
THEOREM PairingInvariant == Spec => []PairInv
  BY InitPair, PairStep, PTL DEF Spec

\* Every variable keeps its type; that the count of errors stays below its limit
\* is the runner's giving up in time.
THEOREM TypeCorrect == Spec => []TypeOK
<1>1. PairInv => TypeOK
  BY DEF PairInv
<1>2. QED
  BY PairingInvariant, <1>1, PTL

\* Nobody has, or is about to get, a token the database does not know, whatever
\* requests failed.
THEOREM TokensAreGood == Spec => []TokenIsGood
<1>1. PairInv => TokenIsGood
  BY DEF PairInv, TokensInv, TokenIsGood, Circulating, InClaims, InAnswers
<1>2. QED
  BY PairingInvariant, <1>1, PTL

\* The id the runner keeps on its disk is that of the token beside it.
THEOREM IdsMatchTokens == Spec => []IdMatchesToken
<1>1. PairInv => IdMatchesToken
  BY DEF PairInv, RunnerInv, KeysMatch, IdMatchesToken
<1>2. QED
  BY PairingInvariant, <1>1, PTL

\* No step puts another token in the place of the one the runner has: it pairs
\* only without one, and what its store writes back is that token or none.
LEMMA NoStepReplaces ==
    PairInv /\ [Next]_vars
      => [disk.token # NoDevice => disk'.token \in {disk.token, NoDevice}]_vars
<1> SUFFICES ASSUME TypeOK, RunnerInv, [Next]_vars, disk.token # NoDevice
             PROVE  disk'.token \in {disk.token, NoDevice}
  BY DEF PairInv
<1> USE DEF TypeOK, Keys, RunnerInv
<1>1. CASE Resolve
  BY <1>1 DEF Resolve, Known, Unresolved
<1>2. CASE SaveId
  BY <1>2 DEF SaveId
<1>3. CASE SaveApiKey
  BY <1>3 DEF SaveApiKey
<1>4. ASSUME NEW p \in Polls, Answered(p)
      PROVE  disk'.token \in {disk.token, NoDevice}
  BY <1>4 DEF Answered, TakeResult
<1>5. CASE UNCHANGED disk
  BY <1>5
<1>6. QED
  BY <1>1, <1>2, <1>3, <1>4, <1>5
     DEF Next, Runner, Backend, Boot, RegisterFails, Deadline, FetchFails,
         ErrorStatus, Crash, Register, Ask, ReadClaim, Consume, Dropped, Expire,
          Revoke, Approve, Insert, Authorize, StoreFails, WriteClaim, vars,
    runnerVars

THEOREM TokensAreNotReplaced == Spec => TokenNotReplaced
<1>1. PairInv /\ [Next]_vars
        => [disk.token # NoDevice => disk'.token \in {disk.token, NoDevice}]_vars
  BY NoStepReplaces
<1>2. QED
  BY PairingInvariant, <1>1, PTL DEF Spec, TokenNotReplaced

-----------------------------------------------------------------------------
(***************************************************************************)
(* The settings of a provider: types.                                      *)
(***************************************************************************)
Kinds == {"codex", "claude", "gemini"}
Modes == {"cli", "apiKey"}
NotionStates == {"absent", "added", "joined"}
Clis == [installed : BOOLEAN, login : BOOLEAN, notion : NotionStates]
Statuses == {"untested", "asking", "healthy", "unhealthy", "missing"}

StepNames ==
  {"detect", "credential", "ask", "save", "install", "load", "look", "count", "keep", "hold",
   "set", "saveKey", "clearKey", "probe", "sign", "signOut", "list", "connect", "consent",
   "remove", "token", "pause", "answer", "borrow", "repay"}
Handlers ==
  [op : Settings!Asked \cup {"auth"}, todo : Seq(StepNames), mode : Modes, key : BOOLEAN,
   token : BOOLEAN, installed : BOOLEAN, status : Statuses,
   seen : NotionStates \cup {Settings!Unknown, "done", "wait"},
   answer : {"none", "healthy", "sign", "wait"}, late : BOOLEAN, given : BOOLEAN,
   failed : BOOLEAN, alone : BOOLEAN, polls : Nat]

SettingsTypes ==
  /\ kind \in Kinds /\ cli \in Clis /\ authMode \in Modes
  /\ key \in BOOLEAN /\ token \in BOOLEAN /\ signing \in BOOLEAN
  /\ file \in Statuses
  /\ ops \in [Settings!Requests -> Handlers \cup {Settings!Idle}]

(***************************************************************************)
(* The plan of a handler: which step another one still makes good.         *)
(***************************************************************************)
Comes(step, todo) == \E i \in 1..Len(todo) : todo[i] = step
\* After one of these steps comes that one.
MadeGood(steps, by, todo) ==
  \A i \in 1..Len(todo) : todo[i] \in steps => \E j \in (i + 1)..Len(todo) : todo[j] = by
\* That step comes after one of these only.
OnlyAfter(step, steps, todo) ==
  \A i \in 1..Len(todo) : i > 1 /\ todo[i] = step => todo[i - 1] \in steps

\* What changes something the sidebar state shows, or what is known of Notion.
Changes == {"set", "saveKey", "clearKey", "token", "save", "install", "probe", "list"}
LoginSteps == {"probe", "sign", "signOut", "detect", "credential", "ask"}
NotionSteps == {"connect", "consent", "remove"}
Tests == {"test", "auth", "logout"}
\* Steps that a handler of this kind has none of.
Foreign(op) ==
  (IF op \in Settings!NotionOps THEN {"install", "probe"} ELSE {})
  \cup (IF op \in Tests THEN {"set", "saveKey", "clearKey", "token"} \cup NotionSteps
        ELSE {})

PlanOK(todo) ==
  /\ Len(todo) > 0
  /\ MadeGood(Changes, "keep", todo)
  /\ MadeGood(LoginSteps, "save", todo)
  /\ MadeGood(NotionSteps, "list", todo)
  /\ OnlyAfter("credential", {"detect"}, todo)
  /\ OnlyAfter("ask", {"credential"}, todo)
  /\ OnlyAfter("save", {"ask"}, todo)
  /\ OnlyAfter("look", {"load"}, todo)
  /\ OnlyAfter("count", {"look"}, todo)
  /\ OnlyAfter("keep", {"count"}, todo)
  /\ OnlyAfter("hold", {"count"}, todo)
  /\ \A i \in 1..Len(todo) : todo[i] = "credential" =>
       i + 2 <= Len(todo) /\ todo[i + 1] = "ask" /\ todo[i + 2] = "save"
  /\ \A i \in 1..Len(todo) : todo[i] = "connect" =>
       /\ i + 3 <= Len(todo) /\ todo[i + 1] = "consent" /\ todo[i + 2] = "list"
       /\ todo[i + 3] = "load"
       /\ \E j \in (i + 4)..Len(todo) : todo[j] = "list"
  /\ \A i \in 1..Len(todo) : todo[i] = "install" =>
       /\ Len(todo) = i + 5 /\ todo[i + 1] = "load" /\ todo[i + 2] = "look"
       /\ todo[i + 3] = "count" /\ todo[i + 4] = "keep" /\ todo[i + 5] = "answer"
  /\ \A i \in 1..Len(todo) : todo[i] = "answer" <=> i = Len(todo)
  /\ \A i \in 1..Len(todo) : todo[i] \notin {"borrow", "repay"}

\* Another provider's handler only has the status file in its hands.
Planned(o) ==
  IF o.op = "other" THEN o.todo \in {<<"borrow", "repay">>, <<"repay">>} ELSE PlanOK(o.todo)

\* Before these steps something was read.
Mid == {"credential", "ask", "save", "look", "count", "keep", "hold"}

\* The plan of a handler that has only begun.
Whole(op, todo) ==
  /\ todo \in Seq(StepNames) /\ PlanOK(todo)
  /\ Head(todo) \notin Mid
  /\ Comes("keep", todo)
  /\ op \in Tests => Comes("save", todo)
  /\ op \in Settings!NotionOps => Comes("list", todo)
  /\ \A s \in Foreign(op) : ~Comes(s, todo)

(***************************************************************************)
(* What a handler that runs alone has read, and what it has made true.     *)
(***************************************************************************)
\* A status a test may save: the true one.  Without a key nobody looks at it.
Right(status) == (authMode = "apiKey" /\ ~key) \/ status = Settings!TrueStatus

\* What the steps before this one have read is what is there.
HasRead(o) ==
  LET step == Head(o.todo)
  IN  /\ step \in {"credential", "ask", "count", "keep", "hold"} =>
           o.mode = authMode /\ o.installed = cli.installed
      /\ step = "ask" => authMode = "cli" /\ cli.installed
      /\ step = "save" /\ ~o.late => Right(o.status)
      /\ step \in {"look", "count", "keep", "hold"} => o.status = file
      /\ step \in {"keep", "hold"} => o.key = key /\ o.token = token

\* The sidebar state shows the settings, what is known of Notion and the saved status,
\* and the page shows the same if the handler's answer or snapshot has reached it.
Shows(op) ==
  /\ store = Settings!View(authMode, key, token, cli.installed, file, store.notion)
  /\ op \in Settings!NotionOps /\ cli.installed => store.notion = Settings!NotionSeen
  /\ op \in Settings!Busy => page = store

\* What a handler has no step left for is true.
Promise(op, late, todo) ==
  /\ \A s \in Foreign(op) : ~Comes(s, todo)
  /\ ~Comes("save", todo) /\ op \in Tests /\ ~late => Right(file)
  /\ ~Comes("list", todo) /\ op \in Settings!NotionOps => known = Settings!NotionSeen
  /\ ~Comes("keep", todo) => Shows(op)

HandlerOK(o) == Promise(o.op, o.late, o.todo) /\ HasRead(o)

\* Alone since it began, without an error, and not another provider's.
Sure(o) == o.alone /\ ~o.failed /\ o.op # "other"
\* Of two handlers under way neither counts as alone: the one is told when it begins,
\* the other when it is joined.
AloneIsAlone ==
  \A r \in Settings!Requests :
    ops[r] # Settings!Idle /\ ops[r].alone => ops[3 - r] = Settings!Idle
PlansOK ==
  \A r \in Settings!Requests : \A o \in {ops[r]} : o # Settings!Idle => Planned(o)
HandlersOK ==
  \A r \in Settings!Requests : \A o \in {ops[r]} : o # Settings!Idle /\ Sure(o) => HandlerOK(o)

SettingsInv ==
  SettingsTypes /\ PlansOK /\ AloneIsAlone /\ HandlersOK /\ LastWordIsTrue

-----------------------------------------------------------------------------
LEMMA TestPlan == Whole("test", Settings!Handler("test"))
<1> DEFINE t == Settings!Handler("test")
<1>1. /\ t \in Seq(StepNames) /\ Len(t) = 10
      /\ t[1] = "detect" /\ t[2] = "credential" /\ t[3] = "ask" /\ t[4] = "save"
      /\ t[5] = "install" /\ t[6] = "load" /\ t[7] = "look" /\ t[8] = "count"
      /\ t[9] = "keep" /\ t[10] = "answer"
  BY DEF Settings!Handler, Settings!Polling, Settings!Testing, Settings!Refresh, Settings!Again,
         StepNames
<1> HIDE DEF t
<1>2. PlanOK(t)
  BY <1>1 DEF PlanOK, MadeGood, OnlyAfter, Changes, LoginSteps, NotionSteps
<1>3. \A s \in Foreign("test") : ~Comes(s, t)
  BY <1>1 DEF Foreign, Comes, Tests, Settings!NotionOps, NotionSteps
<1>4. Whole("test", t)
  BY <1>1, <1>2, <1>3 DEF Whole, Comes, Mid, Tests, Settings!NotionOps
<1> QED BY <1>4 DEF t

LEMMA PollingPlan == Whole("test", Settings!Polling)
<1> DEFINE t == Settings!Polling
<1>1. /\ t \in Seq(StepNames) /\ Len(t) = 11
      /\ t[1] = "pause" /\ t[2] = "detect" /\ t[3] = "credential" /\ t[4] = "ask"
      /\ t[5] = "save" /\ t[6] = "install" /\ t[7] = "load" /\ t[8] = "look"
      /\ t[9] = "count" /\ t[10] = "keep" /\ t[11] = "answer"
  BY DEF Settings!Handler, Settings!Polling, Settings!Testing, Settings!Refresh, Settings!Again,
         StepNames
<1> HIDE DEF t
<1>2. PlanOK(t)
  BY <1>1 DEF PlanOK, MadeGood, OnlyAfter, Changes, LoginSteps, NotionSteps
<1>3. \A s \in Foreign("test") : ~Comes(s, t)
  BY <1>1 DEF Foreign, Comes, Tests, Settings!NotionOps, NotionSteps
<1>4. Whole("test", t)
  BY <1>1, <1>2, <1>3 DEF Whole, Comes, Mid, Tests, Settings!NotionOps
<1> QED BY <1>4 DEF t

LEMMA ConfigPlan == Whole("config", Settings!Handler("config"))
<1> DEFINE t == Settings!Handler("config")
<1>1. /\ t \in Seq(StepNames) /\ Len(t) = 6
      /\ t[1] = "set" /\ t[2] = "load" /\ t[3] = "look" /\ t[4] = "count"
      /\ t[5] = "keep" /\ t[6] = "answer"
  BY DEF Settings!Handler, Settings!Polling, Settings!Testing, Settings!Refresh, Settings!Again,
         StepNames
<1> HIDE DEF t
<1>2. PlanOK(t)
  BY <1>1 DEF PlanOK, MadeGood, OnlyAfter, Changes, LoginSteps, NotionSteps
<1>3. \A s \in Foreign("config") : ~Comes(s, t)
  BY <1>1 DEF Foreign, Comes, Tests, Settings!NotionOps, NotionSteps
<1>4. Whole("config", t)
  BY <1>1, <1>2, <1>3 DEF Whole, Comes, Mid, Tests, Settings!NotionOps
<1> QED BY <1>4 DEF t

LEMMA KeyPlan == Whole("key", Settings!Handler("key"))
<1> DEFINE t == Settings!Handler("key")
<1>1. /\ t \in Seq(StepNames) /\ Len(t) = 6
      /\ t[1] = "saveKey" /\ t[2] = "load" /\ t[3] = "look" /\ t[4] = "count"
      /\ t[5] = "keep" /\ t[6] = "answer"
  BY DEF Settings!Handler, Settings!Polling, Settings!Testing, Settings!Refresh, Settings!Again,
         StepNames
<1> HIDE DEF t
<1>2. PlanOK(t)
  BY <1>1 DEF PlanOK, MadeGood, OnlyAfter, Changes, LoginSteps, NotionSteps
<1>3. \A s \in Foreign("key") : ~Comes(s, t)
  BY <1>1 DEF Foreign, Comes, Tests, Settings!NotionOps, NotionSteps
<1>4. Whole("key", t)
  BY <1>1, <1>2, <1>3 DEF Whole, Comes, Mid, Tests, Settings!NotionOps
<1> QED BY <1>4 DEF t

LEMMA NoKeyPlan == Whole("noKey", Settings!Handler("noKey"))
<1> DEFINE t == Settings!Handler("noKey")
<1>1. /\ t \in Seq(StepNames) /\ Len(t) = 6
      /\ t[1] = "clearKey" /\ t[2] = "load" /\ t[3] = "look" /\ t[4] = "count"
      /\ t[5] = "keep" /\ t[6] = "answer"
  BY DEF Settings!Handler, Settings!Polling, Settings!Testing, Settings!Refresh, Settings!Again,
         StepNames
<1> HIDE DEF t
<1>2. PlanOK(t)
  BY <1>1 DEF PlanOK, MadeGood, OnlyAfter, Changes, LoginSteps, NotionSteps
<1>3. \A s \in Foreign("noKey") : ~Comes(s, t)
  BY <1>1 DEF Foreign, Comes, Tests, Settings!NotionOps, NotionSteps
<1>4. Whole("noKey", t)
  BY <1>1, <1>2, <1>3 DEF Whole, Comes, Mid, Tests, Settings!NotionOps
<1> QED BY <1>4 DEF t

LEMMA AuthPlan == Whole("auth", Settings!Handler("auth"))
<1> DEFINE t == Settings!Handler("auth")
<1>1. /\ t \in Seq(StepNames) /\ Len(t) = 11
      /\ t[1] = "probe" /\ t[2] = "sign" /\ t[3] = "detect"
      /\ t[4] = "credential" /\ t[5] = "ask" /\ t[6] = "save" /\ t[7] = "load"
      /\ t[8] = "look" /\ t[9] = "count" /\ t[10] = "keep" /\ t[11] = "answer"
  BY DEF Settings!Handler, Settings!Polling, Settings!Testing, Settings!Refresh, Settings!Again,
         StepNames
<1> HIDE DEF t
<1>2. PlanOK(t)
  BY <1>1 DEF PlanOK, MadeGood, OnlyAfter, Changes, LoginSteps, NotionSteps
<1>3. \A s \in Foreign("auth") : ~Comes(s, t)
  BY <1>1 DEF Foreign, Comes, Tests, Settings!NotionOps, NotionSteps
<1>4. Whole("auth", t)
  BY <1>1, <1>2, <1>3 DEF Whole, Comes, Mid, Tests, Settings!NotionOps
<1> QED BY <1>4 DEF t

LEMMA LogoutPlan == Whole("logout", Settings!Handler("logout"))
<1> DEFINE t == Settings!Handler("logout")
<1>1. /\ t \in Seq(StepNames) /\ Len(t) = 10
      /\ t[1] = "signOut" /\ t[2] = "detect" /\ t[3] = "credential"
      /\ t[4] = "ask" /\ t[5] = "save" /\ t[6] = "load" /\ t[7] = "look"
      /\ t[8] = "count" /\ t[9] = "keep" /\ t[10] = "answer"
  BY DEF Settings!Handler, Settings!Polling, Settings!Testing, Settings!Refresh, Settings!Again,
         StepNames
<1> HIDE DEF t
<1>2. PlanOK(t)
  BY <1>1 DEF PlanOK, MadeGood, OnlyAfter, Changes, LoginSteps, NotionSteps
<1>3. \A s \in Foreign("logout") : ~Comes(s, t)
  BY <1>1 DEF Foreign, Comes, Tests, Settings!NotionOps, NotionSteps
<1>4. Whole("logout", t)
  BY <1>1, <1>2, <1>3 DEF Whole, Comes, Mid, Tests, Settings!NotionOps
<1> QED BY <1>4 DEF t

LEMMA CheckPlan == Whole("check", Settings!Handler("check"))
<1> DEFINE t == Settings!Handler("check")
<1>1. /\ t \in Seq(StepNames) /\ Len(t) = 6
      /\ t[1] = "list" /\ t[2] = "load" /\ t[3] = "look" /\ t[4] = "count"
      /\ t[5] = "keep" /\ t[6] = "answer"
  BY DEF Settings!Handler, Settings!Polling, Settings!Testing, Settings!Refresh, Settings!Again,
         StepNames
<1> HIDE DEF t
<1>2. PlanOK(t)
  BY <1>1 DEF PlanOK, MadeGood, OnlyAfter, Changes, LoginSteps, NotionSteps
<1>3. \A s \in Foreign("check") : ~Comes(s, t)
  BY <1>1 DEF Foreign, Comes, Tests, Settings!NotionOps, NotionSteps
<1>4. Whole("check", t)
  BY <1>1, <1>2, <1>3 DEF Whole, Comes, Mid, Tests, Settings!NotionOps
<1> QED BY <1>4 DEF t

LEMMA ConnectPlan == Whole("connect", Settings!Handler("connect"))
<1> DEFINE t == Settings!Handler("connect")
<1>1. /\ t \in Seq(StepNames) /\ Len(t) = 14
      /\ t[1] = "list" /\ t[2] = "connect" /\ t[3] = "consent" /\ t[4] = "list"
      /\ t[5] = "load" /\ t[6] = "look" /\ t[7] = "count" /\ t[8] = "hold"
      /\ t[9] = "list" /\ t[10] = "load" /\ t[11] = "look" /\ t[12] = "count"
      /\ t[13] = "keep" /\ t[14] = "answer"
  BY DEF Settings!Handler, Settings!Polling, Settings!Testing, Settings!Refresh, Settings!Again,
         StepNames
<1> HIDE DEF t
<1>2. PlanOK(t)
  BY <1>1 DEF PlanOK, MadeGood, OnlyAfter, Changes, LoginSteps, NotionSteps
<1>3. \A s \in Foreign("connect") : ~Comes(s, t)
  BY <1>1 DEF Foreign, Comes, Tests, Settings!NotionOps, NotionSteps
<1>4. Whole("connect", t)
  BY <1>1, <1>2, <1>3 DEF Whole, Comes, Mid, Tests, Settings!NotionOps
<1> QED BY <1>4 DEF t

LEMMA TokenPlan == Whole("connect", <<"token">> \o Settings!Handler("connect"))
<1> DEFINE t == <<"token">> \o Settings!Handler("connect")
<1>1. /\ t \in Seq(StepNames) /\ Len(t) = 15
      /\ t[1] = "token" /\ t[2] = "list" /\ t[3] = "connect" /\ t[4] = "consent"
      /\ t[5] = "list" /\ t[6] = "load" /\ t[7] = "look" /\ t[8] = "count"
      /\ t[9] = "hold" /\ t[10] = "list" /\ t[11] = "load" /\ t[12] = "look"
      /\ t[13] = "count" /\ t[14] = "keep" /\ t[15] = "answer"
  BY DEF Settings!Handler, Settings!Polling, Settings!Testing, Settings!Refresh, Settings!Again,
         StepNames
<1> HIDE DEF t
<1>2. PlanOK(t)
  BY <1>1 DEF PlanOK, MadeGood, OnlyAfter, Changes, LoginSteps, NotionSteps
<1>3. \A s \in Foreign("connect") : ~Comes(s, t)
  BY <1>1 DEF Foreign, Comes, Tests, Settings!NotionOps, NotionSteps
<1>4. Whole("connect", t)
  BY <1>1, <1>2, <1>3 DEF Whole, Comes, Mid, Tests, Settings!NotionOps
<1> QED BY <1>4 DEF t

LEMMA DisconnectPlan == Whole("disconnect", Settings!Handler("disconnect"))
<1> DEFINE t == Settings!Handler("disconnect")
<1>1. /\ t \in Seq(StepNames) /\ Len(t) = 12
      /\ t[1] = "list" /\ t[2] = "remove" /\ t[3] = "list" /\ t[4] = "load"
      /\ t[5] = "look" /\ t[6] = "count" /\ t[7] = "hold" /\ t[8] = "load"
      /\ t[9] = "look" /\ t[10] = "count" /\ t[11] = "keep" /\ t[12] = "answer"
  BY DEF Settings!Handler, Settings!Polling, Settings!Testing, Settings!Refresh, Settings!Again,
         StepNames
<1> HIDE DEF t
<1>2. PlanOK(t)
  BY <1>1 DEF PlanOK, MadeGood, OnlyAfter, Changes, LoginSteps, NotionSteps
<1>3. \A s \in Foreign("disconnect") : ~Comes(s, t)
  BY <1>1 DEF Foreign, Comes, Tests, Settings!NotionOps, NotionSteps
<1>4. Whole("disconnect", t)
  BY <1>1, <1>2, <1>3 DEF Whole, Comes, Mid, Tests, Settings!NotionOps
<1> QED BY <1>4 DEF t

\* A handler has done the first step of its plan.
LEMMA RestOfPlan ==
  ASSUME NEW t \in Seq(StepNames), PlanOK(t), Head(t) # "answer"
  PROVE  /\ Tail(t) \in Seq(StepNames) /\ PlanOK(Tail(t))
         /\ \A s : Comes(s, t) <=> s = Head(t) \/ Comes(s, Tail(t))
<1> DEFINE q == Tail(t)
<1>1. Len(t) > 1 /\ t[1] = Head(t) /\ Len(t) \in Nat
  BY DEF PlanOK
<1>2. q \in Seq(StepNames) /\ Len(q) = Len(t) - 1
  BY <1>1
<1>3. \A i \in 1..Len(q) : i + 1 \in 1..Len(t) /\ q[i] = t[i + 1]
  BY <1>1, <1>2
<1> HIDE DEF q
<1>4. ASSUME NEW S, NEW b, MadeGood(S, b, t) PROVE MadeGood(S, b, q)
  <2> SUFFICES ASSUME NEW i \in 1..Len(q), q[i] \in S
               PROVE  \E j \in (i + 1)..Len(q) : q[j] = b
    BY DEF MadeGood
  <2>1. PICK j \in (i + 2)..Len(t) : t[j] = b
    BY <1>3, <1>4 DEF MadeGood
  <2>2. j - 1 \in (i + 1)..Len(q) /\ q[j - 1] = b
    BY <1>2, <1>3, <2>1, <1>1
  <2> QED BY <2>2
<1>5. ASSUME NEW s, NEW S, OnlyAfter(s, S, t) PROVE OnlyAfter(s, S, q)
  BY <1>1, <1>2, <1>3, <1>5, SMTT(30) DEF OnlyAfter
<1>6. PlanOK(q)
  <2>1. \A i \in 1..Len(q) : q[i] = "credential" =>
          i + 2 <= Len(q) /\ q[i + 1] = "ask" /\ q[i + 2] = "save"
    BY <1>1, <1>2, <1>3 DEF PlanOK
  <2>2. ASSUME NEW i \in 1..Len(q), q[i] = "connect"
        PROVE  /\ i + 3 <= Len(q) /\ q[i + 1] = "consent" /\ q[i + 2] = "list"
               /\ q[i + 3] = "load"
               /\ \E j \in (i + 4)..Len(q) : q[j] = "list"
    <3>1. /\ i + 4 <= Len(t) /\ t[i + 2] = "consent" /\ t[i + 3] = "list"
          /\ t[i + 4] = "load" /\ \E j \in (i + 5)..Len(t) : t[j] = "list"
      BY <1>3, <2>2 DEF PlanOK
    <3>2. PICK j \in (i + 5)..Len(t) : t[j] = "list"
      BY <3>1
    <3>3. j - 1 \in (i + 4)..Len(q) /\ q[j - 1] = "list"
      BY <1>1, <1>2, <1>3, <3>2
    <3>4. i + 1 \in 1..Len(q) /\ i + 2 \in 1..Len(q) /\ i + 3 \in 1..Len(q)
      BY <1>1, <1>2, <3>1
    <3>5. q[i + 1] = t[i + 2] /\ q[i + 2] = t[i + 3] /\ q[i + 3] = t[i + 4]
      BY <1>3, <3>4
    <3> QED BY <3>1, <3>3, <3>4, <3>5
  <2>3. \A i \in 1..Len(q) : q[i] = "install" =>
          /\ Len(q) = i + 5 /\ q[i + 1] = "load" /\ q[i + 2] = "look"
          /\ q[i + 3] = "count" /\ q[i + 4] = "keep" /\ q[i + 5] = "answer"
    BY <1>1, <1>2, <1>3, SMTT(30) DEF PlanOK
  <2>4. \A i \in 1..Len(q) : q[i] = "answer" <=> i = Len(q)
    BY <1>1, <1>2, <1>3 DEF PlanOK
  <2>5. \A i \in 1..Len(q) : q[i] \notin {"borrow", "repay"}
    BY <1>3 DEF PlanOK
  <2> QED BY <1>1, <1>2, <1>4, <1>5, <2>1, <2>2, <2>3, <2>4, <2>5 DEF PlanOK
<1>7. ASSUME NEW s PROVE Comes(s, t) <=> s = Head(t) \/ Comes(s, q)
  <2>1. CASE Comes(s, t)
    <3>1. PICK i \in 1..Len(t) : t[i] = s
      BY <2>1 DEF Comes
    <3>2. i > 1 => i - 1 \in 1..Len(q) /\ q[i - 1] = s
      BY <1>1, <1>2, <1>3, <3>1
    <3> QED BY <1>1, <2>1, <3>1, <3>2 DEF Comes
  <2>2. CASE Comes(s, q)
    BY <1>3, <2>2 DEF Comes
  <2>3. CASE s = Head(t)
    BY <1>1, <2>3 DEF Comes
  <2> QED BY <2>1, <2>2, <2>3
<1> QED BY <1>2, <1>6, <1>7 DEF q

\* Which step comes next, and which still has to come.
LEMMA NextOfPlan ==
  ASSUME NEW t \in Seq(StepNames), PlanOK(t), Head(t) # "answer"
  PROVE  /\ Head(Tail(t)) \in Mid =>
              <<Head(t), Head(Tail(t))>> \in
                {<<"detect", "credential">>, <<"credential", "ask">>, <<"ask", "save">>,
                 <<"load", "look">>, <<"look", "count">>, <<"count", "keep">>,
                 <<"count", "hold">>}
         /\ Head(t) \in Changes => Comes("keep", Tail(t))
         /\ Head(t) \in LoginSteps => Comes("save", Tail(t))
         /\ Head(t) \in NotionSteps => Comes("list", Tail(t))
<1> DEFINE q == Tail(t)
<1>1. Len(t) > 1 /\ t[1] = Head(t) /\ Len(t) \in Nat
  BY DEF PlanOK
<1>2. /\ q \in Seq(StepNames) /\ Len(q) = Len(t) - 1 /\ Head(q) = t[2]
      /\ \A i \in 1..Len(q) : q[i] = t[i + 1]
  BY <1>1
<1> HIDE DEF q
<1>3. ASSUME NEW S, NEW b, MadeGood(S, b, t), Head(t) \in S PROVE Comes(b, q)
  <2>1. PICK j \in 2..Len(t) : t[j] = b
    BY <1>1, <1>3 DEF MadeGood
  <2>2. j - 1 \in 1..Len(q) /\ q[j - 1] = b
    BY <1>1, <1>2, <2>1
  <2> QED BY <2>2 DEF Comes
<1>4. Head(t) \in Changes => Comes("keep", q)
  BY <1>3 DEF PlanOK
<1>5. Head(t) \in LoginSteps => Comes("save", q)
  BY <1>3 DEF PlanOK
<1>6. Head(t) \in NotionSteps => Comes("list", q)
  BY <1>3 DEF PlanOK
<1>7. ASSUME NEW s, NEW S, OnlyAfter(s, S, t), Head(q) = s PROVE Head(t) \in S
  BY <1>1, <1>2, <1>7 DEF OnlyAfter
<1>8. /\ Head(q) = "credential" => Head(t) = "detect"
      /\ Head(q) = "ask" => Head(t) = "credential"
      /\ Head(q) = "save" => Head(t) = "ask"
      /\ Head(q) = "look" => Head(t) = "load"
      /\ Head(q) = "count" => Head(t) = "look"
      /\ Head(q) \in {"keep", "hold"} => Head(t) = "count"
  BY <1>7 DEF PlanOK
<1> QED BY <1>4, <1>5, <1>6, <1>8 DEF q, Mid

LEMMA AnswerPlan == <<"answer">> \in Seq(StepNames) /\ PlanOK(<<"answer">>)
BY DEF StepNames, PlanOK, MadeGood, OnlyAfter, Changes, LoginSteps, NotionSteps

-----------------------------------------------------------------------------
(***************************************************************************)
(* Steps, in general.                                                      *)
(***************************************************************************)
LEMMA Acting ==
  ASSUME SettingsInv, NEW r \in Settings!Requests, NEW s, Settings!At(r, s)
  PROVE  \E o \in Handlers : /\ o = ops[r] /\ o # Settings!Idle /\ Head(o.todo) = s
                             /\ Planned(o) /\ (Sure(o) => HandlerOK(o))
<1>1. ops[r] \in Handlers \cup {Settings!Idle} /\ ops[r].todo # << >> /\ Head(ops[r].todo) = s
  BY DEF SettingsInv, SettingsTypes, Settings!At
<1>2. ops[r] \in Handlers /\ ops[r] # Settings!Idle
  BY <1>1 DEF Settings!Idle
<1>3. Sure(ops[r]) => \A o \in {ops[r]} : HandlerOK(o)
  BY <1>2 DEF SettingsInv, HandlersOK
<1>4. PICK o \in Handlers : o = ops[r]
  BY <1>2
<1>5. Sure(o) => HandlerOK(o)
  BY <1>3, <1>4
<1>6. Planned(o)
  BY <1>2, <1>4 DEF SettingsInv, PlansOK
<1> QED BY <1>1, <1>2, <1>4, <1>5, <1>6

\* One handler moves: the other one matters only if both are not alone.
LEMMA OneMoves ==
  ASSUME SettingsInv, NEW r \in Settings!Requests, NEW o \in Handlers, o = ops[r],
         NEW n \in Handlers, ops' = [ops EXCEPT ![r] = n], n.alone => o.alone,
         Planned(n), Sure(n) => HandlerOK(n)'
  PROVE  /\ ops' \in [Settings!Requests -> Handlers \cup {Settings!Idle}] /\ PlansOK'
         /\ AloneIsAlone' /\ HandlersOK' /\ LastWordIsTrue'
<1>1. /\ ops \in [Settings!Requests -> Handlers \cup {Settings!Idle}]
      /\ ops[r] # Settings!Idle /\ n # Settings!Idle
      /\ AloneIsAlone
  BY DEF SettingsInv, SettingsTypes, Handlers, Settings!Idle, Settings!Asked
<1>2. ops' \in [Settings!Requests -> Handlers \cup {Settings!Idle}] /\ ops'[r] = n
  BY <1>1
<1>3. \A q \in Settings!Requests : q # r => /\ ops'[q] = ops[q] /\ q = 3 - r /\ r = 3 - q
  BY <1>1 DEF Settings!Requests
<1>4. AloneIsAlone'
  BY <1>1, <1>2, <1>3 DEF AloneIsAlone, Settings!Requests
<1>5. HandlersOK'
  <2> SUFFICES ASSUME NEW q \in Settings!Requests, NEW m \in {ops'[q]}, m # Settings!Idle, Sure(m)
               PROVE  HandlerOK(m)'
    BY DEF HandlersOK, Sure
  <2>1. q = r
    BY <1>1, <1>2, <1>3 DEF AloneIsAlone, Sure
  <2>2. m = n
    BY <1>2, <2>1
  <2> QED BY <2>2
<1>6. LastWordIsTrue'
  BY <1>1, <1>2 DEF LastWordIsTrue, Settings!LastWordIsTrue
<1>7. PlansOK'
  <2> SUFFICES ASSUME NEW q \in Settings!Requests, NEW m \in {ops'[q]}, m # Settings!Idle
               PROVE  Planned(m)
    BY DEF PlansOK, Planned
  <2>1. CASE q = r
    BY <1>2, <2>1
  <2>2. CASE q # r
    BY <1>3, <2>2 DEF SettingsInv, PlansOK
  <2> QED BY <2>1, <2>2
<1> QED BY <1>2, <1>4, <1>5, <1>6, <1>7

\* Only the page may be drawn anew.
LEMMA FrameOK ==
  ASSUME UNCHANGED <<kind, cli, Settings!settings, file, known, store>>, page' \in {page, store},
         NEW CONSTANT op, NEW CONSTANT late, NEW CONSTANT t, Promise(op, late, t)
  PROVE  Promise(op, late, t)'
BY DEF Promise, Settings!settings, Right, Settings!TrueStatus, Settings!NotionSeen, Shows,
       Settings!View

LEMMA ReadingKept ==
  ASSUME UNCHANGED <<cli, Settings!settings, file>>, NEW CONSTANT o, HasRead(o)
  PROVE  HasRead(o)'
BY DEF Settings!settings, HasRead, Right, Settings!TrueStatus

\* A step that makes nothing true.
LEMMA StepDropped ==
  ASSUME NEW op, NEW late, NEW t \in Seq(StepNames), PlanOK(t), Promise(op, late, t),
         Head(t) \notin {"save", "list", "keep", "answer"}
  PROVE  Promise(op, late, Tail(t))
<1>2. \A s : Comes(s, t) <=> s = Head(t) \/ Comes(s, Tail(t))
  BY RestOfPlan
<1>3. /\ \A s \in Foreign(op) : ~Comes(s, Tail(t))
      /\ ~Comes("save", Tail(t)) => ~Comes("save", t)
      /\ ~Comes("list", Tail(t)) => ~Comes("list", t)
      /\ ~Comes("keep", Tail(t)) => ~Comes("keep", t)
  BY <1>2 DEF Promise
<1> QED BY <1>2, <1>3 DEF Promise

\* A handler that reads, or does nothing.
LEMMA OneReads ==
  ASSUME SettingsInv, NEW r \in Settings!Requests, NEW o \in Handlers, o = ops[r],
         NEW n \in Handlers, ops' = [ops EXCEPT ![r] = n], n.alone => o.alone,
         UNCHANGED <<kind, cli, signing, Settings!settings, file, known, store>>,
         page' \in {page, store}, Planned(n), Sure(n) => HandlerOK(n)
  PROVE  SettingsInv'
<1>1. Sure(n) => HandlerOK(n)'
  <2> SUFFICES ASSUME Sure(n) PROVE HandlerOK(n)'
    OBVIOUS
  <2>1. Promise(n.op, n.late, n.todo) /\ HasRead(n)
    BY DEF HandlerOK
  <2>2. Promise(n.op, n.late, n.todo)'
    BY <2>1, FrameOK
  <2>3. HasRead(n)'
    BY <2>1, ReadingKept
  <2> QED BY <2>2, <2>3 DEF HandlerOK
<1>2. /\ ops' \in [Settings!Requests -> Handlers \cup {Settings!Idle}] /\ PlansOK'
      /\ AloneIsAlone' /\ HandlersOK' /\ LastWordIsTrue'
  BY <1>1, OneMoves
<1> QED BY <1>2 DEF SettingsInv, SettingsTypes, Settings!settings

\* What a handler finds that has done a step.
LEMMA Onward ==
  ASSUME NEW o \in Handlers, Planned(o), Head(o.todo) \notin {"answer", "borrow", "repay"}
  PROVE  LET rest == Tail(o.todo)
         IN  /\ o.op # "other" /\ PlanOK(o.todo) /\ o.todo \in Seq(StepNames)
             /\ rest \in Seq(StepNames) /\ PlanOK(rest)
             /\ \A s : Comes(s, o.todo) <=> s = Head(o.todo) \/ Comes(s, rest)
             /\ Head(rest) \in Mid =>
                  <<Head(o.todo), Head(rest)>> \in
                    {<<"detect", "credential">>, <<"credential", "ask">>, <<"ask", "save">>,
                     <<"load", "look">>, <<"look", "count">>, <<"count", "keep">>,
                     <<"count", "hold">>}
             /\ Head(o.todo) \in Changes => Comes("keep", rest)
             /\ Head(o.todo) \in LoginSteps => Comes("save", rest)
             /\ Head(o.todo) \in NotionSteps => Comes("list", rest)
<1>1. o.op # "other" /\ PlanOK(o.todo) /\ o.todo \in Seq(StepNames)
  BY DEF Handlers, Planned
<1>2. /\ Tail(o.todo) \in Seq(StepNames) /\ PlanOK(Tail(o.todo))
      /\ \A s : Comes(s, o.todo) <=> s = Head(o.todo) \/ Comes(s, Tail(o.todo))
  BY <1>1, RestOfPlan
<1> QED BY <1>1, <1>2, NextOfPlan

-----------------------------------------------------------------------------
(***************************************************************************)
(* testProvider.                                                           *)
(***************************************************************************)
LEMMA DetectStep ==
  ASSUME SettingsInv, NEW r \in Settings!Requests, Settings!Detect(r)
  PROVE  SettingsInv'
<1>1. PICK o \in Handlers : /\ o = ops[r] /\ o # Settings!Idle /\ Head(o.todo) = "detect"
                            /\ Planned(o) /\ (Sure(o) => HandlerOK(o))
  BY Acting DEF Settings!Detect
<1>2. /\ authMode \in Modes /\ cli.installed \in BOOLEAN
      /\ o.op # "other" /\ Tail(o.todo) \in Seq(StepNames) /\ PlanOK(Tail(o.todo))
  BY <1>1, Onward DEF SettingsInv, SettingsTypes, Clis
<1>3. PICK n \in Handlers : n = [o EXCEPT !.mode = authMode,
                                          !.installed = cli.installed, !.todo = Tail(o.todo)]
  BY <1>2 DEF Handlers
<1>4. /\ n.todo = Tail(o.todo) /\ n.op = o.op /\ n.late = o.late /\ n.alone = o.alone
      /\ n.failed = o.failed
      /\ n.mode = authMode /\ n.installed = cli.installed
  BY <1>3 DEF Handlers
<1>5. ops' = [ops EXCEPT ![r] = n] /\ Planned(n)
  BY <1>1, <1>2, <1>3, <1>4 DEF Settings!Detect, Settings!Done, Settings!Then, Planned
<1>6. ASSUME Sure(n) PROVE HandlerOK(n)
  <2>1. HandlerOK(o)
    BY <1>1, <1>4, <1>6 DEF Sure
  <2>2. Promise(n.op, n.late, n.todo)
    BY <1>1, <1>4, <2>1, StepDropped, Onward DEF HandlerOK
  <2>3. HasRead(n)
    BY <1>1, <1>4, <2>1, Onward, ZenonT(60) DEF HandlerOK, HasRead, Mid
  <2> QED BY <2>2, <2>3 DEF HandlerOK
<1> QED BY <1>1, <1>4, <1>5, <1>6, OneReads DEF Settings!Detect, Settings!caches

LEMMA LoadStep ==
  ASSUME SettingsInv, NEW r \in Settings!Requests, Settings!Load(r)
  PROVE  SettingsInv'
<1>1. PICK o \in Handlers : /\ o = ops[r] /\ o # Settings!Idle /\ Head(o.todo) = "load"
                            /\ Planned(o) /\ (Sure(o) => HandlerOK(o))
  BY Acting DEF Settings!Load
<1>2. /\ file \in Statuses
      /\ o.op # "other" /\ Tail(o.todo) \in Seq(StepNames) /\ PlanOK(Tail(o.todo))
  BY <1>1, Onward DEF SettingsInv, SettingsTypes, Clis
<1>3. PICK n \in Handlers : n = [o EXCEPT !.status = file, !.todo = Tail(o.todo)]
  BY <1>2 DEF Handlers
<1>4. /\ n.todo = Tail(o.todo) /\ n.op = o.op /\ n.late = o.late /\ n.alone = o.alone
      /\ n.failed = o.failed
      /\ n.status = file
  BY <1>3 DEF Handlers
<1>5. ops' = [ops EXCEPT ![r] = n] /\ Planned(n)
  BY <1>1, <1>2, <1>3, <1>4 DEF Settings!Load, Settings!Done, Settings!Then, Planned
<1>6. ASSUME Sure(n) PROVE HandlerOK(n)
  <2>1. HandlerOK(o)
    BY <1>1, <1>4, <1>6 DEF Sure
  <2>2. Promise(n.op, n.late, n.todo)
    BY <1>1, <1>4, <2>1, StepDropped, Onward DEF HandlerOK
  <2>3. HasRead(n)
    BY <1>1, <1>4, <2>1, Onward, ZenonT(60) DEF HandlerOK, HasRead, Mid
  <2> QED BY <2>2, <2>3 DEF HandlerOK
<1> QED BY <1>1, <1>4, <1>5, <1>6, OneReads DEF Settings!Load, Settings!caches

LEMMA LookStep ==
  ASSUME SettingsInv, NEW r \in Settings!Requests, Settings!Look(r)
  PROVE  SettingsInv'
<1>1. PICK o \in Handlers : /\ o = ops[r] /\ o # Settings!Idle /\ Head(o.todo) = "look"
                            /\ Planned(o) /\ (Sure(o) => HandlerOK(o))
  BY Acting DEF Settings!Look
<1>2. /\ authMode \in Modes /\ cli.installed \in BOOLEAN
      /\ o.op # "other" /\ Tail(o.todo) \in Seq(StepNames) /\ PlanOK(Tail(o.todo))
  BY <1>1, Onward DEF SettingsInv, SettingsTypes, Clis
<1>3. PICK n \in Handlers : n = [o EXCEPT !.mode = authMode,
                                          !.installed = cli.installed, !.todo = Tail(o.todo)]
  BY <1>2 DEF Handlers
<1>4. /\ n.todo = Tail(o.todo) /\ n.op = o.op /\ n.late = o.late /\ n.alone = o.alone
      /\ n.failed = o.failed
      /\ n.status = o.status /\ n.mode = authMode /\ n.installed = cli.installed
  BY <1>3 DEF Handlers
<1>5. ops' = [ops EXCEPT ![r] = n] /\ Planned(n)
  BY <1>1, <1>2, <1>3, <1>4 DEF Settings!Look, Settings!Done, Settings!Then, Planned
<1>6. ASSUME Sure(n) PROVE HandlerOK(n)
  <2>1. HandlerOK(o)
    BY <1>1, <1>4, <1>6 DEF Sure
  <2>2. Promise(n.op, n.late, n.todo)
    BY <1>1, <1>4, <2>1, StepDropped, Onward DEF HandlerOK
  <2>3. HasRead(n)
    BY <1>1, <1>4, <2>1, Onward, ZenonT(60) DEF HandlerOK, HasRead, Mid
  <2> QED BY <2>2, <2>3 DEF HandlerOK
<1> QED BY <1>1, <1>4, <1>5, <1>6, OneReads DEF Settings!Look, Settings!caches

LEMMA CountStep ==
  ASSUME SettingsInv, NEW r \in Settings!Requests, Settings!Count(r)
  PROVE  SettingsInv'
<1>1. PICK o \in Handlers : /\ o = ops[r] /\ o # Settings!Idle /\ Head(o.todo) = "count"
                            /\ Planned(o) /\ (Sure(o) => HandlerOK(o))
  BY Acting DEF Settings!Count
<1>2. /\ key \in BOOLEAN /\ token \in BOOLEAN
      /\ o.op # "other" /\ Tail(o.todo) \in Seq(StepNames) /\ PlanOK(Tail(o.todo))
  BY <1>1, Onward DEF SettingsInv, SettingsTypes, Clis
<1>3. PICK n \in Handlers : n = [o EXCEPT !.key = key, !.token = token, !.todo = Tail(o.todo)]
  BY <1>2 DEF Handlers
<1>4. /\ n.todo = Tail(o.todo) /\ n.op = o.op /\ n.late = o.late /\ n.alone = o.alone
      /\ n.failed = o.failed
      /\ n.status = o.status /\ n.mode = o.mode /\ n.installed = o.installed
      /\ n.key = key /\ n.token = token
  BY <1>3 DEF Handlers
<1>5. ops' = [ops EXCEPT ![r] = n] /\ Planned(n)
  BY <1>1, <1>2, <1>3, <1>4 DEF Settings!Count, Settings!Done, Settings!Then, Planned
<1>6. ASSUME Sure(n) PROVE HandlerOK(n)
  <2>1. HandlerOK(o)
    BY <1>1, <1>4, <1>6 DEF Sure
  <2>2. Promise(n.op, n.late, n.todo)
    BY <1>1, <1>4, <2>1, StepDropped, Onward DEF HandlerOK
  <2>3. HasRead(n)
    BY <1>1, <1>4, <2>1, Onward DEF HandlerOK, HasRead, Mid
  <2> QED BY <2>2, <2>3 DEF HandlerOK
<1> QED BY <1>1, <1>4, <1>5, <1>6, OneReads DEF Settings!Count, Settings!caches

LEMMA CredentialStep ==
  ASSUME SettingsInv, NEW r \in Settings!Requests, Settings!Credential(r)
  PROVE  SettingsInv'
<1>1. PICK o \in Handlers : /\ o = ops[r] /\ o # Settings!Idle /\ Head(o.todo) = "credential"
                            /\ Planned(o) /\ (Sure(o) => HandlerOK(o))
  BY Acting DEF Settings!Credential
<1> DEFINE rest == Tail(o.todo)
           found == IF ~o.installed THEN "unhealthy"
                    ELSE IF o.mode = "cli" THEN "asking"
                    ELSE IF key THEN "healthy" ELSE "missing"
           after == IF found = "asking" THEN rest ELSE Tail(rest)
<1>2. /\ key \in BOOLEAN /\ token \in BOOLEAN /\ cli \in Clis /\ authMode \in Modes
      /\ o.op # "other" /\ PlanOK(o.todo) /\ o.todo \in Seq(StepNames)
      /\ rest \in Seq(StepNames) /\ PlanOK(rest) /\ Comes("save", rest)
  BY <1>1, Onward DEF SettingsInv, SettingsTypes, LoginSteps
<1>3. Head(rest) = "ask" /\ Head(Tail(rest)) = "save"
  <2>1. Len(o.todo) > 0
    BY <1>2 DEF PlanOK
  <2>2. \A i \in 1..Len(o.todo) : o.todo[i] = "credential" =>
          i + 2 <= Len(o.todo) /\ o.todo[i + 1] = "ask" /\ o.todo[i + 2] = "save"
    BY <1>2 DEF PlanOK
  <2>3. 1 + 2 <= Len(o.todo) /\ o.todo[1 + 1] = "ask" /\ o.todo[1 + 2] = "save"
    BY <1>1, <1>2, <2>1, <2>2
  <2> QED BY <1>2, <2>3
<1>4. /\ Tail(rest) \in Seq(StepNames) /\ PlanOK(Tail(rest)) /\ Comes("save", Tail(rest))
  BY <1>2, <1>3, RestOfPlan
<1>5. found \in Statuses /\ after \in Seq(StepNames) /\ PlanOK(after)
  BY <1>2, <1>4 DEF Statuses
<1>6. PICK n \in Handlers : n = [o EXCEPT !.key = key, !.token = token, !.status = found,
                                          !.late = FALSE, !.todo = after]
  <2> HIDE DEF found, after
  <2> QED BY <1>2, <1>5, ZenonT(60) DEF Handlers
<1>7. /\ n.todo = after /\ n.op = o.op /\ n.alone = o.alone /\ n.failed = o.failed
      /\ n.mode = o.mode /\ n.installed = o.installed /\ n.status = found
  BY <1>6 DEF Handlers
<1>8. ops' = [ops EXCEPT ![r] = n] /\ Planned(n)
  BY <1>1, <1>2, <1>5, <1>6, <1>7 DEF Settings!Credential, Settings!Then, Planned
<1>9. ASSUME Sure(n) PROVE HandlerOK(n)
  <2>1. HandlerOK(o)
    BY <1>1, <1>7, <1>9 DEF Sure
  <2>2. o.mode = authMode /\ o.installed = cli.installed
    BY <1>1, <2>1 DEF HandlerOK, HasRead
  <2>3. Promise(o.op, o.late, rest)
    BY <1>1, <1>2, <2>1, StepDropped DEF HandlerOK
  <2>4. Promise(o.op, o.late, Tail(rest))
    BY <1>2, <1>3, <2>3, StepDropped
  <2>5. Promise(n.op, n.late, n.todo)
    BY <1>2, <1>4, <1>7, <2>3, <2>4 DEF Promise
  <2>6. HasRead(n)
    <3>1. CASE found = "asking"
      <4>1. cli.installed /\ authMode = "cli"
        BY <2>2, <3>1
      <4> QED BY <1>3, <1>7, <2>2, <3>1, <4>1 DEF HasRead
    <3>2. CASE found # "asking"
      <4>1. Head(n.todo) = "save"
        BY <1>3, <1>7, <3>2
      <4>2. Right(found)
        BY <1>2, <2>2, <3>2 DEF Right, Settings!TrueStatus, Modes, Clis
      <4> QED BY <1>7, <4>1, <4>2 DEF HasRead
    <3> QED BY <3>1, <3>2
  <2> QED BY <2>5, <2>6 DEF HandlerOK
<1> QED BY <1>1, <1>7, <1>8, <1>9, OneReads DEF Settings!Credential, Settings!caches

LEMMA AskStep ==
  ASSUME SettingsInv, NEW r \in Settings!Requests, Settings!Ask(r)
  PROVE  SettingsInv'
<1>1. PICK o \in Handlers : /\ o = ops[r] /\ o # Settings!Idle /\ Head(o.todo) = "ask"
                            /\ Planned(o) /\ (Sure(o) => HandlerOK(o))
  BY Acting DEF Settings!Ask
<1>2. PICK inTime \in BOOLEAN :
        Settings!Done(r, [ops[r] EXCEPT !.late = ops[r].alone /\ ~inTime,
                   !.status = IF inTime /\ cli.login THEN "healthy" ELSE "unhealthy"])
  BY DEF Settings!Ask
<1>3. /\ cli \in Clis /\ authMode \in Modes
      /\ o.op # "other" /\ Tail(o.todo) \in Seq(StepNames) /\ PlanOK(Tail(o.todo))
      /\ Comes("save", Tail(o.todo))
  BY <1>1, Onward DEF SettingsInv, SettingsTypes, LoginSteps
<1> DEFINE found == IF inTime /\ cli.login THEN "healthy" ELSE "unhealthy"
<1>4. PICK late \in BOOLEAN : late = (o.alone /\ ~inTime)
  BY DEF Handlers
<1>5. PICK n \in Handlers :
        n = [o EXCEPT !.late = late, !.status = found, !.todo = Tail(o.todo)]
  BY <1>3 DEF Handlers, Statuses
<1>6. /\ n.todo = Tail(o.todo) /\ n.op = o.op /\ n.alone = o.alone /\ n.failed = o.failed
      /\ n.status = found /\ n.late = late
  BY <1>5 DEF Handlers
<1>7. ops' = [ops EXCEPT ![r] = n] /\ Planned(n)
  BY <1>1, <1>2, <1>3, <1>4, <1>5, <1>6 DEF Settings!Done, Settings!Then, Planned
<1>8. ASSUME Sure(n) PROVE HandlerOK(n)
  <2>1. HandlerOK(o)
    BY <1>1, <1>6, <1>8 DEF Sure
  <2>2. Promise(o.op, o.late, n.todo)
    BY <1>1, <1>6, <2>1, StepDropped, Onward DEF HandlerOK
  <2>3. Promise(n.op, n.late, n.todo)
    BY <1>3, <1>6, <2>2 DEF Promise
  <2>4. authMode = "cli" /\ cli.installed
    BY <1>1, <2>1 DEF HandlerOK, HasRead
  <2>5. ~n.late => Right(found)
    BY <1>3, <1>4, <1>6, <1>8, <2>4 DEF Sure, Right, Settings!TrueStatus, Clis
  <2>6. Head(n.todo) \in Mid => Head(n.todo) = "save"
    BY <1>1, <1>6, Onward
  <2> QED BY <1>6, <2>3, <2>5, <2>6 DEF HandlerOK, HasRead, Mid
<1> QED BY <1>1, <1>6, <1>7, <1>8, OneReads DEF Settings!Ask, Settings!caches

LEMMA SaveStep ==
  ASSUME SettingsInv, NEW r \in Settings!Requests, Settings!Save(r)
  PROVE  SettingsInv'
<1>1. PICK o \in Handlers : /\ o = ops[r] /\ o # Settings!Idle /\ Head(o.todo) = "save"
                            /\ Planned(o) /\ (Sure(o) => HandlerOK(o))
  BY Acting DEF Settings!Save
<1>2. /\ o.op # "other" /\ Tail(o.todo) \in Seq(StepNames) /\ PlanOK(Tail(o.todo))
      /\ Comes("keep", Tail(o.todo)) /\ o.status \in Statuses
  BY <1>1, Onward DEF Changes, Handlers
<1>3. PICK n \in Handlers : n = [o EXCEPT !.todo = Tail(o.todo)]
  BY <1>2 DEF Handlers
<1>4. /\ n.todo = Tail(o.todo) /\ n.op = o.op /\ n.late = o.late /\ n.alone = o.alone
      /\ n.failed = o.failed
  BY <1>3 DEF Handlers
<1>5. ops' = [ops EXCEPT ![r] = n] /\ Planned(n)
  BY <1>1, <1>2, <1>3, <1>4 DEF Settings!Save, Settings!Done, Settings!Then, Planned
<1>6. /\ file' = o.status
      /\ UNCHANGED <<kind, cli, signing, authMode, key, token, known, store, page>>
  BY <1>1 DEF Settings!Save, Settings!settings
<1>7. ASSUME Sure(n) PROVE HandlerOK(n)'
  <2>1. HandlerOK(o)
    BY <1>1, <1>4, <1>7 DEF Sure
  <2>2. /\ \A s \in Foreign(n.op) : ~Comes(s, n.todo)
        /\ ~Comes("list", n.todo) => ~Comes("list", o.todo)
    BY <1>1, <1>4, <2>1, Onward DEF HandlerOK, Promise
  <2>3. ~n.late => Right(file')
    BY <1>1, <1>4, <1>6, <2>1 DEF HandlerOK, HasRead
  <2>4. Promise(n.op, n.late, n.todo)'
    BY <1>2, <1>4, <1>6, <2>1, <2>2, <2>3
    DEF HandlerOK, Promise, Right, Settings!TrueStatus, Settings!NotionSeen
  <2>5. Head(n.todo) \notin Mid
    BY <1>1, <1>4, Onward
  <2> QED BY <2>4, <2>5 DEF HandlerOK, HasRead, Mid
<1>8. /\ ops' \in [Settings!Requests -> Handlers \cup {Settings!Idle}] /\ PlansOK'
      /\ AloneIsAlone' /\ HandlersOK' /\ LastWordIsTrue'
  BY <1>1, <1>4, <1>5, <1>7, OneMoves
<1> QED BY <1>2, <1>6, <1>8 DEF SettingsInv, SettingsTypes

\* A handler that has everything still to do.
LEMMA FreshOK ==
  ASSUME NEW CONSTANT n, Whole(n.op, n.todo)
  PROVE  HandlerOK(n)'
BY DEF Whole, HandlerOK, Promise, HasRead, Mid

\* What installing the CLI, or failing to, leaves.
LEMMA InstalledTypes ==
  ASSUME SettingsInv, NEW ok \in BOOLEAN, NEW works \in BOOLEAN, Settings!Installed(ok, works)
  PROVE  /\ cli' \in Clis /\ cli'.login = cli.login /\ cli'.notion = cli.notion
         /\ ~ok => cli'.installed = cli.installed
<1>1. cli \in Clis /\ cli' = [cli EXCEPT !.installed = @ \/ works] /\ (~ok => ~works)
  BY DEF SettingsInv, SettingsTypes, Settings!Installed, Settings!ScriptEnds, Settings!PackageEnds
<1> QED BY <1>1 DEF Clis

LEMMA InstallStep ==
  ASSUME SettingsInv, NEW r \in Settings!Requests, Settings!Install(r)
  PROVE  SettingsInv'
<1>1. PICK o \in Handlers : /\ o = ops[r] /\ o # Settings!Idle /\ Head(o.todo) = "install"
                            /\ Planned(o) /\ (Sure(o) => HandlerOK(o))
  BY Acting DEF Settings!Install
<1> DEFINE rest == Tail(o.todo)
<1>2. /\ o.op # "other" /\ PlanOK(o.todo) /\ o.todo \in Seq(StepNames)
      /\ rest \in Seq(StepNames) /\ PlanOK(rest)
  BY <1>1, Onward
<1>3. UNCHANGED <<kind, signing, Settings!settings, file, reg, known, store, last>>
  BY DEF Settings!Install
<1>4. CASE o.installed
  <2>1. PICK n \in Handlers : n = [o EXCEPT !.todo = rest]
    BY <1>2 DEF Handlers
  <2>2. n.todo = rest /\ n.op = o.op /\ n.late = o.late /\ n.alone = o.alone /\ n.failed = o.failed
    BY <2>1 DEF Handlers
  <2>3. ops' = [ops EXCEPT ![r] = n] /\ Planned(n) /\ UNCHANGED <<cli, page>>
    BY <1>1, <1>2, <1>4, <2>1, <2>2 DEF Settings!Install, Settings!Done, Settings!Then, Planned
  <2>4. ASSUME Sure(n) PROVE HandlerOK(n)
    <3>1. HandlerOK(o)
      BY <1>1, <2>2, <2>4 DEF Sure
    <3>2. Promise(n.op, n.late, n.todo)
      BY <1>1, <1>2, <2>2, <3>1, StepDropped DEF HandlerOK
    <3>3. Head(n.todo) \notin Mid
      BY <1>1, <2>2, Onward
    <3> QED BY <3>2, <3>3 DEF HandlerOK, HasRead, Mid
  <2> QED BY <1>1, <1>3, <2>2, <2>3, <2>4, OneReads
<1>5. CASE ~o.installed
  <2>1. PICK ok \in BOOLEAN, works \in BOOLEAN :
          /\ Settings!Installed(ok, works)
          /\ Settings!Then(r, o, IF ok THEN Settings!Testing \o rest
                                 ELSE Settings!Refresh \o Settings!Again \o <<"answer">>)
    BY <1>1, <1>5 DEF Settings!Install
  <2>2. page' = store
    BY <1>1, <1>5 DEF Settings!Install
  <2>3. /\ cli' \in Clis /\ cli'.login = cli.login /\ cli'.notion = cli.notion
        /\ ~ok => cli'.installed = cli.installed
    BY <2>1, InstalledTypes
  <2>4. /\ Len(rest) = 5 /\ rest[1] = "load" /\ rest[2] = "look" /\ rest[3] = "count"
        /\ rest[4] = "keep" /\ rest[5] = "answer"
    <3>1. /\ Len(o.todo) = 6 /\ o.todo[2] = "load" /\ o.todo[3] = "look"
          /\ o.todo[4] = "count" /\ o.todo[5] = "keep" /\ o.todo[6] = "answer"
      <4>1. \A i \in 1..Len(o.todo) : o.todo[i] = "install" =>
              /\ Len(o.todo) = i + 5 /\ o.todo[i + 1] = "load" /\ o.todo[i + 2] = "look"
              /\ o.todo[i + 3] = "count" /\ o.todo[i + 4] = "keep"
              /\ o.todo[i + 5] = "answer"
        BY <1>2 DEF PlanOK
      <4>2. 1 \in 1..Len(o.todo) /\ o.todo[1] = "install"
        <5>1. Len(o.todo) > 0
          BY <1>2 DEF PlanOK
        <5> QED BY <1>1, <1>2, <5>1
      <4>3. /\ Len(o.todo) = 1 + 5 /\ o.todo[1 + 1] = "load" /\ o.todo[1 + 2] = "look"
            /\ o.todo[1 + 3] = "count" /\ o.todo[1 + 4] = "keep"
            /\ o.todo[1 + 5] = "answer"
        BY <4>1, <4>2
      <4> QED BY <4>3
    <3> QED BY <1>2, <3>1
  <2>5. ~Comes("save", o.todo)
    <3>1. \A s : Comes(s, o.todo) <=> s = Head(o.todo) \/ Comes(s, rest)
      BY <1>1, Onward
    <3>2. ~Comes("save", rest)
      BY <2>4 DEF Comes
    <3> QED BY <1>1, <3>1, <3>2
  <2>6. ASSUME Sure(o) PROVE o.op \notin Settings!NotionOps
    <3>1. \A s \in Foreign(o.op) : ~Comes(s, o.todo)
      BY <1>1, <2>6 DEF HandlerOK, Promise
    <3>2. Comes("install", o.todo)
      BY <1>1, Onward
    <3> QED BY <3>1, <3>2 DEF Foreign
  <2>7. CASE ok
    <3> DEFINE t == Settings!Testing \o rest
    <3>1. /\ t \in Seq(StepNames) /\ Len(t) = 9
          /\ t[1] = "detect" /\ t[2] = "credential" /\ t[3] = "ask" /\ t[4] = "save"
          /\ t[5] = "load" /\ t[6] = "look" /\ t[7] = "count" /\ t[8] = "keep"
          /\ t[9] = "answer"
      <4>1. /\ Settings!Testing \in Seq(StepNames) /\ Len(Settings!Testing) = 4
            /\ Settings!Testing[1] = "detect" /\ Settings!Testing[2] = "credential"
            /\ Settings!Testing[3] = "ask" /\ Settings!Testing[4] = "save"
        BY DEF Settings!Testing, StepNames
      <4> HIDE DEF rest
      <4>2. /\ Settings!Testing \o rest \in Seq(StepNames)
            /\ Len(Settings!Testing \o rest) = Len(Settings!Testing) + Len(rest)
            /\ \A i \in 1..Len(Settings!Testing) + Len(rest) : (Settings!Testing \o rest)[i] =
                 IF i <= Len(Settings!Testing) THEN Settings!Testing[i]
                 ELSE rest[i - Len(Settings!Testing)]
        <5> HIDE DEF t
        <5> QED BY <1>2, <4>1, ConcatProperties
      <4>3. /\ t \in Seq(StepNames) /\ Len(t) = 9
            /\ \A i \in 1..9 : t[i] = IF i <= 4 THEN Settings!Testing[i] ELSE rest[i - 4]
        <5> HIDE DEF rest
        <5> QED BY <2>4, <4>1, <4>2, SMTT(30)
      <4> HIDE DEF t
      <4> QED BY <2>4, <4>1, <4>3
    <3>2. PICK n \in Handlers : n = [o EXCEPT !.todo = t]
      BY <3>1 DEF Handlers
    <3>3. n.todo = t /\ n.op = o.op /\ n.alone = o.alone /\ n.failed = o.failed
      BY <3>2 DEF Handlers
    <3>4. ops' = [ops EXCEPT ![r] = n]
      BY <1>1, <2>1, <2>7, <3>2 DEF Settings!Then
    <3> HIDE DEF t, rest
    <3>5. PlanOK(t)
      BY <3>1 DEF PlanOK, MadeGood, OnlyAfter, Changes, LoginSteps, NotionSteps
    <3>6. ASSUME Sure(n) PROVE HandlerOK(n)'
      <4>1. Sure(o) /\ o.op \notin Settings!NotionOps
        BY <2>6, <3>3, <3>6 DEF Sure
      <4>2. \A s \in Foreign(o.op) : ~Comes(s, t)
        BY <3>1, <4>1 DEF Foreign, Comes, NotionSteps
      <4>3. Whole(o.op, t)
        BY <3>1, <3>5, <4>1, <4>2 DEF Whole, Comes, Mid
      <4> QED BY <3>3, <4>3, FreshOK
    <3>7. Planned(n)
      BY <1>2, <3>3, <3>5 DEF Planned
    <3>8. /\ ops' \in [Settings!Requests -> Handlers \cup {Settings!Idle}] /\ PlansOK'
          /\ AloneIsAlone' /\ HandlersOK' /\ LastWordIsTrue'
      BY <1>1, <3>3, <3>4, <3>6, <3>7, OneMoves
    <3> QED BY <1>3, <2>3, <3>8 DEF SettingsInv, SettingsTypes, Settings!settings
  <2>8. CASE ~ok
    <3> DEFINE t == Settings!Refresh \o Settings!Again \o <<"answer">>
    <3>1. /\ t \in Seq(StepNames) /\ Len(t) = 9
          /\ t[1] = "load" /\ t[2] = "look" /\ t[3] = "count" /\ t[4] = "keep"
          /\ t[5] = "load" /\ t[6] = "look" /\ t[7] = "count" /\ t[8] = "hold"
          /\ t[9] = "answer"
      BY DEF Settings!Refresh, Settings!Again, StepNames
    <3>2. PICK n \in Handlers : n = [o EXCEPT !.todo = t]
      BY <3>1 DEF Handlers
    <3>3. /\ n.todo = t /\ n.op = o.op /\ n.alone = o.alone /\ n.failed = o.failed
          /\ n.late = o.late
      BY <3>2 DEF Handlers
    <3>4. ops' = [ops EXCEPT ![r] = n]
      BY <1>1, <2>1, <2>8, <3>2 DEF Settings!Then
    <3> HIDE DEF t, rest
    <3>5. PlanOK(t)
      BY <3>1 DEF PlanOK, MadeGood, OnlyAfter, Changes, LoginSteps, NotionSteps
    <3>6. ASSUME Sure(n) PROVE HandlerOK(n)'
      <4>1. Sure(o) /\ o.op \notin Settings!NotionOps
        BY <2>6, <3>3, <3>6 DEF Sure
      <4>2. \A s \in Foreign(o.op) : ~Comes(s, t)
        BY <3>1, <4>1 DEF Foreign, Comes, NotionSteps
      <4>3. n.op \in Tests /\ ~n.late => Right(file)
        BY <1>1, <2>5, <3>3, <4>1 DEF HandlerOK, Promise
      <4>4. Right(file) => Right(file)'
        BY <1>3, <2>3, <2>8 DEF Right, Settings!TrueStatus, Settings!settings
      <4>5. Comes("keep", t) /\ Head(t) \notin Mid
        BY <3>1 DEF Comes, Mid
      <4> QED BY <3>3, <4>1, <4>2, <4>3, <4>4, <4>5 DEF HandlerOK, Promise, HasRead, Mid
    <3>7. Planned(n)
      BY <1>2, <3>3, <3>5 DEF Planned
    <3>8. /\ ops' \in [Settings!Requests -> Handlers \cup {Settings!Idle}] /\ PlansOK'
          /\ AloneIsAlone' /\ HandlersOK' /\ LastWordIsTrue'
      BY <1>1, <3>3, <3>4, <3>6, <3>7, OneMoves
    <3> QED BY <1>3, <2>3, <3>8 DEF SettingsInv, SettingsTypes, Settings!settings
  <2> QED BY <2>7, <2>8
<1> QED BY <1>4, <1>5

-----------------------------------------------------------------------------
(***************************************************************************)
(* refreshRuntimeState, the settings and the other provider.               *)
(***************************************************************************)
LEMMA BuiltStep ==
  ASSUME SettingsInv, NEW r \in Settings!Requests, NEW step \in {"keep", "hold"},
         Settings!Built(r, step),
         step = "keep" => /\ store' = reg'
                          /\ page' = IF ops[r].op \in Settings!Busy THEN store' ELSE page,
         step = "hold" => UNCHANGED <<store, page>>
  PROVE  SettingsInv'
<1>1. PICK o \in Handlers : /\ o = ops[r] /\ o # Settings!Idle /\ Head(o.todo) = step
                            /\ Planned(o) /\ (Sure(o) => HandlerOK(o))
  BY Acting DEF Settings!Built
<1>2. /\ o.op # "other" /\ o.todo \in Seq(StepNames)
      /\ Tail(o.todo) \in Seq(StepNames) /\ PlanOK(Tail(o.todo))
      /\ Head(Tail(o.todo)) \notin Mid
  BY <1>1, Onward
<1>3. /\ known' = IF o.installed /\ known = Settings!Unknown THEN Settings!NotionSeen ELSE known
      /\ reg' = Settings!View(o.mode, o.key, o.token, o.installed, o.status, known')
      /\ UNCHANGED <<kind, cli, signing, authMode, key, token, file>>
  BY <1>1 DEF Settings!Built, Settings!settings
<1>4. PICK said \in {"none", "healthy", "sign", "wait"} : said = Settings!Told(reg')
  BY DEF Settings!Told
<1>5. PICK n \in Handlers :
        n = [o EXCEPT !.mode = "cli", !.key = FALSE, !.token = FALSE,
                      !.status = "untested", !.answer = said, !.todo = Tail(o.todo)]
  BY <1>2, ZenonT(60) DEF Handlers, Modes, Statuses
<1>6. /\ n.todo = Tail(o.todo) /\ n.op = o.op /\ n.late = o.late /\ n.alone = o.alone
      /\ n.failed = o.failed
  BY <1>5 DEF Handlers
<1>7. ops' = [ops EXCEPT ![r] = n] /\ Planned(n)
  BY <1>1, <1>2, <1>4, <1>5, <1>6 DEF Settings!Built, Settings!Done, Settings!Then, Planned
<1>8. ASSUME Sure(n) PROVE HandlerOK(n)'
  <2>1. HandlerOK(o)
    BY <1>1, <1>6, <1>8 DEF Sure
  <2>2. \A s : Comes(s, o.todo) <=> s = step \/ Comes(s, n.todo)
    BY <1>1, <1>6, Onward
  <2>3. /\ o.mode = authMode /\ o.installed = cli.installed /\ o.status = file
        /\ o.key = key /\ o.token = token
    BY <1>1, <2>1 DEF HandlerOK, HasRead
  <2>4. Settings!NotionSeen # Settings!Unknown
    BY DEF SettingsInv, SettingsTypes, Clis, NotionStates, Settings!NotionSeen, Settings!Unknown
  <2>5. ~Comes("list", n.todo) /\ n.op \in Settings!NotionOps
        => known = Settings!NotionSeen /\ known' = known
    BY <1>3, <1>6, <2>1, <2>2, <2>4 DEF HandlerOK, Promise
  <2>6. Settings!NotionSeen' = Settings!NotionSeen
    BY <1>3 DEF Settings!NotionSeen
  <2>7. ~Comes("save", n.todo) /\ n.op \in Tests /\ ~n.late => Right(file)'
    BY <1>3, <1>6, <2>1, <2>2 DEF HandlerOK, Promise, Right, Settings!TrueStatus
  <2>8. ASSUME ~Comes("keep", n.todo) PROVE Shows(n.op)'
    <3>1. CASE step = "keep"
      <4>1. store' = Settings!View(authMode, key, token, cli.installed, file, known')
        BY <1>3, <2>3, <3>1
      <4>2. store' = Settings!View(authMode, key, token, cli.installed, file, store'.notion)
        BY <4>1 DEF Settings!View
      <4>3. ~Comes("list", n.todo)
        <5> SUFFICES ASSUME NEW i \in 1..Len(n.todo), n.todo[i] = "list"
                     PROVE  \E j \in 1..Len(n.todo) : n.todo[j] = "keep"
          BY <2>8 DEF Comes
        <5>1. \E j \in (i + 1)..Len(n.todo) : n.todo[j] = "keep"
          BY <1>2, <1>6 DEF PlanOK, MadeGood, Changes
        <5> QED BY <5>1
      <4>4. n.op \in Settings!NotionOps /\ cli.installed => store'.notion = Settings!NotionSeen
        BY <2>5, <4>1, <4>3 DEF Settings!View
      <4>5. n.op \in Settings!Busy => page' = store'
        BY <1>1, <1>6, <3>1
      <4> QED BY <1>3, <2>6, <4>2, <4>4, <4>5 DEF Shows
    <3>2. CASE step = "hold"
      <4>1. Shows(n.op)
        BY <1>6, <2>1, <2>2, <2>8, <3>2 DEF HandlerOK, Promise
      <4> QED BY <1>3, <2>6, <3>2, <4>1 DEF Shows
    <3> QED BY <3>1, <3>2
  <2>9. Promise(n.op, n.late, n.todo)'
    BY <1>6, <2>1, <2>2, <2>5, <2>6, <2>7, <2>8 DEF HandlerOK, Promise
  <2> QED BY <1>2, <1>6, <2>9 DEF HandlerOK, HasRead, Mid
<1>9. /\ ops' \in [Settings!Requests -> Handlers \cup {Settings!Idle}] /\ PlansOK'
      /\ AloneIsAlone' /\ HandlersOK' /\ LastWordIsTrue'
  BY <1>1, <1>6, <1>7, <1>8, OneMoves
<1> QED BY <1>3, <1>9 DEF SettingsInv, SettingsTypes

LEMMA KeepStep ==
  ASSUME SettingsInv, NEW r \in Settings!Requests, Settings!Keep(r)
  PROVE  SettingsInv'
BY BuiltStep DEF Settings!Keep

LEMMA HoldStep ==
  ASSUME SettingsInv, NEW r \in Settings!Requests, Settings!Hold(r)
  PROVE  SettingsInv'
BY BuiltStep DEF Settings!Hold

\* A setting is changed: the state is shown anew, and no test relies on it.
LEMMA Changed ==
  ASSUME SettingsInv, NEW r \in Settings!Requests, NEW o \in Handlers, o = ops[r],
         Planned(o), Sure(o) => HandlerOK(o),
         Head(o.todo) \in {"set", "saveKey", "clearKey", "token"},
         ops' = [ops EXCEPT ![r] = [o EXCEPT !.todo = Tail(o.todo)]],
         UNCHANGED <<kind, cli, signing, file, known>>,
         authMode' \in Modes, key' \in BOOLEAN, token' \in BOOLEAN
  PROVE  SettingsInv'
<1>1. /\ o.op # "other" /\ o.todo \in Seq(StepNames)
      /\ Tail(o.todo) \in Seq(StepNames) /\ PlanOK(Tail(o.todo))
      /\ Head(Tail(o.todo)) \notin Mid /\ Comes("keep", Tail(o.todo))
      /\ \A s : Comes(s, o.todo) <=> s = Head(o.todo) \/ Comes(s, Tail(o.todo))
  BY Onward DEF Changes
<1>2. PICK n \in Handlers : n = [o EXCEPT !.todo = Tail(o.todo)]
  BY <1>1 DEF Handlers
<1>3. /\ n.todo = Tail(o.todo) /\ n.op = o.op /\ n.late = o.late /\ n.alone = o.alone
      /\ n.failed = o.failed
  BY <1>2 DEF Handlers
<1>4. ops' = [ops EXCEPT ![r] = n] /\ Planned(n)
  BY <1>1, <1>2, <1>3 DEF Planned
<1>5. ASSUME Sure(n) PROVE HandlerOK(n)'
  <2>1. HandlerOK(o)
    BY <1>3, <1>5 DEF Sure
  <2>2. \A s \in Foreign(o.op) : s # Head(o.todo) /\ ~Comes(s, n.todo)
    BY <1>1, <1>3, <2>1 DEF HandlerOK, Promise
  <2>3. n.op \notin Tests
    BY <1>3, <2>2 DEF Foreign
  <2>4. ~Comes("list", n.todo) /\ n.op \in Settings!NotionOps => known = Settings!NotionSeen
    BY <1>1, <1>3, <2>1 DEF HandlerOK, Promise
  <2> QED BY <1>1, <1>3, <2>2, <2>3, <2>4
          DEF HandlerOK, Promise, HasRead, Mid, Settings!NotionSeen
<1>6. /\ ops' \in [Settings!Requests -> Handlers \cup {Settings!Idle}] /\ PlansOK'
      /\ AloneIsAlone' /\ HandlersOK' /\ LastWordIsTrue'
  BY <1>3, <1>4, <1>5, OneMoves
<1> QED BY <1>6 DEF SettingsInv, SettingsTypes

LEMMA SetStep ==
  ASSUME SettingsInv, NEW r \in Settings!Requests, Settings!Set(r)
  PROVE  SettingsInv'
<1>1. PICK o \in Handlers : /\ o = ops[r] /\ o # Settings!Idle /\ Head(o.todo) = "set"
                            /\ Planned(o) /\ (Sure(o) => HandlerOK(o))
  BY Acting DEF Settings!Set
<1>2. authMode' \in Modes /\ key' \in BOOLEAN /\ token' \in BOOLEAN
  BY <1>1 DEF Settings!Set, Handlers, SettingsInv, SettingsTypes
<1> QED BY <1>1, <1>2, Changed DEF Settings!Set, Settings!Done, Settings!Then

LEMMA KeyStep ==
  ASSUME SettingsInv, NEW r \in Settings!Requests, Settings!SaveKey(r) \/ Settings!ClearKey(r)
  PROVE  SettingsInv'
<1>1. PICK step \in {"saveKey", "clearKey"}, value \in BOOLEAN :
        Settings!SetKey(r, step, value, Tail(ops[r].todo))
  BY DEF Settings!SaveKey, Settings!ClearKey
<1>2. PICK o \in Handlers : /\ o = ops[r] /\ o # Settings!Idle /\ Head(o.todo) = step
                            /\ Planned(o) /\ (Sure(o) => HandlerOK(o))
  BY <1>1, Acting DEF Settings!SetKey
<1>3. authMode' \in Modes /\ key' \in BOOLEAN /\ token' \in BOOLEAN
  BY <1>1 DEF Settings!SetKey, SettingsInv, SettingsTypes
<1> QED BY <1>1, <1>2, <1>3, Changed DEF Settings!SetKey, Settings!Then

\* A handler ends: the other one, if there is one, is not alone.
LEMMA OneEnds ==
  ASSUME SettingsInv, NEW r \in Settings!Requests, ops[r] # Settings!Idle,
         ops' = [ops EXCEPT ![r] = Settings!Idle]
  PROVE  /\ ops' \in [Settings!Requests -> Handlers \cup {Settings!Idle}] /\ PlansOK'
         /\ AloneIsAlone' /\ HandlersOK'
<1>1. /\ ops \in [Settings!Requests -> Handlers \cup {Settings!Idle}]
      /\ ops' \in [Settings!Requests -> Handlers \cup {Settings!Idle}] /\ ops'[r] = Settings!Idle
  BY DEF SettingsInv, SettingsTypes
<1>2. \A q \in Settings!Requests : q # r => /\ ops'[q] = ops[q] /\ q = 3 - r /\ r = 3 - q
  BY <1>1 DEF Settings!Requests
<1>3. AloneIsAlone'
  BY <1>1, <1>2 DEF SettingsInv, AloneIsAlone, Settings!Requests
<1>4. PlansOK'
  <2> SUFFICES ASSUME NEW q \in Settings!Requests, NEW m \in {ops'[q]}, m # Settings!Idle
               PROVE  Planned(m)
    BY DEF PlansOK, Planned
  <2> QED BY <1>1, <1>2 DEF SettingsInv, PlansOK
<1>5. HandlersOK'
  BY <1>1, <1>2 DEF SettingsInv, AloneIsAlone, HandlersOK, Sure
<1> QED BY <1>1, <1>3, <1>4, <1>5

LEMMA BorrowStep ==
  ASSUME SettingsInv, NEW r \in Settings!Requests, Settings!Borrow(r)
  PROVE  SettingsInv'
<1>1. PICK o \in Handlers : /\ o = ops[r] /\ o # Settings!Idle /\ Head(o.todo) = "borrow"
                            /\ Planned(o) /\ (Sure(o) => HandlerOK(o))
  BY Acting DEF Settings!Borrow
<1>2. file \in Statuses
  BY DEF SettingsInv, SettingsTypes
<1>3. o.op = "other" /\ o.todo = <<"borrow", "repay">>
  BY <1>1 DEF Planned, PlanOK, Handlers
<1>4. Tail(o.todo) = <<"repay">> /\ Tail(o.todo) \in Seq(StepNames)
  BY <1>3 DEF StepNames
<1>5. PICK n \in Handlers : n = [o EXCEPT !.status = file, !.todo = Tail(o.todo)]
  BY <1>2, <1>4 DEF Handlers
<1>6. n.op = "other" /\ n.alone = o.alone /\ Planned(n)
  BY <1>3, <1>4, <1>5 DEF Handlers, Planned
<1>7. ops' = [ops EXCEPT ![r] = n]
  BY <1>1, <1>5 DEF Settings!Borrow, Settings!Done, Settings!Then
<1> QED BY <1>1, <1>6, <1>7, OneReads DEF Settings!Borrow, Settings!caches, Sure

LEMMA RepayStep ==
  ASSUME SettingsInv, NEW r \in Settings!Requests, Settings!Repay(r)
  PROVE  SettingsInv'
<1>1. PICK o \in Handlers : o = ops[r] /\ o # Settings!Idle
  BY Acting DEF Settings!Repay
<1>2. file' \in Statuses
  BY <1>1 DEF Settings!Repay, Handlers
<1>3. /\ ops' \in [Settings!Requests -> Handlers \cup {Settings!Idle}] /\ PlansOK'
      /\ AloneIsAlone' /\ HandlersOK'
  BY <1>1, OneEnds DEF Settings!Repay
<1>4. LastWordIsTrue'
  BY DEF Settings!Repay, LastWordIsTrue, Settings!LastWordIsTrue
<1> QED BY <1>2, <1>3, <1>4 DEF Settings!Repay, SettingsInv, SettingsTypes, Settings!settings

-----------------------------------------------------------------------------
(***************************************************************************)
(* The login of the CLI.                                                   *)
(***************************************************************************)
\* The CLI is installed, or a login begun or ended: the test comes after it.
LEMMA LoginMoves ==
  ASSUME SettingsInv, NEW r \in Settings!Requests, NEW o \in Handlers, o = ops[r],
         Planned(o), Sure(o) => HandlerOK(o), Head(o.todo) \in {"probe", "sign", "signOut"},
         NEW n \in Handlers, ops' = [ops EXCEPT ![r] = n],
         n.alone = o.alone, n.failed = o.failed, n.op = o.op, n.todo = Tail(o.todo),
         UNCHANGED <<kind, Settings!settings, file, known, store>>, page' \in {page, store},
         signing' \in BOOLEAN, cli' \in Clis, cli'.notion = cli.notion,
         Head(o.todo) # "probe" => cli'.installed = cli.installed
  PROVE  SettingsInv'
<1>1. /\ o.op # "other" /\ n.todo \in Seq(StepNames) /\ PlanOK(n.todo)
      /\ Head(n.todo) \notin Mid /\ Comes("save", n.todo)
      /\ Head(o.todo) = "probe" => Comes("keep", n.todo)
      /\ \A s : Comes(s, o.todo) <=> s = Head(o.todo) \/ Comes(s, n.todo)
  BY Onward DEF LoginSteps, Changes
<1>2. Planned(n)
  BY <1>1 DEF Planned
<1>3. ASSUME Sure(n) PROVE HandlerOK(n)'
  <2>1. HandlerOK(o)
    BY <1>3 DEF Sure
  <2>2. \A s \in Foreign(o.op) : s # Head(o.todo) /\ ~Comes(s, n.todo)
    BY <1>1, <2>1 DEF HandlerOK, Promise
  <2>3. Head(o.todo) = "probe" => n.op \notin Settings!NotionOps
    BY <2>2 DEF Foreign
  <2>4. n.op \in Settings!NotionOps => Settings!NotionSeen' = Settings!NotionSeen
    BY <2>3 DEF Settings!NotionSeen
  <2>5. ~Comes("list", n.todo) /\ n.op \in Settings!NotionOps => known' = Settings!NotionSeen'
    BY <1>1, <2>1, <2>4 DEF HandlerOK, Promise
  <2>6. ASSUME ~Comes("keep", n.todo) PROVE Shows(n.op)'
    <3>1. Shows(n.op) /\ cli'.installed = cli.installed
      BY <1>1, <2>1, <2>6 DEF HandlerOK, Promise
    <3> QED BY <2>4, <3>1 DEF Shows, Settings!settings
  <2> QED BY <1>1, <2>2, <2>5, <2>6 DEF HandlerOK, Promise, HasRead, Mid
<1>4. /\ ops' \in [Settings!Requests -> Handlers \cup {Settings!Idle}] /\ PlansOK'
      /\ AloneIsAlone' /\ HandlersOK' /\ LastWordIsTrue'
  BY <1>2, <1>3, OneMoves
<1> QED BY <1>4 DEF SettingsInv, SettingsTypes, Settings!settings

LEMMA ProbeStep ==
  ASSUME SettingsInv, NEW r \in Settings!Requests, Settings!Probe(r)
  PROVE  SettingsInv'
<1>1. PICK o \in Handlers : /\ o = ops[r] /\ o # Settings!Idle /\ Head(o.todo) = "probe"
                            /\ Planned(o) /\ (Sure(o) => HandlerOK(o))
  BY Acting DEF Settings!Probe
<1>2. o.op # "other" /\ Tail(o.todo) \in Seq(StepNames)
  BY <1>1, Onward
<1>3. PICK n \in Handlers : n = [o EXCEPT !.todo = Tail(o.todo)]
  BY <1>2 DEF Handlers
<1>4. n.todo = Tail(o.todo) /\ n.op = o.op /\ n.alone = o.alone /\ n.failed = o.failed
  BY <1>3 DEF Handlers
<1>5. cli \in Clis /\ signing \in BOOLEAN
  BY DEF SettingsInv, SettingsTypes
<1>6. CASE cli.installed
  <2>1. ops' = [ops EXCEPT ![r] = n] /\ UNCHANGED <<cli, page>>
    BY <1>1, <1>3, <1>6 DEF Settings!Probe, Settings!Done, Settings!Then
  <2> QED BY <1>1, <1>4, <1>5, <2>1, LoginMoves DEF Settings!Probe
<1>7. CASE ~cli.installed
  <2>1. PICK ok \in BOOLEAN, works \in BOOLEAN :
          /\ Settings!Installed(ok, works)
          /\ IF ok THEN Settings!Done(r, ops[r])
             ELSE Settings!Then(r, [ops[r] EXCEPT !.answer = "wait", !.failed = TRUE], <<"answer">>)
    BY <1>7 DEF Settings!Probe
  <2>2. /\ cli' \in Clis /\ cli'.login = cli.login /\ cli'.notion = cli.notion
    BY <2>1, InstalledTypes
  <2>3. page' = store
    BY <1>7 DEF Settings!Probe
  <2>4. CASE ok
    <3>1. ops' = [ops EXCEPT ![r] = n]
      BY <1>1, <1>3, <2>1, <2>4 DEF Settings!Done, Settings!Then
    <3> QED BY <1>1, <1>4, <1>5, <2>2, <2>3, <3>1, LoginMoves DEF Settings!Probe
  <2>5. CASE ~ok
    <3>1. PICK m \in Handlers :
            m = [o EXCEPT !.answer = "wait", !.failed = TRUE, !.todo = <<"answer">>]
      BY AnswerPlan DEF Handlers
    <3>2. m.failed /\ m.alone = o.alone /\ m.op = o.op /\ m.todo = <<"answer">>
      BY <3>1 DEF Handlers
    <3>3. Planned(m) /\ ~Sure(m)
      BY <1>2, <3>2, AnswerPlan DEF Planned, Sure
    <3>4. ops' = [ops EXCEPT ![r] = m]
      BY <1>1, <2>1, <2>5, <3>1 DEF Settings!Then
    <3>5. /\ ops' \in [Settings!Requests -> Handlers \cup {Settings!Idle}] /\ PlansOK'
          /\ AloneIsAlone' /\ HandlersOK' /\ LastWordIsTrue'
      BY <1>1, <3>2, <3>3, <3>4, OneMoves
    <3> QED BY <2>2, <3>5 DEF Settings!Probe, SettingsInv, SettingsTypes, Settings!settings
  <2> QED BY <2>4, <2>5
<1> QED BY <1>6, <1>7

\* What the handler has seen is written down, and the next step is due.
LEMMA SeenStep ==
  ASSUME NEW o \in Handlers, Planned(o), Head(o.todo) \notin {"answer", "borrow", "repay"},
         NEW seen \in NotionStates \cup {Settings!Unknown, "done", "wait"}
  PROVE  \E n \in Handlers :
           /\ n = [o EXCEPT !.seen = seen, !.todo = Tail(o.todo)]
           /\ n.todo = Tail(o.todo) /\ n.op = o.op /\ n.late = o.late /\ n.alone = o.alone
           /\ n.failed = o.failed
<1>1. Tail(o.todo) \in Seq(StepNames)
  BY Onward
<1>2. PICK n \in Handlers : n = [o EXCEPT !.seen = seen, !.todo = Tail(o.todo)]
  BY <1>1 DEF Handlers
<1> QED BY <1>2, ZenonT(60) DEF Handlers

LEMMA SignStep ==
  ASSUME SettingsInv, NEW r \in Settings!Requests, Settings!Sign(r)
  PROVE  SettingsInv'
<1>1. PICK o \in Handlers : /\ o = ops[r] /\ o # Settings!Idle /\ Head(o.todo) = "sign"
                            /\ Planned(o) /\ (Sure(o) => HandlerOK(o))
  BY Acting DEF Settings!Sign
<1>2. /\ cli \in Clis /\ signing \in BOOLEAN
      /\ UNCHANGED <<kind, Settings!settings, file, Settings!caches>>
  BY DEF Settings!Sign, SettingsInv, SettingsTypes
<1>3. ASSUME NEW done \in BOOLEAN, Settings!Signed(r, done), signing' \in BOOLEAN,
             NEW login \in BOOLEAN, cli' = [cli EXCEPT !.login = login]
      PROVE  SettingsInv'
  <2>1. PICK seen \in NotionStates \cup {Settings!Unknown, "done", "wait"} :
          seen = IF done THEN "done" ELSE "wait"
    OBVIOUS
  <2>2. PICK n \in Handlers :
          /\ n = [o EXCEPT !.seen = seen, !.todo = Tail(o.todo)]
          /\ n.todo = Tail(o.todo) /\ n.op = o.op /\ n.late = o.late /\ n.alone = o.alone
          /\ n.failed = o.failed
    BY <1>1, SeenStep
  <2>3. ops' = [ops EXCEPT ![r] = n]
    BY <1>1, <1>3, <2>1, <2>2 DEF Settings!Signed, Settings!Done, Settings!Then
  <2>4. cli' \in Clis /\ cli'.notion = cli.notion /\ cli'.installed = cli.installed
    BY <1>2, <1>3 DEF Clis
  <2> QED BY <1>1, <1>2, <1>3, <2>2, <2>3, <2>4, LoginMoves DEF Settings!caches
<1>4. CASE Settings!CodexSigns(r)
  <2>1. PICK ok \in BOOLEAN : cli' = [cli EXCEPT !.login = @ \/ ok] /\ Settings!Signed(r, ok)
    BY <1>4 DEF Settings!CodexSigns
  <2>2. (cli.login \/ ok) \in BOOLEAN /\ cli' = [cli EXCEPT !.login = cli.login \/ ok]
    BY <1>2, <2>1 DEF Clis
  <2> QED BY <1>2, <1>3, <1>4, <2>1, <2>2 DEF Settings!CodexSigns
<1>5. CASE Settings!GeminiSigns(r)
  <2>1. PICK ok \in BOOLEAN :
          cli' = [cli EXCEPT !.login = ok] /\ signing' = ~ok /\ Settings!Signed(r, ok)
    BY <1>5 DEF Settings!GeminiSigns
  <2> QED BY <1>3, <2>1
<1>6. CASE Settings!ClaudeSigns(r) /\ ops' # [ops EXCEPT ![r] = Settings!Idle]
  <2>1. signing' = TRUE /\ Settings!Signed(r, FALSE) /\ UNCHANGED cli
    BY <1>6 DEF Settings!ClaudeSigns
  <2>2. cli.login \in BOOLEAN /\ cli' = [cli EXCEPT !.login = cli.login]
    BY <1>2, <2>1 DEF Clis
  <2> QED BY <1>3, <2>1, <2>2
<1>7. CASE Settings!ClaudeSigns(r) /\ ops' = [ops EXCEPT ![r] = Settings!Idle]
  <2>1. signing' \in BOOLEAN /\ UNCHANGED cli
    BY <1>7 DEF Settings!ClaudeSigns
  <2>2. /\ ops' \in [Settings!Requests -> Handlers \cup {Settings!Idle}] /\ PlansOK'
        /\ AloneIsAlone' /\ HandlersOK'
    BY <1>1, <1>7, OneEnds
  <2>3. last' = Settings!Nobody
    <3>1. CASE Settings!Signed(r, FALSE)
      <4>1. ops' = [ops EXCEPT ![r] = [[o EXCEPT !.seen = "wait"] EXCEPT !.todo = Tail(o.todo)]]
        BY <1>1, <3>1 DEF Settings!Signed, Settings!Done, Settings!Then
      <4>2. r \in DOMAIN ops
        BY DEF SettingsInv, SettingsTypes
      <4>3. [[o EXCEPT !.seen = "wait"] EXCEPT !.todo = Tail(o.todo)] = Settings!Idle
        BY <1>7, <4>1, <4>2
      <4> QED BY <4>3 DEF Handlers, Settings!Idle, Settings!Asked
    <3> QED BY <1>7, <3>1 DEF Settings!ClaudeSigns
  <2>4. LastWordIsTrue'
    BY <2>3 DEF LastWordIsTrue, Settings!LastWordIsTrue
  <2> QED BY <1>2, <2>1, <2>2, <2>4 DEF SettingsInv, SettingsTypes, Settings!settings
<1> QED BY <1>4, <1>5, <1>6, <1>7 DEF Settings!Sign

LEMMA SignOutStep ==
  ASSUME SettingsInv, NEW r \in Settings!Requests, Settings!SignOut(r)
  PROVE  SettingsInv'
<1>1. PICK o \in Handlers : /\ o = ops[r] /\ o # Settings!Idle /\ Head(o.todo) = "signOut"
                            /\ Planned(o) /\ (Sure(o) => HandlerOK(o))
  BY Acting DEF Settings!SignOut
<1>2. Tail(o.todo) \in Seq(StepNames)
  BY <1>1, Onward
<1>3. PICK n \in Handlers : n = [o EXCEPT !.todo = Tail(o.todo)]
  BY <1>2 DEF Handlers
<1>4. n.todo = Tail(o.todo) /\ n.op = o.op /\ n.alone = o.alone /\ n.failed = o.failed
  BY <1>3 DEF Handlers
<1>5. ops' = [ops EXCEPT ![r] = n] /\ UNCHANGED <<kind, Settings!settings, file, Settings!caches>>
  BY <1>1, <1>3 DEF Settings!SignOut, Settings!Done, Settings!Then
<1>6. /\ cli' \in Clis /\ cli'.notion = cli.notion /\ cli'.installed = cli.installed
      /\ signing' \in BOOLEAN
  BY DEF Settings!SignOut, Settings!FilesDeleted, Settings!CodexSignsOut, Settings!ClaudeSignsOut,
         SettingsInv, SettingsTypes, Clis
<1> QED BY <1>1, <1>4, <1>5, <1>6, LoginMoves DEF Settings!caches

\* The user is done in the browser.
LEMMA LoginStep ==
  ASSUME SettingsInv, Settings!Login
  PROVE  SettingsInv'
<1>1. /\ cli \in Clis /\ ops \in [Settings!Requests -> Handlers \cup {Settings!Idle}]
      /\ cli' = [cli EXCEPT !.login = TRUE] /\ signing' = FALSE /\ last' = Settings!Nobody
      /\ UNCHANGED <<kind, Settings!settings, file, Settings!caches>>
      /\ ops' = [r \in Settings!Requests |-> IF ops[r] = Settings!Idle THEN Settings!Idle
                                    ELSE [ops[r] EXCEPT !.late = ops[r].alone]]
  BY DEF Settings!Login, SettingsInv, SettingsTypes
<1>2. cli' \in Clis /\ cli'.installed = cli.installed /\ cli'.notion = cli.notion
  BY <1>1 DEF Clis
<1>3. ASSUME NEW r \in Settings!Requests, ops[r] # Settings!Idle
      PROVE  \E o \in Handlers, n \in Handlers :
               /\ o = ops[r] /\ n = ops'[r] /\ n.todo = o.todo /\ n.op = o.op
               /\ n.alone = o.alone /\ n.failed = o.failed /\ n.late = o.alone
               /\ n.mode = o.mode /\ n.installed = o.installed /\ n.status = o.status
               /\ n.key = o.key /\ n.token = o.token /\ n # Settings!Idle
  <2>1. PICK o \in Handlers : o = ops[r]
    BY <1>1, <1>3
  <2>2. PICK n \in Handlers : n = [o EXCEPT !.late = o.alone]
    BY DEF Handlers
  <2>3. n = ops'[r] /\ n # Settings!Idle
    BY <1>1, <1>3, <2>1, <2>2 DEF Handlers, Settings!Idle, Settings!Asked
  <2>4. /\ n.todo = o.todo /\ n.op = o.op /\ n.alone = o.alone /\ n.failed = o.failed
        /\ n.late = o.alone /\ n.mode = o.mode /\ n.installed = o.installed
        /\ n.status = o.status /\ n.key = o.key /\ n.token = o.token
    BY <2>2 DEF Handlers
  <2> QED BY <2>1, <2>3, <2>4
<1>4. \A r \in Settings!Requests : ops[r] = Settings!Idle => ops'[r] = Settings!Idle
  BY <1>1
<1>5. ops' \in [Settings!Requests -> Handlers \cup {Settings!Idle}]
  BY <1>1, <1>3, <1>4
<1>6. AloneIsAlone'
  <2> SUFFICES ASSUME NEW r \in Settings!Requests, ops'[r] # Settings!Idle, ops'[r].alone
               PROVE  ops'[3 - r] = Settings!Idle
    BY DEF AloneIsAlone
  <2>1. ops[r] # Settings!Idle /\ ops[r].alone /\ 3 - r \in Settings!Requests
    BY <1>3, <1>4 DEF Settings!Requests
  <2> QED BY <1>4, <2>1 DEF SettingsInv, AloneIsAlone
<1>7. PlansOK'
  <2> SUFFICES ASSUME NEW r \in Settings!Requests, NEW m \in {ops'[r]}, m # Settings!Idle
               PROVE  Planned(m)
    BY DEF PlansOK, Planned
  <2> QED BY <1>3, <1>4 DEF SettingsInv, PlansOK, Planned
<1>8. HandlersOK'
  <2> SUFFICES ASSUME NEW r \in Settings!Requests, NEW m \in {ops'[r]}, m # Settings!Idle, Sure(m)
               PROVE  HandlerOK(m)'
    BY DEF HandlersOK, Sure
  <2>1. PICK o \in Handlers, n \in Handlers :
          /\ o = ops[r] /\ n = m /\ n.todo = o.todo /\ n.op = o.op
          /\ n.alone = o.alone /\ n.failed = o.failed /\ n.late = o.alone
          /\ n.mode = o.mode /\ n.installed = o.installed /\ n.status = o.status
          /\ n.key = o.key /\ n.token = o.token /\ o # Settings!Idle
    BY <1>3, <1>4
  <2>2. HandlerOK(o) /\ n.late
    BY <2>1 DEF SettingsInv, HandlersOK, Sure
  <2>3. Promise(n.op, n.late, n.todo)'
    BY <1>1, <1>2, <2>1, <2>2
    DEF HandlerOK, Promise, Shows, Settings!NotionSeen, Settings!settings, Settings!caches
  <2>4. HasRead(n)'
    BY <1>1, <1>2, <2>1, <2>2 DEF HandlerOK, HasRead, Settings!settings
  <2> QED BY <2>1, <2>3, <2>4 DEF HandlerOK
<1>9. LastWordIsTrue'
  BY <1>1 DEF LastWordIsTrue, Settings!LastWordIsTrue
<1> QED BY <1>1, <1>2, <1>5, <1>6, <1>7, <1>8, <1>9
        DEF SettingsInv, SettingsTypes, Settings!settings

-----------------------------------------------------------------------------
(***************************************************************************)
(* Notion.                                                                 *)
(***************************************************************************)
LEMMA TokenStep ==
  ASSUME SettingsInv, NEW r \in Settings!Requests, Settings!Token(r)
  PROVE  SettingsInv'
<1>1. PICK o \in Handlers : /\ o = ops[r] /\ o # Settings!Idle /\ Head(o.todo) = "token"
                            /\ Planned(o) /\ (Sure(o) => HandlerOK(o))
  BY Acting DEF Settings!Token
<1>2. authMode' \in Modes /\ key' \in BOOLEAN /\ token' \in BOOLEAN
  BY DEF Settings!Token, SettingsInv, SettingsTypes
<1> QED BY <1>1, <1>2, Changed DEF Settings!Token, Settings!Done, Settings!Then

\* The connection is changed or looked at: a list and a refresh come after it.
LEMMA NotionMoves ==
  ASSUME SettingsInv, NEW r \in Settings!Requests, NEW o \in Handlers, o = ops[r],
         Planned(o), Sure(o) => HandlerOK(o), Head(o.todo) \in NotionSteps,
         NEW n \in Handlers, ops' = [ops EXCEPT ![r] = n],
         n.alone = o.alone, n.failed = o.failed, n.op = o.op,
         PlanOK(n.todo), Head(n.todo) \notin Mid, Comes("list", n.todo),
         \A s : Comes(s, n.todo) => Comes(s, o.todo),
         UNCHANGED <<kind, signing, Settings!settings, file>>, cli' \in Clis
  PROVE  SettingsInv'
<1>1. o.op # "other" /\ \A s : s = Head(o.todo) => Comes(s, o.todo)
  BY Onward DEF NotionSteps
<1>2. Comes("keep", n.todo)
  <2>1. PICK i \in 1..Len(n.todo) : n.todo[i] = "list"
    BY DEF Comes
  <2>2. PICK j \in (i + 1)..Len(n.todo) : n.todo[j] = "keep"
    BY <2>1 DEF PlanOK, MadeGood, Changes
  <2> QED BY <2>2 DEF Comes
<1>3. ASSUME Sure(n) PROVE HandlerOK(n)'
  <2>1. HandlerOK(o)
    BY <1>3 DEF Sure
  <2>2. \A s \in Foreign(o.op) : ~Comes(s, o.todo)
    BY <2>1 DEF HandlerOK, Promise
  <2>3. n.op \notin Tests
    BY <1>1, <2>2 DEF Foreign
  <2> QED BY <1>2, <2>2, <2>3 DEF HandlerOK, Promise, HasRead, Mid
<1>4. Planned(n)
  BY <1>1 DEF Planned
<1>5. /\ ops' \in [Settings!Requests -> Handlers \cup {Settings!Idle}] /\ PlansOK'
      /\ AloneIsAlone' /\ HandlersOK' /\ LastWordIsTrue'
  BY <1>3, <1>4, OneMoves
<1> QED BY <1>5 DEF SettingsInv, SettingsTypes, Settings!settings

LEMMA FailsStep ==
  ASSUME SettingsInv, NEW r \in Settings!Requests, NEW o \in Handlers, o = ops[r], o.op # "other",
         Settings!Fails(r), UNCHANGED <<kind, signing, Settings!settings, file>>, cli' \in Clis
  PROVE  SettingsInv'
<1>1. PICK n \in Handlers : n = [o EXCEPT !.failed = TRUE, !.todo = <<"answer">>]
  BY AnswerPlan DEF Handlers
<1>2. n.failed /\ n.alone = o.alone /\ n.op = o.op /\ n.todo = <<"answer">>
  BY <1>1 DEF Handlers
<1>3. Planned(n) /\ ~Sure(n)
  BY <1>2, AnswerPlan DEF Planned, Sure
<1>4. ops' = [ops EXCEPT ![r] = n]
  BY <1>1 DEF Settings!Fails, Settings!Then
<1>5. /\ ops' \in [Settings!Requests -> Handlers \cup {Settings!Idle}] /\ PlansOK'
      /\ AloneIsAlone' /\ HandlersOK' /\ LastWordIsTrue'
  BY <1>2, <1>3, <1>4, OneMoves
<1> QED BY <1>5 DEF SettingsInv, SettingsTypes, Settings!settings

LEMMA CarryStep ==
  ASSUME SettingsInv, NEW r \in Settings!Requests, NEW o \in Handlers, o = ops[r],
         Planned(o), Sure(o) => HandlerOK(o), Head(o.todo) \in NotionSteps,
         NEW notion \in NotionStates, NEW rest \in Seq(StepNames), Settings!Carry(r, notion, rest),
         PlanOK(rest), Head(rest) \notin Mid, Comes("list", rest),
         \A s : Comes(s, rest) => Comes(s, o.todo),
         UNCHANGED <<kind, signing, Settings!settings, file>>
  PROVE  SettingsInv'
<1>1. /\ o.op # "other" /\ cli \in Clis
  BY Onward DEF NotionSteps, SettingsInv, SettingsTypes
<1>2. CASE Settings!Fails(r) /\ cli' \in {cli, [cli EXCEPT !.notion = "absent"]}
  <2>1. cli' \in Clis
    BY <1>1, <1>2 DEF Clis, NotionStates
  <2> QED BY <1>1, <1>2, <2>1, FailsStep
<1>3. CASE Settings!Then(r, ops[r], rest) /\ cli' = [cli EXCEPT !.notion = notion]
  <2>1. cli' \in Clis
    BY <1>1, <1>3 DEF Clis
  <2>2. PICK n \in Handlers : n = [o EXCEPT !.todo = rest]
    BY DEF Handlers
  <2>3. n.todo = rest /\ n.op = o.op /\ n.alone = o.alone /\ n.failed = o.failed
    BY <2>2 DEF Handlers
  <2>4. ops' = [ops EXCEPT ![r] = n]
    BY <1>3, <2>2 DEF Settings!Then
  <2> QED BY <2>1, <2>3, <2>4, NotionMoves
<1> QED BY <1>2, <1>3 DEF Settings!Carry

LEMMA ConsentStep ==
  ASSUME SettingsInv, NEW r \in Settings!Requests, Settings!Consent(r)
  PROVE  SettingsInv'
<1>1. PICK o \in Handlers : /\ o = ops[r] /\ o # Settings!Idle /\ Head(o.todo) = "consent"
                            /\ Planned(o) /\ (Sure(o) => HandlerOK(o))
  BY Acting DEF Settings!Consent
<1>2. /\ o.op # "other" /\ Tail(o.todo) \in Seq(StepNames) /\ PlanOK(Tail(o.todo))
      /\ Head(Tail(o.todo)) \notin Mid /\ Comes("list", Tail(o.todo))
      /\ \A s : Comes(s, Tail(o.todo)) => Comes(s, o.todo)
  BY <1>1, Onward DEF NotionSteps
<1>3. cli \in Clis /\ UNCHANGED <<kind, signing, Settings!settings, file>>
  BY DEF Settings!Consent, SettingsInv, SettingsTypes
<1>4. CASE Settings!Refused(r)
  BY <1>1, <1>2, <1>3, <1>4, FailsStep DEF Settings!Refused
<1>5. CASE Settings!Consented(r)
  <2>1. cli' \in Clis
    BY <1>3, <1>5 DEF Settings!Consented, Clis, NotionStates
  <2>2. PICK n \in Handlers : n = [o EXCEPT !.todo = Tail(o.todo)]
    BY <1>2 DEF Handlers
  <2>3. n.todo = Tail(o.todo) /\ n.op = o.op /\ n.alone = o.alone /\ n.failed = o.failed
    BY <2>2 DEF Handlers
  <2>4. ops' = [ops EXCEPT ![r] = n]
    BY <1>1, <1>5, <2>2 DEF Settings!Consented, Settings!Done, Settings!Then
  <2> QED BY <1>1, <1>2, <1>3, <2>1, <2>3, <2>4, NotionMoves DEF NotionSteps
<1> QED BY <1>4, <1>5 DEF Settings!Consent

LEMMA RemoveStep ==
  ASSUME SettingsInv, NEW r \in Settings!Requests, Settings!Remove(r)
  PROVE  SettingsInv'
<1>1. PICK o \in Handlers : /\ o = ops[r] /\ o # Settings!Idle /\ Head(o.todo) = "remove"
                            /\ Planned(o) /\ (Sure(o) => HandlerOK(o))
  BY Acting DEF Settings!Remove
<1>2. /\ o.op # "other" /\ Tail(o.todo) \in Seq(StepNames) /\ PlanOK(Tail(o.todo))
      /\ Head(Tail(o.todo)) \notin Mid /\ Comes("list", Tail(o.todo))
      /\ PlanOK(o.todo) /\ o.todo \in Seq(StepNames)
      /\ \A s : Comes(s, Tail(o.todo)) => Comes(s, o.todo)
  BY <1>1, Onward DEF NotionSteps
<1>3. UNCHANGED <<kind, signing, Settings!settings, file, store>>
  BY DEF Settings!Remove
<1>4. CASE o.seen = "absent"
  <2>1. PICK n \in Handlers : n = [o EXCEPT !.todo = Tail(o.todo)]
    BY <1>2 DEF Handlers
  <2>2. /\ n.todo = Tail(o.todo) /\ n.op = o.op /\ n.late = o.late /\ n.alone = o.alone
        /\ n.failed = o.failed
    BY <2>1 DEF Handlers
  <2>3. ops' = [ops EXCEPT ![r] = n] /\ Planned(n) /\ UNCHANGED <<cli, known, page>>
    BY <1>1, <1>2, <1>4, <2>1, <2>2 DEF Settings!Remove, Settings!Done, Settings!Then, Planned
  <2>4. ASSUME Sure(n) PROVE HandlerOK(n)
    <3>1. HandlerOK(o)
      BY <1>1, <2>2, <2>4 DEF Sure
    <3>2. Promise(n.op, n.late, n.todo)
      BY <1>1, <1>2, <2>2, <3>1, StepDropped DEF HandlerOK
    <3> QED BY <1>2, <2>2, <3>2 DEF HandlerOK, HasRead, Mid
  <2> QED BY <1>1, <1>3, <2>2, <2>3, <2>4, OneReads
<1>5. CASE o.seen # "absent"
  <2>1. Settings!Carry(r, "absent", Tail(o.todo))
    BY <1>1, <1>5 DEF Settings!Remove
  <2>2. "absent" \in NotionStates
    BY DEF NotionStates
  <2> QED BY <1>1, <1>2, <1>3, <2>1, <2>2, CarryStep DEF NotionSteps
<1> QED BY <1>4, <1>5

LEMMA ConnectStep ==
  ASSUME SettingsInv, NEW r \in Settings!Requests, Settings!Connect(r)
  PROVE  SettingsInv'
<1>1. PICK o \in Handlers : /\ o = ops[r] /\ o # Settings!Idle /\ Head(o.todo) = "connect"
                            /\ Planned(o) /\ (Sure(o) => HandlerOK(o))
  BY Acting DEF Settings!Connect
<1> DEFINE rest == Tail(o.todo)
           last2 == Tail(rest)
           last3 == Tail(last2)
<1>2. /\ o.op # "other" /\ PlanOK(o.todo) /\ o.todo \in Seq(StepNames)
      /\ rest \in Seq(StepNames) /\ PlanOK(rest) /\ Comes("list", rest)
      /\ Len(o.todo) \in Nat
      /\ \A s : Comes(s, rest) => Comes(s, o.todo)
  BY <1>1, Onward DEF NotionSteps
<1>3. /\ 4 <= Len(o.todo) /\ o.todo[2] = "consent" /\ o.todo[3] = "list"
      /\ o.todo[4] = "load" /\ \E j \in 5..Len(o.todo) : o.todo[j] = "list"
  <2>1. \A i \in 1..Len(o.todo) : o.todo[i] = "connect" =>
          /\ i + 3 <= Len(o.todo) /\ o.todo[i + 1] = "consent" /\ o.todo[i + 2] = "list"
          /\ o.todo[i + 3] = "load"
          /\ \E j \in (i + 4)..Len(o.todo) : o.todo[j] = "list"
    BY <1>2 DEF PlanOK
  <2>2. 1 \in 1..Len(o.todo) /\ o.todo[1] = "connect"
    <3>1. Len(o.todo) > 0
      BY <1>2 DEF PlanOK
    <3> QED BY <1>1, <1>2, <3>1
  <2>3. /\ 1 + 3 <= Len(o.todo) /\ o.todo[1 + 1] = "consent" /\ o.todo[1 + 2] = "list"
        /\ o.todo[1 + 3] = "load"
        /\ \E j \in (1 + 4)..Len(o.todo) : o.todo[j] = "list"
    BY <2>1, <2>2
  <2> QED BY <2>3
<1> HIDE DEF rest, last2, last3
<1>4. Len(rest) = Len(o.todo) - 1 /\ \A i \in 1..Len(rest) : rest[i] = o.todo[i + 1]
  BY <1>2, <1>3 DEF rest
<1>5. /\ last2 \in Seq(StepNames) /\ Len(last2) = Len(o.todo) - 2
      /\ \A i \in 1..Len(last2) : last2[i] = rest[i + 1]
  BY <1>2, <1>3, <1>4 DEF last2
<1>6. /\ last3 \in Seq(StepNames) /\ Len(last3) = Len(o.todo) - 3
      /\ \A i \in 1..Len(last3) : last3[i] = last2[i + 1]
  BY <1>2, <1>3, <1>5 DEF last3
<1>7. \A i \in 1..Len(last3) : i + 1 \in 1..Len(last2) /\ i + 2 \in 1..Len(rest)
  BY <1>2, <1>3, <1>4, <1>5, <1>6
<1>8. \A i \in 1..Len(last3) : last3[i] = o.todo[i + 3]
  <2> SUFFICES ASSUME NEW i \in 1..Len(last3) PROVE last3[i] = o.todo[i + 3]
    OBVIOUS
  <2>1. last3[i] = last2[i + 1] /\ last2[i + 1] = rest[(i + 1) + 1]
    BY <1>5, <1>6, <1>7
  <2>2. (i + 1) + 1 = i + 2 /\ rest[i + 2] = o.todo[(i + 2) + 1] /\ (i + 2) + 1 = i + 3
    BY <1>4, <1>7
  <2> QED BY <2>1, <2>2
<1>9. Head(rest) = "consent" /\ Head(last2) = "list" /\ Head(last3) = "load"
  <2>1. /\ Len(rest) >= 3 /\ rest[1] = o.todo[2] /\ rest[2] = o.todo[3]
    BY <1>2, <1>3, <1>4, SMTT(30)
  <2>2. Len(last2) >= 2 /\ last2[1] = rest[2]
    BY <1>2, <1>3, <1>5
  <2>3. Len(last3) >= 1 /\ last3[1] = o.todo[4]
    BY <1>2, <1>3, <1>6, <1>8
  <2> QED BY <1>2, <1>3, <1>5, <1>6, <2>1, <2>2, <2>3
<1>10. /\ last2 \in Seq(StepNames) /\ PlanOK(last2)
      /\ \A s : Comes(s, last2) => Comes(s, o.todo)
  BY <1>2, <1>9, RestOfPlan DEF last2
<1>11. /\ last3 \in Seq(StepNames) /\ PlanOK(last3)
      /\ \A s : Comes(s, last2) <=> s = "list" \/ Comes(s, last3)
  BY <1>9, <1>10, RestOfPlan DEF last3
<1>12. Comes("list", last3)
  <2>2. PICK j \in 5..Len(o.todo) : o.todo[j] = "list"
    BY <1>3
  <2>3. j - 3 \in 1..Len(last3) /\ last3[j - 3] = "list"
    BY <1>2, <1>6, <1>8, <2>2
  <2> QED BY <2>3 DEF Comes
<1>13. UNCHANGED <<kind, signing, Settings!settings, file, store>>
  BY DEF Settings!Connect
<1>14. /\ cli \in Clis /\ cli.notion \in NotionStates /\ "added" \in NotionStates
      /\ "joined" \in NotionStates
  BY DEF SettingsInv, SettingsTypes, Clis, NotionStates
<1>15. Head(rest) \notin Mid /\ Head(last2) \notin Mid /\ Head(last3) \notin Mid
  BY <1>9 DEF Mid
<1>16. Head(o.todo) \in NotionSteps /\ Comes("list", last2)
       /\ \A s : Comes(s, last3) => Comes(s, o.todo)
  BY <1>1, <1>10, <1>11 DEF NotionSteps
<1>17. ASSUME NEW t \in {rest, last2, last3}, Settings!Then(r, ops[r], t), UNCHANGED <<cli>>
       PROVE  SettingsInv'
  <2>1. t \in Seq(StepNames)
    BY <1>2, <1>10, <1>11
  <2>2. PICK n \in Handlers : n = [o EXCEPT !.todo = t]
    BY <2>1 DEF Handlers
  <2>3. n.todo = t /\ n.op = o.op /\ n.alone = o.alone /\ n.failed = o.failed
    BY <2>2 DEF Handlers
  <2>4. ops' = [ops EXCEPT ![r] = n]
    BY <1>1, <1>17, <2>2 DEF Settings!Then
  <2>5. PlanOK(t) /\ Head(t) \notin Mid /\ Comes("list", t)
       /\ \A s : Comes(s, t) => Comes(s, o.todo)
    BY <1>2, <1>10, <1>11, <1>12, <1>15, <1>16
  <2> QED BY <1>1, <1>13, <1>14, <1>16, <1>17, <2>3, <2>4, <2>5, NotionMoves
<1>18. CASE Settings!ConnectCodex(r, rest)
  <2>1. PICK notion \in NotionStates : Settings!Carry(r, notion, last2)
    BY <1>1, <1>14, <1>18 DEF Settings!ConnectCodex, last2
  <2> QED BY <1>1, <1>10, <1>13, <1>15, <1>16, <2>1, CarryStep
<1>19. CASE Settings!ConnectClaude(r, rest)
  <2>1. CASE token
    <3>1. Settings!Carry(r, "joined", last2)
      BY <1>19, <2>1 DEF Settings!ConnectClaude, last2
    <3> QED BY <1>1, <1>10, <1>13, <1>14, <1>15, <1>16, <3>1, CarryStep
  <2>2. CASE ~token
    <3>1. Settings!Then(r, ops[r], last3) /\ UNCHANGED cli
      BY <1>19, <2>2 DEF Settings!ConnectClaude, last2, last3
    <3> QED BY <1>17, <3>1
  <2> QED BY <2>1, <2>2
<1>20. CASE Settings!ConnectGemini(r, rest)
  <2>1. CASE ops[r].seen # "joined"
    <3>1. Settings!Carry(r, "added", rest)
      BY <1>20, <2>1 DEF Settings!ConnectGemini
    <3> QED BY <1>1, <1>2, <1>13, <1>14, <1>15, <1>16, <3>1, CarryStep
  <2>2. CASE ops[r].seen = "joined"
    <3>1. Settings!Then(r, ops[r], last2) /\ UNCHANGED cli
      BY <1>20, <2>2 DEF Settings!ConnectGemini, last2
    <3> QED BY <1>17, <3>1
  <2> QED BY <2>1, <2>2
<1> QED BY <1>1, <1>18, <1>19, <1>20 DEF Settings!Connect, rest

LEMMA ListStep ==
  ASSUME SettingsInv, NEW r \in Settings!Requests, Settings!List(r)
  PROVE  SettingsInv'
<1>1. PICK o \in Handlers : /\ o = ops[r] /\ o # Settings!Idle /\ Head(o.todo) = "list"
                            /\ Planned(o) /\ (Sure(o) => HandlerOK(o))
  BY Acting DEF Settings!List
<1>2. /\ o.op # "other" /\ Tail(o.todo) \in Seq(StepNames) /\ PlanOK(Tail(o.todo))
      /\ Head(Tail(o.todo)) \notin Mid /\ Comes("keep", Tail(o.todo))
      /\ \A s : Comes(s, o.todo) <=> s = "list" \/ Comes(s, Tail(o.todo))
  BY <1>1, Onward DEF Changes
<1>3. Settings!NotionSeen \in NotionStates \cup {Settings!Unknown, "done", "wait"}
  BY DEF SettingsInv, SettingsTypes, Clis, Settings!NotionSeen, NotionStates
<1>4. PICK seen \in NotionStates \cup {Settings!Unknown, "done", "wait"} : seen = Settings!NotionSeen
  BY <1>3
<1>5. PICK n \in Handlers :
        /\ n = [o EXCEPT !.seen = seen, !.todo = Tail(o.todo)]
        /\ n.todo = Tail(o.todo) /\ n.op = o.op /\ n.late = o.late /\ n.alone = o.alone
        /\ n.failed = o.failed
  BY <1>1, SeenStep
<1>6. ops' = [ops EXCEPT ![r] = n] /\ Planned(n)
  BY <1>1, <1>2, <1>4, <1>5 DEF Settings!List, Settings!Done, Settings!Then, Planned
<1>7. /\ known' = Settings!NotionSeen
      /\ UNCHANGED <<kind, cli, signing, authMode, key, token, file, store, page>>
  BY DEF Settings!List, Settings!Learn, Settings!settings
<1>8. ASSUME Sure(n) PROVE HandlerOK(n)'
  <2>1. HandlerOK(o)
    BY <1>1, <1>5, <1>8 DEF Sure
  <2>2. known' = Settings!NotionSeen'
    BY <1>7 DEF Settings!NotionSeen
  <2>3. ~Comes("save", n.todo) /\ n.op \in Tests /\ ~n.late => Right(file)'
    BY <1>2, <1>5, <1>7, <2>1 DEF HandlerOK, Promise, Right, Settings!TrueStatus
  <2> QED BY <1>2, <1>5, <2>1, <2>2, <2>3 DEF HandlerOK, Promise, HasRead, Mid
<1>9. /\ ops' \in [Settings!Requests -> Handlers \cup {Settings!Idle}] /\ PlansOK'
      /\ AloneIsAlone' /\ HandlersOK' /\ LastWordIsTrue'
  BY <1>1, <1>5, <1>6, <1>8, OneMoves
<1> QED BY <1>7, <1>9 DEF SettingsInv, SettingsTypes

-----------------------------------------------------------------------------
(***************************************************************************)
(* The page.                                                               *)
(***************************************************************************)
LEMMA PauseStep ==
  ASSUME SettingsInv, NEW r \in Settings!Requests, Settings!Pause(r)
  PROVE  SettingsInv'
<1>1. PICK o \in Handlers : /\ o = ops[r] /\ o # Settings!Idle /\ Head(o.todo) = "pause"
                            /\ Planned(o) /\ (Sure(o) => HandlerOK(o))
  BY Acting DEF Settings!Pause
<1>2. /\ o.op # "other" /\ PlanOK(o.todo) /\ o.todo \in Seq(StepNames)
      /\ Tail(o.todo) \in Seq(StepNames) /\ PlanOK(Tail(o.todo))
      /\ Head(Tail(o.todo)) \notin Mid
  BY <1>1, Onward
<1>3. PICK n \in Handlers : n = [o EXCEPT !.todo = Tail(o.todo)]
  BY <1>2 DEF Handlers
<1>4. /\ n.todo = Tail(o.todo) /\ n.op = o.op /\ n.late = o.late /\ n.alone = o.alone
      /\ n.failed = o.failed
  BY <1>3 DEF Handlers
<1>5. ops' = [ops EXCEPT ![r] = n] /\ Planned(n)
  BY <1>1, <1>2, <1>3, <1>4 DEF Settings!Pause, Settings!Done, Settings!Then, Planned
<1>6. ASSUME Sure(n) PROVE HandlerOK(n)
  <2>1. HandlerOK(o)
    BY <1>1, <1>4, <1>6 DEF Sure
  <2>2. Promise(n.op, n.late, n.todo)
    BY <1>1, <1>2, <1>4, <2>1, StepDropped DEF HandlerOK
  <2> QED BY <1>2, <1>4, <2>2 DEF HandlerOK, HasRead, Mid
<1> QED BY <1>1, <1>4, <1>5, <1>6, OneReads DEF Settings!Pause

LEMMA GiveUpStep ==
  ASSUME SettingsInv, NEW r \in Settings!Requests, Settings!GiveUp(r)
  PROVE  SettingsInv'
<1>1. PICK step \in Settings!Long : Settings!At(r, step)
  BY DEF Settings!GiveUp
<1>2. PICK o \in Handlers : /\ o = ops[r] /\ o # Settings!Idle /\ Planned(o)
                            /\ (Sure(o) => HandlerOK(o))
  BY <1>1, Acting
<1>3. PICK n \in Handlers : n = [o EXCEPT !.given = TRUE]
  BY DEF Handlers
<1>4. /\ n.todo = o.todo /\ n.op = o.op /\ n.late = o.late /\ n.alone = o.alone
      /\ n.failed = o.failed /\ n.mode = o.mode /\ n.installed = o.installed
      /\ n.status = o.status /\ n.key = o.key /\ n.token = o.token
  BY <1>3 DEF Handlers
<1>5. ops' = [ops EXCEPT ![r] = n] /\ Planned(n)
  <2>1. ops' = [ops EXCEPT ![r].given = TRUE] /\ ops \in [Settings!Requests -> Handlers \cup {Settings!Idle}]
    BY DEF Settings!GiveUp, SettingsInv, SettingsTypes
  <2> QED BY <1>2, <1>3, <1>4, <2>1 DEF Planned
<1>6. Sure(n) => HandlerOK(n)
  BY <1>2, <1>4 DEF Sure, HandlerOK, HasRead
<1> QED BY <1>2, <1>4, <1>5, <1>6, OneReads DEF Settings!GiveUp

\* What a new handler is like.
LEMMA StartedTypes ==
  ASSUME NEW op \in Settings!Asked \cup {"auth"}, NEW todo \in Seq(StepNames), NEW m \in Modes,
         NEW t \in BOOLEAN, NEW alone \in BOOLEAN, NEW polls \in Nat
  PROVE  \E n \in Handlers :
           /\ n = Settings!Started(op, todo, m, t, alone, polls)
           /\ n.op = op /\ n.todo = todo /\ n.alone = alone /\ n # Settings!Idle
<1>1. PICK n \in Handlers : n = Settings!Started(op, todo, m, t, alone, polls)
  BY DEF Settings!Started, Handlers, Statuses
<1>2. n.op = op /\ n.todo = todo /\ n.alone = alone /\ n # Settings!Idle
  BY <1>1 DEF Settings!Started, Settings!Idle, Settings!Asked
<1> QED BY <1>1, <1>2

\* The handler that answered was the last word, if it ran alone.
LEMMA EndedStep ==
  ASSUME SettingsInv, NEW r \in Settings!Requests, NEW o \in Handlers, o = ops[r],
         o # Settings!Idle,
         Planned(o), Sure(o) => HandlerOK(o), Head(o.todo) = "answer", o.op # "other", Settings!Ended(r),
         UNCHANGED <<kind, cli, signing, Settings!settings, file, known, store>>,
         page' \in {page, store},
         o.op \in Settings!Busy \/ o.given \/ page' = store,
         o.given => o.op \in {"auth", "logout"} \cup Settings!Busy
  PROVE  SettingsInv'
<1>1. /\ ops' = [ops EXCEPT ![r] = Settings!Idle]
      /\ last' = IF o.alone /\ ~o.failed
                 THEN [op |-> o.op, late |-> o.late, given |-> o.given] ELSE Settings!Nobody
  BY DEF Settings!Ended
<1>2. /\ ops' \in [Settings!Requests -> Handlers \cup {Settings!Idle}] /\ PlansOK'
      /\ AloneIsAlone' /\ HandlersOK'
  BY <1>1, OneEnds
<1>3. LastWordIsTrue'
  <2> SUFFICES ASSUME last' # Settings!Nobody PROVE
        /\ store' = Settings!View(authMode', key', token', cli'.installed, file', store'.notion)
        /\ last'.op \in {"test", "auth", "logout"} /\ ~last'.late
             => store'.status = Settings!TrueStatus'
        /\ last'.op \in Settings!NotionOps /\ cli'.installed
             => store'.notion = Settings!NotionSeen'
        /\ ~(last'.given /\ last'.op \in {"auth", "logout"}) => page' = store'
    BY DEF LastWordIsTrue, Settings!LastWordIsTrue
  <2>1. Sure(o) /\ HandlerOK(o) /\ last' = [op |-> o.op, late |-> o.late, given |-> o.given]
    BY <1>1 DEF Sure
  <2>2. last'.op = o.op /\ last'.late = o.late /\ last'.given = o.given
    BY <2>1
  <2>3. \A s : s # "answer" => ~Comes(s, o.todo)
    <3>1. PlanOK(o.todo) /\ o.todo \in Seq(StepNames)
      BY DEF Planned, Handlers
    <3>2. o.todo[1] = "answer" /\ 1 \in 1..Len(o.todo)
      BY <3>1 DEF PlanOK
    <3>3. Len(o.todo) = 1
      BY <3>1, <3>2 DEF PlanOK
    <3> QED BY <3>2, <3>3 DEF Comes
  <2>4. Shows(o.op) /\ (o.op \in Tests /\ ~o.late => Right(file))
    BY <2>1, <2>3 DEF HandlerOK, Promise
  <2>5. store' = Settings!View(authMode', key', token', cli'.installed, file', store'.notion)
    BY <2>4 DEF Shows, Settings!settings
  <2>6. o.op \in Tests /\ ~o.late => store'.status = Settings!TrueStatus'
    <3> SUFFICES ASSUME o.op \in Tests, ~o.late PROVE store.status = Settings!TrueStatus
      BY DEF Settings!TrueStatus, Settings!settings
    <3>1. store.status = IF authMode = "apiKey" /\ ~key THEN "missing" ELSE file
      BY <2>4 DEF Shows, Settings!View
    <3>2. Right(file)
      BY <2>4
    <3> QED BY <3>1, <3>2 DEF Right, Settings!TrueStatus
  <2>7. o.op \in Settings!NotionOps /\ cli'.installed => store'.notion = Settings!NotionSeen'
    BY <2>4 DEF Shows, Settings!NotionSeen
  <2>8. ~(o.given /\ o.op \in {"auth", "logout"}) => page' = store'
    BY <2>4 DEF Shows
  <2> QED BY <2>2, <2>5, <2>6, <2>7, <2>8 DEF Tests
<1> QED BY <1>2, <1>3 DEF SettingsInv, SettingsTypes, Settings!settings

LEMMA GoesOnStep ==
  ASSUME SettingsInv, NEW r \in Settings!Requests, NEW o \in Handlers, o = ops[r],
         o # Settings!Idle,
         NEW op \in {"test", "auth"}, NEW todo, Whole(op, todo), NEW polls \in Nat,
         Settings!GoesOn(r, op, todo, polls),
         UNCHANGED <<kind, cli, signing, Settings!settings, file, known, store>>
  PROVE  SettingsInv'
<1>1. todo \in Seq(StepNames) /\ PlanOK(todo) /\ op \in Settings!Asked \cup {"auth"} /\ "cli" \in Modes
      /\ o.alone \in BOOLEAN
  BY DEF Whole, Settings!Asked, Modes, Handlers
<1>2. PICK alone \in BOOLEAN, t \in BOOLEAN, m \in Modes :
        alone = o.alone /\ t = FALSE /\ m = "cli"
  BY <1>1
<1>3. PICK n \in Handlers :
        /\ n = Settings!Started(op, todo, m, t, alone, polls)
        /\ n.op = op /\ n.todo = todo /\ n.alone = alone /\ n # Settings!Idle
  <2>1. todo \in Seq(StepNames) /\ op \in Settings!Asked \cup {"auth"}
    BY <1>1
  <2> QED BY <2>1, StartedTypes
<1>4. ops' = [ops EXCEPT ![r] = n]
  BY <1>2, <1>3 DEF Settings!GoesOn
<1>5. Planned(n) /\ HandlerOK(n)'
  BY <1>1, <1>3, FreshOK DEF Planned
<1>6. /\ ops' \in [Settings!Requests -> Handlers \cup {Settings!Idle}] /\ PlansOK'
      /\ AloneIsAlone' /\ HandlersOK' /\ LastWordIsTrue'
  BY <1>2, <1>3, <1>4, <1>5, OneMoves
<1> QED BY <1>6 DEF SettingsInv, SettingsTypes, Settings!settings

LEMMA AnswerStep ==
  ASSUME SettingsInv, NEW r \in Settings!Requests, Settings!Answer(r)
  PROVE  SettingsInv'
<1>1. PICK o \in Handlers : /\ o = ops[r] /\ o # Settings!Idle /\ Head(o.todo) = "answer"
                            /\ Planned(o) /\ (Sure(o) => HandlerOK(o))
  BY Acting DEF Settings!Answer
<1>2. /\ o.op # "other" /\ o.polls \in Nat
      /\ o.op \in Settings!Busy \cup {"auth", "logout"}
  BY <1>1 DEF Planned, Handlers, Settings!Asked, Settings!Busy
<1>3. UNCHANGED <<kind, cli, signing, Settings!settings, file, known, store>>
  BY DEF Settings!Answer
<1> DEFINE polled == o.op = "test" /\ o.polls > 0
<1>4. CASE o.given
  <2>1. Settings!Ended(r) /\ UNCHANGED page
    BY <1>1, <1>4 DEF Settings!Answer
  <2> QED BY <1>1, <1>2, <1>3, <1>4, <2>1, EndedStep
<1>5. CASE ~o.given /\ o.op = "auth"
  <2>1. IF o.seen = "done" THEN page' = store /\ Settings!Ended(r)
        ELSE UNCHANGED page /\ Settings!GoesOn(r, "test", Settings!Polling, 1)
    BY <1>1, <1>5 DEF Settings!Answer
  <2>2. CASE o.seen = "done"
    BY <1>1, <1>2, <1>3, <1>5, <2>1, <2>2, EndedStep
  <2>3. CASE o.seen # "done"
    BY <1>1, <1>3, <2>1, <2>3, GoesOnStep, PollingPlan
  <2> QED BY <2>2, <2>3
<1>6. CASE ~o.given /\ o.op # "auth"
  <2>1. \/ UNCHANGED page /\ Settings!GoesOn(r, "test", Settings!Polling, o.polls + 1)
        \/ Settings!GoesOn(r, "auth", Settings!Handler("auth"), 0)
        \/ /\ page' = IF o.op \in Settings!Reads /\ ~(polled /\ o.answer # "healthy")
                      THEN store ELSE page
           /\ Settings!Ended(r)
    BY <1>1, <1>6 DEF Settings!Answer
  <2>2. CASE Settings!GoesOn(r, "test", Settings!Polling, o.polls + 1)
    BY <1>1, <1>2, <1>3, <2>2, GoesOnStep, PollingPlan
  <2>3. CASE Settings!GoesOn(r, "auth", Settings!Handler("auth"), 0)
    BY <1>1, <1>3, <2>3, GoesOnStep, AuthPlan
  <2>4. CASE /\ page' = IF o.op \in Settings!Reads /\ ~(polled /\ o.answer # "healthy")
                        THEN store ELSE page
             /\ Settings!Ended(r)
    <3>1. page' \in {page, store}
      BY <2>4
    <3>2. o.op \in Settings!Busy \/ page' = store
      BY <1>2, <1>6, <2>4 DEF Settings!Reads
    <3> QED BY <1>1, <1>2, <1>3, <1>6, <2>4, <3>1, <3>2, EndedStep
  <2> QED BY <2>1, <2>2, <2>3, <2>4
<1> QED BY <1>4, <1>5, <1>6

\* The plan of a request that the user makes.
LEMMA AskedPlans ==
  ASSUME NEW op \in Settings!Asked, NEW t \in BOOLEAN, t => op = "connect"
  PROVE  LET todo == (IF t THEN <<"token">> ELSE << >>) \o Settings!Handler(op)
         IN  IF op = "other" THEN todo = <<"borrow", "repay">> ELSE Whole(op, todo)
<1>1. op # "other" => Settings!Handler(op) \in Seq(StepNames) /\ Whole(op, Settings!Handler(op))
  BY TestPlan, ConfigPlan, KeyPlan, NoKeyPlan, LogoutPlan, CheckPlan, ConnectPlan,
     DisconnectPlan DEF Settings!Asked, Whole
<1>2. Settings!Handler("other") = <<"borrow", "repay">> /\ <<"borrow", "repay">> \in Seq(StepNames)
  BY DEF Settings!Handler, StepNames
<1>3. CASE t
  BY <1>3, TokenPlan
<1>4. CASE ~t
  <2>1. Settings!Handler(op) \in Seq(StepNames)
    BY <1>1, <1>2
  <2>2. << >> \o Settings!Handler(op) = Settings!Handler(op)
    BY <2>1, ConcatEmptySeq
  <2> QED BY <1>1, <1>2, <1>4, <2>2
<1> QED BY <1>3, <1>4

LEMMA StartStep ==
  ASSUME SettingsInv, NEW r \in Settings!Requests, Settings!MayStart(r), Settings!Start(r)
  PROVE  SettingsInv'
<1>1. PICK op \in Settings!Asked, m \in Modes, t \in BOOLEAN :
          Settings!Starts(r, op, m, t) /\ (t => op = "connect")
  BY DEF Settings!Start, SettingsInv, SettingsTypes, Modes
<1> DEFINE todo == (IF t THEN <<"token">> ELSE << >>) \o Settings!Handler(op)
<1>2. /\ ops[r] = Settings!Idle /\ ops \in [Settings!Requests -> Handlers \cup {Settings!Idle}]
      /\ 3 - r \in Settings!Requests /\ 3 - r # r /\ 3 - (3 - r) = r
  BY DEF Settings!MayStart, SettingsInv, SettingsTypes, Settings!Requests
<1>3. IF op = "other" THEN todo = <<"borrow", "repay">> ELSE Whole(op, todo)
  BY <1>1, AskedPlans
<1>4. todo \in Seq(StepNames) /\ op \in Settings!Asked \cup {"auth"}
  <2>1. <<"borrow", "repay">> \in Seq(StepNames)
    BY DEF StepNames
  <2> QED BY <1>3, <2>1 DEF Whole
<1>5. /\ UNCHANGED <<kind, cli, signing, Settings!settings, file, known, store, last>>
      /\ ops' = [ops EXCEPT ![r] = Settings!Started(op, todo, m, t, ops[3 - r] = Settings!Idle, 0),
                            ![3 - r] = IF ops[3 - r] = Settings!Idle THEN Settings!Idle
                                       ELSE [ops[3 - r] EXCEPT !.alone = FALSE, !.late = FALSE]]
  BY <1>1 DEF Settings!Starts
<1> HIDE DEF todo
<1>6. PICK alone \in BOOLEAN : alone = (ops[3 - r] = Settings!Idle)
  OBVIOUS
<1>7. PICK n \in Handlers :
        /\ n = Settings!Started(op, todo, m, t, alone, 0)
        /\ n.op = op /\ n.todo = todo /\ n.alone = alone /\ n # Settings!Idle
  BY <1>4, StartedTypes
<1>8. PICK q \in Handlers \cup {Settings!Idle} :
        /\ q = IF ops[3 - r] = Settings!Idle THEN Settings!Idle
               ELSE [ops[3 - r] EXCEPT !.alone = FALSE, !.late = FALSE]
        /\ q # Settings!Idle => ~q.alone /\ Planned(q) /\ ops[3 - r] # Settings!Idle
  <2>1. CASE ops[3 - r] = Settings!Idle
    BY <2>1
  <2>2. CASE ops[3 - r] # Settings!Idle
    <3>1. PICK o \in Handlers : o = ops[3 - r] /\ Planned(o)
      BY <1>2, <2>2 DEF SettingsInv, PlansOK
    <3>2. PICK p \in Handlers : p = [o EXCEPT !.alone = FALSE, !.late = FALSE]
      BY ZenonT(60) DEF Handlers
    <3>3. ~p.alone /\ p.todo = o.todo /\ p.op = o.op
      BY <3>2 DEF Handlers
    <3>4. Planned(p)
      BY <3>1, <3>3 DEF Planned
    <3> QED BY <2>2, <3>1, <3>2, <3>3, <3>4
  <2> QED BY <2>1, <2>2
<1>9. /\ ops' \in [Settings!Requests -> Handlers \cup {Settings!Idle}] /\ ops'[r] = n /\ ops'[3 - r] = q
      /\ \A p \in Settings!Requests : p = r \/ p = 3 - r
  BY <1>2, <1>5, <1>6, <1>7, <1>8 DEF Settings!Requests
<1>10. Planned(n)
  BY <1>3, <1>7 DEF Planned, Whole
<1>11. PlansOK'
  <2> SUFFICES ASSUME NEW p \in Settings!Requests, NEW k \in {ops'[p]}, k # Settings!Idle
               PROVE  Planned(k)
    BY DEF PlansOK, Planned
  <2> QED BY <1>8, <1>9, <1>10
<1>12. AloneIsAlone'
  <2> SUFFICES ASSUME NEW p \in Settings!Requests, ops'[p] # Settings!Idle, ops'[p].alone
               PROVE  ops'[3 - p] = Settings!Idle
    BY DEF AloneIsAlone
  <2>1. p = r
    BY <1>8, <1>9
  <2> QED BY <1>6, <1>7, <1>8, <1>9, <2>1
<1>13. HandlersOK'
  <2> SUFFICES ASSUME NEW p \in Settings!Requests, NEW k \in {ops'[p]}, k # Settings!Idle, Sure(k)
               PROVE  HandlerOK(k)'
    BY DEF HandlersOK, Sure
  <2>1. k = n
    BY <1>8, <1>9 DEF Sure
  <2>2. Whole(n.op, n.todo)
    BY <1>3, <1>7, <2>1 DEF Sure
  <2> QED BY <2>1, <2>2, FreshOK
<1>14. LastWordIsTrue'
  BY <1>7, <1>9 DEF LastWordIsTrue, Settings!LastWordIsTrue
<1> QED BY <1>5, <1>9, <1>11, <1>12, <1>13, <1>14
        DEF SettingsInv, SettingsTypes, Settings!settings

-----------------------------------------------------------------------------
LEMMA InitSettings == Settings!Init => SettingsInv
<1> SUFFICES ASSUME Settings!Init PROVE SettingsInv
  OBVIOUS
<1>1. SettingsTypes
  BY MachinesAssumption
  DEF Settings!Init, SettingsTypes, Kinds, Clis, Modes, NotionStates, Statuses
<1>2. \A r \in Settings!Requests : ops[r] = Settings!Idle
  BY DEF Settings!Init
<1>3. PlansOK /\ AloneIsAlone /\ HandlersOK
  BY <1>2 DEF PlansOK, AloneIsAlone, HandlersOK, Settings!Requests
<1>4. LastWordIsTrue
  BY DEF Settings!Init, LastWordIsTrue, Settings!LastWordIsTrue
<1> QED BY <1>1, <1>3, <1>4 DEF SettingsInv

LEMMA SettingsStep == SettingsInv /\ [Settings!Next]_Settings!vars => SettingsInv'
<1> SUFFICES ASSUME SettingsInv, [Settings!Next]_Settings!vars PROVE SettingsInv'
  OBVIOUS
<1>1. ASSUME NEW r \in Settings!Requests, Settings!MayStart(r), Settings!Start(r) PROVE SettingsInv'
  BY <1>1, StartStep
<1>2. ASSUME NEW r \in Settings!Requests,
             \/ Settings!Detect(r) \/ Settings!Credential(r) \/ Settings!Ask(r) \/ Settings!Save(r)
             \/ Settings!Install(r)
             \/ Settings!Load(r) \/ Settings!Look(r) \/ Settings!Count(r)
             \/ Settings!Keep(r) \/ Settings!Hold(r)
      PROVE  SettingsInv'
  BY <1>2, DetectStep, CredentialStep, AskStep, SaveStep, InstallStep, LoadStep, LookStep,
     CountStep, KeepStep, HoldStep
<1>3. ASSUME NEW r \in Settings!Requests,
             \/ Settings!Set(r) \/ Settings!SaveKey(r) \/ Settings!ClearKey(r)
             \/ Settings!Borrow(r) \/ Settings!Repay(r)
             \/ Settings!Probe(r) \/ Settings!Sign(r) \/ Settings!SignOut(r)
      PROVE  SettingsInv'
  BY <1>3, SetStep, KeyStep, BorrowStep, RepayStep, ProbeStep, SignStep, SignOutStep
<1>4. ASSUME NEW r \in Settings!Requests,
             \/ Settings!List(r) \/ Settings!Token(r) \/ Settings!Connect(r)
             \/ Settings!Consent(r) \/ Settings!Remove(r)
             \/ Settings!Answer(r) \/ Settings!Pause(r) \/ Settings!GiveUp(r)
      PROVE  SettingsInv'
  BY <1>4, ListStep, TokenStep, ConnectStep, ConsentStep, RemoveStep, AnswerStep, PauseStep,
     GiveUpStep
<1>5. CASE Settings!Login
  BY <1>5, LoginStep
<1>6. CASE UNCHANGED Settings!vars
  <2>1. UNCHANGED <<kind, cli, signing, authMode, key, token, file, known, store, page, ops, last>>
    BY <1>6 DEF Settings!vars, Settings!settings, Settings!caches
  <2>2. SettingsTypes' /\ PlansOK' /\ AloneIsAlone'
    BY <2>1 DEF SettingsInv, SettingsTypes, PlansOK, Planned, AloneIsAlone
  <2>3. HandlersOK'
    <3> SUFFICES ASSUME NEW r \in Settings!Requests, NEW m \in {ops[r]}, m # Settings!Idle, Sure(m)
                 PROVE  HandlerOK(m)'
      BY <2>1 DEF HandlersOK, Sure
    <3>1. HandlerOK(m)
      BY DEF SettingsInv, HandlersOK
    <3>2. Promise(m.op, m.late, m.todo)'
      BY <2>1, <3>1, FrameOK DEF HandlerOK, Settings!settings
    <3>3. HasRead(m)'
      BY <2>1, <3>1, ReadingKept DEF HandlerOK, Settings!settings
    <3> QED BY <3>2, <3>3 DEF HandlerOK
  <2>4. LastWordIsTrue'
    BY <2>1
    DEF SettingsInv, LastWordIsTrue, Settings!LastWordIsTrue, Settings!TrueStatus,
        Settings!NotionSeen
  <2> QED BY <2>2, <2>3, <2>4 DEF SettingsInv
<1> QED BY <1>1, <1>2, <1>3, <1>4, <1>5, <1>6 DEF Settings!Next

(* After a request that ran alone and did not fail, the sidebar state and the page show *)
(* the present settings, key and installation, a test, login or logout leaves the true  *)
(* status (unless the CLI's answer or the login came too late) and a request about      *)
(* Notion the true connection, whatever requests overlapped before: the registry's      *)
(* caches and statuses (providers.ts), the handlers (providersHandlers.ts,              *)
(* providerCliHandlers.ts) and the flows of the page (App.tsx, ProvidersPage.tsx).      *)
THEOREM LastWords == Settings!Spec => []LastWordIsTrue
<1>1. Settings!Spec => []SettingsInv
  BY InitSettings, SettingsStep, PTL DEF Settings!Spec
<1>2. SettingsInv => LastWordIsTrue
  BY DEF SettingsInv
<1> QED BY <1>1, <1>2, PTL
=============================================================================
