----------------------------- MODULE MCProviders -----------------------------
(***************************************************************************)
(* One run for what a runner needs before a session can work: its device   *)
(* token, the settings of a provider, and a provider's turn.  The three    *)
(* share no variable: a state of one does not bear on the others, so each  *)
(* is explored while the others have not begun, which gives the sum of the *)
(* state spaces, not their product.                                        *)
(***************************************************************************)
EXTENDS DevicePairing, Sequences

(* What the CLIs print. *)
Script(who, says, ended, exit) ==
  [provider |-> who, lines |-> says, ended |-> ended, exit |-> exit]
CliLine(kindOf, id, text) == [kind |-> kindOf, id |-> id, text |-> text]
L(kindOf, text) == CliLine(kindOf, "message", text)
A == <<"a", "b">>
B == <<"c", "_", "d">>

\* Two messages of a turn; messages without a turn, an error between; text in pieces
\* and then in full, and an item with nothing visible.
Codex ==
  {<<L("turn", <<>>), CliLine("begin", "i1", <<>>), CliLine("item", "i1", A),
     CliLine("begin", "i2", <<>>), CliLine("item", "i2", B)>>,
   <<CliLine("begin", "i1", <<>>), CliLine("item", "i1", A), L("error", <<"e">>),
     CliLine("item", "i2", B)>>,
   <<CliLine("delta", "i1", <<"a">>), L("other", <<>>), CliLine("delta", "i1", <<"b">>),
     CliLine("full", "i1", A), CliLine("item", "i2", <<"_">>), CliLine("full", "i2", B)>>}
\* A stream that repeats what it has said; a document that is no stream; both.
Gemini ==
  {<<L("other", <<>>), L("part", <<"a">>), L("say", A), L("say", A \o B), L("result", <<>>)>>,
   <<L("raw", <<"a">>), L("raw", <<"b">>)>>,
   <<L("raw", <<"a">>), L("say", B)>>}
Claude == {<<L("text", <<"_">>), L("text", <<"a">>), L("text", <<"_">>), L("text", B)>>, <<>>}

MCScripts ==
  {Script("codex", s, e, x) : s \in Codex, e \in BOOLEAN, x \in {0, 1}}
  \union {Script("gemini", s, e, x) : s \in Gemini, e \in BOOLEAN, x \in {0, 1}}
  \union {Script("claude", s, FALSE, x) : s \in Claude, x \in {0, 1}}

(* Missing CLIs, CLIs without their login and with it, and keys. *)
Machine(k, installed, login, m, hasKey) ==
  [kind |-> k, mode |-> m, key |-> hasKey,
   cli |-> [installed |-> installed, login |-> login, notion |-> "absent"]]
MCMachines ==
  {Machine("codex", FALSE, FALSE, "cli", FALSE)}
  \union {Machine(k, TRUE, FALSE, "cli", TRUE) : k \in {"codex", "claude", "gemini"}}
  \union {Machine("gemini", TRUE, TRUE, "apiKey", TRUE)}

-----------------------------------------------------------------------------
CONSTANTS Machines, MaxStarted, MaxPolls, Scripts, White

ASSUME MachinesAssumption ==
  \A m \in Machines :
    /\ m.kind \in {"codex", "claude", "gemini"} /\ m.mode \in {"cli", "apiKey"}
    /\ m.key \in BOOLEAN
    /\ m.cli \in [installed : BOOLEAN, login : BOOLEAN, notion : {"absent", "added", "joined"}]

VARIABLES kind, cli, signing, authMode, key, token, file, reg, known, store, page,
          ops, started, last
Settings == INSTANCE ProviderSettings WITH mode <- authMode
settingsVars == <<kind, cli, signing, authMode, key, token, file, reg, known, store, page,
                  ops, started, last>>

VARIABLES script, keyless, stage, outcome, told, aborted, delivered, buffer, tail,
          stream, chat, logged, pending, busy, closing, lost
Turn == INSTANCE ProviderTurn WITH phase <- stage, asked <- told, shown <- chat
chatVars == <<script, keyless, stage, outcome, told, aborted, delivered, buffer, tail,
              stream, chat, logged, pending, busy, closing, lost>>

NoSettings == started = 0 /\ kind = "codex" /\ cli.installed
NoTurn == stage = "called" /\ ~told /\ script = Script("claude", <<>>, FALSE, 0) /\ ~keyless

MCInit ==
  /\ Init /\ Settings!Init /\ Turn!Init
  /\ NoSettings \/ NoTurn
MCNext ==
  \/ NoSettings /\ NoTurn /\ Next /\ UNCHANGED <<settingsVars, chatVars>>
  \/ NoTurn /\ Init /\ Settings!Next /\ UNCHANGED <<vars, chatVars>>
  \/ NoSettings /\ Init /\ Turn!Next /\ UNCHANGED <<vars, settingsVars>>
MCSpec == MCInit /\ [][MCNext]_<<vars, settingsVars, chatVars>>

(* The last word about a provider is true (the settings' handlers, registry  *)
(* and page; ProviderSettings states it).                                    *)
LastWordIsTrue == Settings!LastWordIsTrue
(* The chat of a settled turn tells the answer (runProcess, StreamProcessor). *)
ChatTellsTheAnswer == Turn!ChatTellsTheAnswer
=============================================================================
